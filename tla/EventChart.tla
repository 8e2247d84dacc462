----------------------------- MODULE EventChart -----------------------------
(***************************************************************************)
(* The price chart (components/charts/TVChart.tsx and its primitives) and  *)
(* the two screens that hand it what it draws: the market overview, which  *)
(* adds moving averages whose titles are in the language of the page, and  *)
(* the stock detail screen, which adds marks for big moves.                *)
(*                                                                         *)
(* The chart is an object outside React.  Four effects keep it up to date, *)
(* each run when one of its own inputs changed: one builds the chart anew, *)
(* one sets the bars, one the event lines, one the marks.  A render runs   *)
(* its effects in that order before anything else happens.                 *)
(***************************************************************************)
EXTENDS Integers, Sequences

CONSTANTS
  EcBars,       \* what may be loaded: the days that have a bar, in their order
  EcMonthly,    \* those of them whose bars are months, one of each
  EcEvent,      \* days on which an event is dated
  EcMaxChanges  \* bound: changes of what the chart is given

Month(day) == day \div 10
ASSUME EcAssumption ==
  /\ EcBars \subseteq Seq(Nat) /\ EcMonthly \subseteq EcBars /\ EcBars \ EcMonthly # {}
  /\ \A bars \in EcBars : \A i, j \in DOMAIN bars : i < j => bars[i] < bars[j]
  /\ \A bars \in EcMonthly : \A i, j \in DOMAIN bars : Month(bars[i]) = Month(bars[j]) => i = j
  /\ EcEvent \subseteq Nat /\ EcMaxChanges \in Nat

VARIABLES
  ecScreen,   \* "market" or "detail"
  ecBars,     \* the bars of the period or timeframe chosen
  ecLocale,   \* the language of the page
  ecFiltered, \* the events the filter leaves
  ecMarked,   \* the days the thresholds mark
  ecShown,    \* what TVChart was last rendered with
  ecChart,    \* the chart object
  ecHover,    \* the events of the tooltip
  ecLost,     \* the chart was built anew and its event lines were not set again
  ecUsed      \* bound

ecVars == <<ecScreen, ecBars, ecLocale, ecFiltered, ecMarked, ecShown, ecChart,
            ecHover, ecLost, ecUsed>>

Days(bars) == {bars[i] : i \in DOMAIN bars}
Loaded == UNION {Days(b) : b \in EcBars}

\* eventCoordinate's two rules.  Coordinates are doubled, so that a midpoint is a number.
TimeToCoordinate(day, bars) == 2 * (CHOOSE i \in DOMAIN bars : bars[i] = day)
DayCoordinate(day, times, bars) ==
  LET before == {i \in DOMAIN times : times[i] < day}
      after == {i \in DOMAIN times : times[i] > day}
      last == CHOOSE i \in before : \A j \in before : j <= i
      first == CHOOSE i \in after : \A j \in after : i <= j
  IN IF day \in Days(times) THEN {TimeToCoordinate(day, bars)}
     ELSE IF before = {} \/ after = {} THEN {}
     ELSE {(TimeToCoordinate(times[last], bars) + TimeToCoordinate(times[first], bars)) \div 2}
MonthCoordinate(day, times, bars) ==
  {TimeToCoordinate(d, bars) : d \in {t \in Days(times) : Month(t) = Month(day)}}
EventCoordinate(day, times, bars, monthly) ==
  IF monthly THEN MonthCoordinate(day, times, bars) ELSE DayCoordinate(day, times, bars)
\* placeEventLines: events by where they are drawn.
PlacedLines(events, times, bars, monthly) ==
  {[x |-> x, events |-> {e \in events : x \in EventCoordinate(e, times, bars, monthly)}] :
     x \in UNION {EventCoordinate(e, times, bars, monthly) : e \in events}}

\* The props of a render.  The averages are a new array when the bars or the language change.
Averages == IF ecScreen = "market" THEN <<ecLocale, ecBars>> ELSE <<>>
Props == [bars |-> ecBars, averages |-> Averages, events |-> ecFiltered, marks |-> ecMarked,
          monthly |-> ecBars \in EcMonthly]
NewChart == [candles |-> <<>>, averages |-> <<>>, times |-> <<>>, events |-> {}, monthly |-> FALSE,
             visible |-> FALSE, marks |-> {}, zoomed |-> FALSE]

\* What the reader sees of the chart object.
DrawnLines ==
  IF ~ ecChart.visible THEN {}
  ELSE PlacedLines(ecChart.events, ecChart.times, ecChart.candles, ecChart.monthly)
DrawnMarks == ecChart.marks \cap Days(ecChart.candles)

EcTypeOK ==
  /\ ecScreen \in {"market", "detail"} /\ ecBars \in EcBars /\ ecLocale \in {"en", "ko"}
  /\ ecFiltered \subseteq EcEvent /\ ecMarked \subseteq Loaded
  /\ ecShown.bars \in EcBars \cup {<<>>} /\ ecChart.candles \in EcBars \cup {<<>>}
  /\ ecHover \subseteq EcEvent /\ ecLost \in BOOLEAN /\ ecUsed \in 0..EcMaxChanges

\* The first render builds the chart and runs every effect.
EcInit ==
  /\ ecScreen \in {"market", "detail"}
  /\ ecBars = CHOOSE b \in EcBars \ EcMonthly : TRUE
  /\ ecLocale = "en" /\ ecFiltered = EcEvent /\ ecMarked = {}
  /\ ecShown = Props
  /\ ecChart = [NewChart EXCEPT !.candles = ecBars, !.averages = Averages, !.times = ecBars,
                                !.events = EcEvent, !.visible = TRUE]
  /\ ecHover = {} /\ ecLost = FALSE /\ ecUsed = 0

-----------------------------------------------------------------------------
(* One render of the chart with the props the page now has.                *)

\* The comparator: no render when nothing it names changed.
SameProps(p, q) ==
  /\ p.bars = q.bars /\ p.averages = q.averages /\ p.monthly = q.monthly
  /\ p.marks = q.marks /\ p.events = q.events

\* Defect: the events are among the dependencies of the setup effect.
RebuildsOnEvents(p, q) ==
  p.averages # q.averages \/ Len(p.bars) # Len(q.bars) \/ p.events # q.events

\* The setup effect: the averages and the number of bars.  Its colours are those of the last move,
\* which a page keeps.
Rebuilds(p, q) ==
  \/ p.averages # q.averages \/ Len(p.bars) # Len(q.bars)
SetUp(chart, p, q) == IF Rebuilds(p, q) THEN NewChart ELSE chart
\* The data effect fits the content to the screen.
SetData(chart, p, q) ==
  IF p.bars # q.bars \/ p.averages # q.averages
  THEN [chart EXCEPT !.candles = IF q.bars # <<>> THEN q.bars ELSE @,
                     !.averages = q.averages, !.zoomed = FALSE]
  ELSE chart
EventsChanged(p, q) == p.events # q.events \/ p.bars # q.bars \/ p.monthly # q.monthly
SetEvents(chart, p, q) ==
  IF EventsChanged(p, q)
  THEN [chart EXCEPT !.events = q.events, !.times = q.bars, !.monthly = q.monthly, !.visible = TRUE]
  ELSE chart
\* The marks are set after a rebuild too.
SetMarks(chart, p, q) ==
  IF p.marks # q.marks \/ p.bars # q.bars \/ Rebuilds(p, q)
  THEN [chart EXCEPT !.marks = q.marks] ELSE chart

Effects(chart, p, q) == SetMarks(SetEvents(SetData(SetUp(chart, p, q), p, q), p, q), p, q)
\* The page rendered with something new: so does the chart, unless its props are the same.
RenderChart ==
  IF SameProps(ecShown, Props') THEN UNCHANGED <<ecShown, ecChart, ecLost>>
  ELSE /\ ecShown' = Props'
       /\ ecChart' = Effects(ecChart, ecShown, Props')
       /\ ecLost' = ((ecLost \/ Rebuilds(ecShown, Props')) /\ ~ EventsChanged(ecShown, Props'))
Change == ecUsed < EcMaxChanges /\ ecUsed' = ecUsed + 1 /\ RenderChart

\* Other bars arrive: a timeframe or a period is chosen, or the query answered again.  The marks are
\* computed with them.
ChangeBars(bars) ==
  /\ bars # ecBars /\ ecBars' = bars
  /\ (ecScreen = "detail" => bars \notin EcMonthly)
  /\ ecMarked' = ecMarked \cap Days(bars)
  /\ UNCHANGED <<ecScreen, ecLocale, ecFiltered, ecHover>> /\ Change
\* The language of the page.
SwitchLocale ==
  /\ ecLocale' = IF ecLocale = "en" THEN "ko" ELSE "en"
  /\ UNCHANGED <<ecScreen, ecBars, ecFiltered, ecMarked, ecHover>> /\ Change
\* The filter of the market page, or the switch of the detail page.
FilterEvents(events) ==
  /\ events # ecFiltered /\ ecFiltered' = events
  /\ (ecScreen = "detail" => events \in {{}, EcEvent})
  /\ UNCHANGED <<ecScreen, ecBars, ecLocale, ecMarked, ecHover>> /\ Change
\* The thresholds of the detail page, or a day selected there.
ChangeMarks(marks) ==
  /\ ecScreen = "detail" /\ marks # ecMarked /\ marks \subseteq Days(ecBars)
  /\ ecMarked' = marks
  /\ UNCHANGED <<ecScreen, ecBars, ecLocale, ecFiltered, ecHover>> /\ Change

\* The reader zooms; the pointer moves over the chart, near a line or not.
Zoom ==
  /\ ~ ecChart.zoomed /\ ecChart' = [ecChart EXCEPT !.zoomed = TRUE]
  /\ UNCHANGED <<ecScreen, ecBars, ecLocale, ecFiltered, ecMarked, ecShown, ecHover, ecLost, ecUsed>>
Hover(events) ==
  /\ events # ecHover /\ ecHover' = events
  /\ UNCHANGED <<ecScreen, ecBars, ecLocale, ecFiltered, ecMarked, ecShown, ecChart, ecLost, ecUsed>>
MoveCrosshair == Hover({}) \/ \E line \in DrawnLines : Hover(line.events)

EcNext ==
  \/ \E bars \in EcBars : ChangeBars(bars)
  \/ SwitchLocale \/ Zoom \/ MoveCrosshair
  \/ \E events \in SUBSET EcEvent : FilterEvents(events)
  \/ \E marks \in SUBSET Days(ecBars) : ChangeMarks(marks)

EcSpec == EcInit /\ [][EcNext]_ecVars

-----------------------------------------------------------------------------
\* The chart shows the bars, the averages and the marks the page has, and draws each event the
\* filter leaves once: on its bar, on its month's bar, or between the two bars around a day the
\* market was shut, and not at all outside the bars loaded.  After a rebuild that only the averages
\* asked for it has no event lines.
ChartFollowsPage ==
  /\ ecChart.candles = ecBars /\ ecChart.averages = Averages /\ DrawnMarks = ecMarked
  /\ ~ ecLost => DrawnLines = PlacedLines(ecFiltered, ecBars, ecBars, ecBars \in EcMonthly)
  /\ \A line, other \in DrawnLines :
       line # other => line.x # other.x /\ line.events \cap other.events = {}
  /\ \A e \in ecFiltered :
       (~ ecLost /\ \E a, b \in Days(ecBars) : a <= e /\ e <= b) /\ ecBars \notin EcMonthly =>
         \E line \in DrawnLines :
           /\ e \in line.events
           /\ \A i \in DOMAIN ecBars : /\ (ecBars[i] < e => 2 * i < line.x)
                                       /\ (ecBars[i] > e => line.x < 2 * i)

\* A change of the filter, a threshold or the selected day never rebuilds the chart: the reader's
\* zoom and pan stay.
ZoomIsKept ==
  [][(ecBars' = ecBars /\ Averages' = Averages) => (ecChart.zoomed => ecChart'.zoomed)]_ecVars
=============================================================================
