-------------------------- MODULE InstrumentDetail --------------------------
(***************************************************************************)
(* The detail of an instrument on the market page (MarketDetailModal of    *)
(* MarketOverviewClient.tsx): the card's quote, read by the server when    *)
(* the page was rendered, beside the detail read when the modal opens, its *)
(* bars by day or by month with their averages, and the figures and texts  *)
(* the modal makes of both.                                                *)
(*                                                                         *)
(* A day's bar that came stays as it is; the averages are kept as sums and *)
(* their windows are constants (20, 50 and 200 in the code).  RSI, MACD    *)
(* and the bands are shown as they come and are left out.                  *)
(***************************************************************************)
EXTENDS Integers, FiniteSets, Sequences

LOCAL INSTANCE SequencesExt
LOCAL INSTANCE FiniteSetsExt

CONSTANTS
  MdItem,       \* instruments
  MdType,       \* instrument -> what the service says it is
  MdBars,       \* instrument -> its daily bars: [month, day, close, volume]
  MdKnown,      \* how many of them the service has at first
  MdWindow,     \* windows of the averages
  MdRegime,     \* what the service says of the market: [label, indices], or nothing
  NoMd,         \* nothing
  MdMaxActs,    \* bound: acts of the user
  MdMaxFaults   \* bound: reads that fail

MdTypes == {"index", "commodity", "fx", "crypto", "sector", "rate"}

ASSUME MdAssumption ==
  /\ MdType \in [MdItem -> STRING] /\ MdWindow \subseteq Nat \ {0}
  /\ \A i \in MdItem : MdKnown <= Len(MdBars[i])
  /\ MdKnown \in Nat /\ MdMaxActs \in Nat /\ MdMaxFaults \in Nat

VARIABLES
  mdServed,   \* the service: bars it has
  mdQuote,    \* the cards of the page: bars there were when it was rendered
  mdOpen,     \* selectedIndex: the instrument of the modal, or nothing
  mdFrame,    \* chartTimeframe
  mdDetail,   \* detail query of an instrument: [bars, failed, asked]: numbers of bars, or nothing
  mdUsed      \* bounds

mdVars == <<mdServed, mdQuote, mdOpen, mdFrame, mdDetail, mdUsed>>

LastBar == Max({Len(MdBars[i]) : i \in MdItem})

MdTypeOK ==
  /\ mdServed \in MdKnown..LastBar /\ mdQuote \in MdKnown..LastBar /\ mdOpen \in MdItem \cup {NoMd}
  /\ mdFrame \in {"daily", "monthly"}
  /\ mdDetail \in [MdItem -> [bars : -1..LastBar, failed : BOOLEAN, asked : -1..LastBar]]
  /\ mdUsed \in [acts : 0..MdMaxActs, faults : 0..MdMaxFaults]

MdInit ==
  /\ mdServed = MdKnown /\ mdQuote = MdKnown /\ mdOpen = NoMd /\ mdFrame = "daily"
  /\ mdDetail = [i \in MdItem |-> [bars |-> -1, failed |-> FALSE, asked |-> -1]]
  /\ mdUsed = [acts |-> 0, faults |-> 0]

-----------------------------------------------------------------------------
(* What the service computes of the bars it has.                           *)
Daily(i, n) == SubSeq(MdBars[i], 1, IF n < Len(MdBars[i]) THEN n ELSE Len(MdBars[i]))

\* _aggregate_monthly_bars: the last close and all the volume, under the month's first day.
Monthly(bars) ==
  LET months == SetToSortSeq({b.month : b \in ToSet(bars)}, <)
      of(m) == SelectSeq(bars, LAMBDA b : b.month = m)
  IN  [k \in DOMAIN months |->
         [month |-> months[k], day |-> of(months[k])[1].day,
          close |-> of(months[k])[Len(of(months[k]))].close,
          volume |-> MapThenSumSet(LAMBDA b : b.volume, ToSet(of(months[k])))]]

ClosesOver(bars, from, to) == MapThenSumSet(LAMBDA k : bars[k].close, from..to)
\* _sma, of the last bar.
Indicator(bars, w) == IF Len(bars) < w THEN NoMd ELSE ClosesOver(bars, Len(bars) + 1 - w, Len(bars))

\* The figures of the grid: one per window, of the days or of the months, whichever chart is shown.
IndicatorGrid(bars) == [w \in MdWindow |-> Indicator(bars, w)]

\* _compute_volume_summary: the days there are, when there are fewer than twenty.
Volume(bars, w) ==
  LET last == SubSeq(bars, IF Len(bars) > w THEN Len(bars) + 1 - w ELSE 1, Len(bars))
  IN  IF bars = <<>> THEN NoMd
      ELSE [latest |-> bars[Len(bars)].volume, days |-> Len(last),
            total |-> MapThenSumSet(LAMBDA k : last[k].volume, DOMAIN last)]

-----------------------------------------------------------------------------
(* What the modal makes of it.                                             *)
DetailLoaded == mdOpen # NoMd /\ mdDetail[mdOpen].bars >= 0
DailyHistory == IF DetailLoaded THEN Daily(mdOpen, mdDetail[mdOpen].bars) ELSE <<>>
DetailBars == IF mdFrame = "monthly" THEN Monthly(DailyHistory) ELSE DailyHistory

\* buildMovingAverageSeries: a point for every bar that has a whole window behind it, by date.
AverageLine(bars, w) ==
  LET sorted == SortSeq(bars, LAMBDA a, b : a.month < b.month \/ (a.month = b.month /\ a.day < b.day))
  IN  [k \in 1..(IF Len(bars) < w THEN 0 ELSE Len(bars) + 1 - w) |->
         [month |-> sorted[k + w - 1].month, day |-> sorted[k + w - 1].day,
          sum |-> ClosesOver(sorted, k, k + w - 1)]]

\* normalizeInstrumentType, instrumentLabel: of the detail, or of the card before it is there.
InstrumentType(type) == IF type \in MdTypes THEN type ELSE "index"
LabelType == InstrumentType(MdType[mdOpen])
\* buildInstrumentContext: of the detail only.
ContextType == IF DetailLoaded THEN InstrumentType(MdType[mdOpen]) ELSE "index"

\* regimeView: what is not known is not called mixed.
RegimeView(regime) ==
  IF regime = NoMd THEN "unknown"
  ELSE IF regime.indices <= 0 \/ regime.label \notin {"risk_on", "mixed", "risk_off"} THEN "unknown"
  ELSE regime.label
RegimeTile == IF DetailLoaded /\ MdType[mdOpen] = "index" /\ MdRegime # NoMd THEN RegimeView(MdRegime) ELSE NoMd

\* warningMessages, those the bars decide.
WarningMessages ==
  IF ~ DetailLoaded THEN {}
  ELSE {x \in {"noMonthly", "fxVolume", "rateVolume"} :
          \/ x = "noMonthly" /\ Monthly(DailyHistory) = <<>>
          \/ x # "noMonthly" /\ MdType[mdOpen] = (IF x = "fxVolume" THEN "fx" ELSE "rate")
             /\ (DailyHistory = <<>> \/ DailyHistory[Len(DailyHistory)].volume <= 0)}

\* The sections of the modal: an error does not take the figures away.
Sections ==
  {x \in {"loading", "error", "chart", "indicators"} :
     \/ x = "loading" /\ ~ DetailLoaded /\ mdDetail[mdOpen].asked >= 0
     \/ x = "error" /\ mdDetail[mdOpen].failed
     \/ x = "chart" /\ DetailBars # <<>>
     \/ x = "indicators" /\ DetailLoaded}

-----------------------------------------------------------------------------
MdActs == mdUsed.acts < MdMaxActs /\ mdUsed' = [mdUsed EXCEPT !.acts = @ + 1]

\* The query of an instrument is asked when it has no data or data older than a minute; a read of
\* nothing starts over.
DetailAsked(i, old) ==
  IF mdDetail[i].asked >= 0 \/ (mdDetail[i].bars >= 0 /\ ~ mdDetail[i].failed /\ ~ old) THEN mdDetail
  ELSE [mdDetail EXCEPT ![i] = [@ EXCEPT !.asked = mdServed, !.failed = @ /\ mdDetail[i].bars >= 0]]

OpenInstrument(i, old) ==
  /\ mdOpen = NoMd /\ mdOpen' = i /\ mdFrame' = "daily"
  /\ mdDetail' = DetailAsked(i, old)
  /\ MdActs /\ UNCHANGED <<mdServed, mdQuote>>

CloseInstrument ==
  /\ mdOpen # NoMd /\ mdOpen' = NoMd
  /\ UNCHANGED <<mdServed, mdQuote, mdFrame, mdDetail, mdUsed>>

SelectFrame(frame) ==
  /\ mdOpen # NoMd /\ frame # mdFrame /\ mdFrame' = frame
  /\ MdActs /\ UNCHANGED <<mdServed, mdQuote, mdOpen, mdDetail>>

\* The window gets the focus back: what is older than a minute is read again.
FocusWindow ==
  /\ mdOpen # NoMd /\ mdDetail' = DetailAsked(mdOpen, TRUE) /\ mdDetail' # mdDetail
  /\ MdActs /\ UNCHANGED <<mdServed, mdQuote, mdOpen, mdFrame>>

\* The page is left and rendered again: the cards are those of this moment.
RenderPage ==
  /\ mdQuote' = mdServed /\ mdOpen' = NoMd
  /\ MdActs /\ UNCHANGED <<mdServed, mdFrame, mdDetail>>

DetailRead(i, n) ==
  /\ mdDetail[i].asked >= 0 /\ n \in {mdDetail[i].asked, mdServed}
  /\ mdDetail' = [mdDetail EXCEPT ![i] = [bars |-> n, failed |-> FALSE, asked |-> -1]]
  /\ UNCHANGED <<mdServed, mdQuote, mdOpen, mdFrame, mdUsed>>

DetailFails(i) ==
  /\ mdDetail[i].asked >= 0
  /\ mdDetail' = [mdDetail EXCEPT ![i] = [@ EXCEPT !.asked = -1, !.failed = TRUE]]
  /\ mdUsed.faults < MdMaxFaults /\ mdUsed' = [mdUsed EXCEPT !.faults = @ + 1]
  /\ UNCHANGED <<mdServed, mdQuote, mdOpen, mdFrame>>

BarArrives ==
  /\ mdServed < LastBar /\ mdServed' = mdServed + 1
  /\ UNCHANGED <<mdQuote, mdOpen, mdFrame, mdDetail, mdUsed>>

MdNext ==
  \/ \E i \in MdItem : \/ \E old \in BOOLEAN : OpenInstrument(i, old)
                       \/ \E n \in {mdDetail[i].asked, mdServed} : DetailRead(i, n)
                       \/ DetailFails(i)
  \/ CloseInstrument \/ FocusWindow \/ RenderPage \/ BarArrives
  \/ \E frame \in {"daily", "monthly"} : SelectFrame(frame)

MdSpec == MdInit /\ [][MdNext]_mdVars

-----------------------------------------------------------------------------
\* The averages the page draws, in order of their dates, end at the figure the service computed for
\* the grid below, and there is a figure exactly when there is a line.
LinesEndAtFigures ==
  \A w \in MdWindow :
    LET line == AverageLine(DetailBars, w)
        grid == IndicatorGrid(DetailBars)
    IN  /\ line = <<>> <=> grid[w] = NoMd
        /\ line # <<>> => line[Len(line)].sum = grid[w]
        /\ \A a, b \in DOMAIN line : a < b => line[a].month < line[b].month
                                              \/ (line[a].month = line[b].month /\ line[a].day < line[b].day)

\* The months tell what the days tell: the same last close, all of the volume, the days between.
MonthsAreDays ==
  LET months == Monthly(DailyHistory)
  IN  DailyHistory # <<>> =>
        /\ months[Len(months)].close = DailyHistory[Len(DailyHistory)].close
        /\ MapThenSumSet(LAMBDA k : months[k].volume, DOMAIN months)
             = MapThenSumSet(LAMBDA k : DailyHistory[k].volume, DOMAIN DailyHistory)
        /\ Len(months) <= Len(DailyHistory)

\* Once the detail is there the modal speaks of one kind of instrument, and an error that stands
\* without a read under way is that of a read that failed; when page and detail are of one moment,
\* the card's value is the last of the chart.  A warning that no volume is known agrees with the volume
\* figures, and a regime no index was counted for is not called mixed.
InstrumentHolds ==
  mdOpen # NoMd =>
    /\ LinesEndAtFigures /\ MonthsAreDays
    /\ DetailLoaded => ContextType = LabelType /\ "loading" \notin Sections
    /\ Sections = {} => DetailBars = <<>>
    /\ "error" \in Sections => mdUsed.faults > 0
    /\ DetailLoaded /\ mdQuote = mdDetail[mdOpen].bars /\ DetailBars # <<>> =>
         /\ DetailBars[Len(DetailBars)].close = Daily(mdOpen, mdQuote)[Len(Daily(mdOpen, mdQuote))].close
    /\ WarningMessages \ {"noMonthly"} # {} => Volume(DailyHistory, 2) = NoMd \/ Volume(DailyHistory, 2).latest = 0
    /\ RegimeTile \in {"risk_on", "mixed", "risk_off"} => MdRegime.indices > 0
=============================================================================
