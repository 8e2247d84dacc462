------------------------------ MODULE WebPages ------------------------------
(***************************************************************************)
(* The tab of the web frontend (apps/web/app): what it runs is one page at *)
(* a time, and a page is a module of its own.  The pages share no state    *)
(* that is modelled, so which part of which page is watched is chosen once *)
(* and the rest stands still.                                              *)
(***************************************************************************)
EXTENDS WebBoot, AllocationEditor, AmountEditor,
        PortfolioAnalysis, CorporateAssumptions, CorporateDcf,
        CorporateQueries, MonteCarloRuns, PriceLookup,
        SimulationResults, PerformanceStream,
        EventFilter, EventChart, MarketPage, DetailPage, StockGrid, NewsList, StockEditor, PortfolioPanels, HoldingsView, MonitorLog, MonitorClient, RequestProfile,
        RecordsPage, CaseFork, CaseSimulation, StockFigures, StockCard, DecisionLog,
        CompanySearch, ValuationPage, InstrumentDetail, ComparisonTable,
        PortfolioProofs, CompanyProofs

VARIABLE page

\* Bars of five sessions and of one month each: days 10 to 19 are a month, days 20 to 29 the next.
ChartBars == {<<11, 12, 14>>, <<10, 20>>, <<12, 14>>, <<12, 26>>}
ChartMonthly == {<<10, 20>>}
\* The oldest and the newest article stored: one page, two and a little more, none.
NewsStored == {<<4, 4>>, <<3, 5>>, <<2, 3>>, <<5, 4>>}
\* The watchlist file holds one of the stocks.
FileHoldings == [t \in {"o1"} |-> "tech"]

\* Events of the monitor: slow, failed without the level of an error, a hit, a warning.
MlKind(scope, status, level, ticker, ms, metric) ==
  [scope |-> scope, status |-> status, level |-> level, ticker |-> ticker,
   ms |-> ms, metric |-> metric]
MlEventKinds ==
  {MlKind("api", "slow", "info", "", 900, ""), MlKind("api", "error", "warn", "AAPL", 40, ""),
   MlKind("cache", "cache_hit", "info", "AAPL", 0, "roic"),
   MlKind("data_quality", "warning", "warn", "AAPL", NoDuration, "roic")}

\* Records: of two kinds, one older than its list is long; an address may name one that is none.
RdRecord(kind, id, date, shown) == [kind |-> kind, id |-> id, date |-> date, shown |-> shown]
Records ==
  {RdRecord("risk", 1, 2, FALSE), RdRecord("surge", 1, 1, FALSE), RdRecord("surge", 2, 2, TRUE)}
UnknownRecord == RdRecord("risk", 9, 0, FALSE)

\* Inputs of a case: of the case itself, two of one segment, one of them with a claim.
CaseTarget(scope, field, narrated) ==
  [scope |-> scope, field |-> field, narrated |-> narrated, integer |-> ~ narrated]
CaseTargets ==
  {CaseTarget("case", "base_year", FALSE), CaseTarget("a", "margin", TRUE), CaseTarget("a", "ramp", FALSE)}
CaseRoot == [t \in CaseTargets |-> IF t.integer THEN 20 ELSE 10]

ShapeParams == [s \in {"normal", "uniform"} |-> IF s = "normal" THEN {"sd"} ELSE {"low"}]

\* Comparisons of two stocks, with figures out of range and missing ones, and the saved ones.
FigureRow(roic, dcf, implied) == [roic |-> roic, dcf |-> dcf, implied |-> implied]
FigureRows ==
  {[t \in {"s1", "s2"} |-> IF t = "s1" THEN FigureRow(20, 600, 20) ELSE FigureRow(-10, 20, -10)],
   [t \in {"s1", "s2"} |-> IF t = "s1" THEN FigureRow(20, 30, NoSf) ELSE FigureRow(NoSf, NoSf, 10)],
   [t \in {"s1"} |-> FigureRow(20, -10, 600)]}
SavedFigures == [v \in {1, 2} |-> CHOOSE rows \in FigureRows : (v = 1) <=> (DOMAIN rows = {"s1"})]
StockVolatility == [t \in {"s1", "s2"} |-> IF t = "s1" THEN NoSf ELSE 600]
StockWeight == [t \in {"s1", "s2"} |-> IF t = "s1" THEN 60 ELSE 40]

\* The bars of three days in two months, and what saved comparisons recorded of the stock.
DayBar(month, day, open, high, low, close) ==
  [month |-> month, day |-> day, open |-> open, high |-> high, low |-> low, close |-> close, volume |-> 1]
CardBars == {<<>>, <<DayBar(1, 1, 5, 7, 4, 6), DayBar(1, 2, 6, 9, 5, 8), DayBar(2, 1, 8, 8, 3, 3)>>}
DayOfVersion == [v \in 1..3 |-> IF v = 1 THEN 1 ELSE 2]
RecordedSpreads == [v \in 1..3 |-> IF v = 2 THEN NoSc ELSE 10 * v]

\* The decisions page: one row that can be plotted, one without figures.
DlFiguresKnown == [d \in 1..2 |-> IF d = 1 THEN "point" ELSE "no figures"]

\* The ticker search: a text that matches two companies, one that matches none that is listed.
SymbolTyped == [x \in {"m", "s"} |-> IF x = "m" THEN "MS" ELSE "SX"]
TickersMatched == [x \in {"m", "s"} |-> IF x = "m" THEN {"MS", "MSFT"} ELSE {"SX"}]

\* Comparisons: refused and unbridged values, ties, two names of one sector; two stocks; no stock.
ComparedRow(ticker, sector, roic, dcf, bridge, spread) ==
  [ticker |-> ticker, sector |-> sector, group |-> IF ticker = "bm" THEN "benchmark" ELSE "watchlist",
   roic |-> roic, dcf |-> dcf, bridge |-> bridge, spread |-> spread, refused |-> dcf = NoCt]
BenchmarkRow == ComparedRow("bm", "", 0, 8, "ok", 0)
ComparedTables ==
  {<<ComparedRow("a", "tech", 5, 10, "ok", NoCt), ComparedRow("b", "tech", -2, 30, "missing", 3), BenchmarkRow,
     ComparedRow("c", "energy", 0, NoCt, "ok", 1), ComparedRow("d", "tech", 5, 12, "estimated", 3)>>,
   <<ComparedRow("c", "energy", 1, 7, "ok", -1), ComparedRow("a", "", 4, 9, "missing", NoCt)>>,
   <<BenchmarkRow>>}

\* Two instruments of one or two months; the last bar of the second has no volume.
InstrumentItems == {"i1", "i2"}
InstrumentTypeOf == [i \in InstrumentItems |-> IF i = "i1" THEN "index" ELSE "fx"]
InstrumentBar(month, day, close, volume) == [month |-> month, day |-> day, close |-> close, volume |-> volume]
InstrumentBars ==
  [i \in InstrumentItems |->
     IF i = "i1" THEN <<InstrumentBar(1, 1, 3, 2), InstrumentBar(1, 2, 5, 1), InstrumentBar(2, 1, 4, 2), InstrumentBar(2, 2, 6, 3)>>
     ELSE <<InstrumentBar(1, 1, 2, 1), InstrumentBar(1, 2, 2, 1), InstrumentBar(2, 1, 1, 0)>>]
InstrumentRegime == [label |-> "mixed", indices |-> 0]

Page == {"boot", "allocation", "amount", "analysis", "assumptions", "dcf",
         "queries", "simulation", "price", "results", "monitor",
         "events", "chart", "market", "detail", "tiles", "news", "editor", "panels", "holdings", "log", "client", "profile",
         "records", "cases", "case", "figures", "card", "decisions", "search",
         "valuation", "instrument", "comparison"}

webVars == <<page, wbVars, allocVars, amountVars, anVars, caVars,
             cdVars, cqVars, mcVars, plVars, siVars,
             psVars, efVars, ecVars, msVars, dtVars, sgVars, nlVars, seVars, ppVars, hvVars, mlVars, meVars, rpVars,
             rdVars, cfVars, cxVars, sfVars, scVars, dlVars, csVars, vpVars, mdVars,
             ctVars>>

\* Initial states that differ are told apart only where they matter.
WebInit ==
  /\ page \in Page
  /\ WbInit /\ (page # "boot" => wbHome = "default" /\ ~ wbStranger)
  /\ AllocInit /\ (page # "allocation" => \A s \in Stock : row[s] # NoRow)
  /\ AmountInit /\ (page # "amount" => amount = DefaultAmount)
  /\ AnInit /\ CaInit /\ CqInit /\ McInit /\ PlInit /\ SiInit /\ PsInit
  /\ CdInit /\ (page # "dcf" => cdSession = NoDcf)
  /\ EcInit /\ (page # "chart" => ecScreen = "market")
  /\ MsInit /\ (page # "market" => ~ msBlocked)
  /\ NlInit /\ (page # "news" => nlScreen = "page" /\ nlOld = 4 /\ nlNew = 4)
  /\ HvInit /\ (page # "holdings" => hvStored = HvFile /\ hvSync = FALSE)
  /\ MeInit /\ (page # "client" => meMonitor = [b \in Backend |-> "on"])
  /\ SeInit /\ (page # "editor" => seRow = NoSe)
  /\ RdInit /\ (page # "records" => rdHistory = <<[row |-> NoRd, query |-> AllRecords]>>)
  /\ EfInit /\ DtInit /\ SgInit /\ PpInit /\ MlInit /\ RpInit /\ CfInit /\ CxInit
  /\ SfInit /\ (page # "figures" => sfPanel = "snapshot" /\ sfAsked = NoSf /\ sfCopy = NoSf /\ ~ sfAttrCopy) /\ ScInit /\ DlInit
  /\ CsInit /\ (page # "search" => csPlace = "header") /\ VpInit /\ MdInit /\ CtInit
  /\ (page # "comparison" => ctSort.key = "implied_return_spread")

Rest(p) ==
  /\ page = p /\ UNCHANGED page
  /\ IF p = "boot" THEN TRUE ELSE UNCHANGED wbVars
  /\ IF p = "allocation" THEN TRUE ELSE UNCHANGED allocVars
  /\ IF p = "amount" THEN TRUE ELSE UNCHANGED amountVars
  /\ IF p = "analysis" THEN TRUE ELSE UNCHANGED anVars
  /\ IF p = "assumptions" THEN TRUE ELSE UNCHANGED caVars
  /\ IF p = "dcf" THEN TRUE ELSE UNCHANGED cdVars
  /\ IF p = "queries" THEN TRUE ELSE UNCHANGED cqVars
  /\ IF p = "simulation" THEN TRUE ELSE UNCHANGED mcVars
  /\ IF p = "price" THEN TRUE ELSE UNCHANGED plVars
  /\ IF p = "results" THEN TRUE ELSE UNCHANGED siVars
  /\ IF p = "monitor" THEN TRUE ELSE UNCHANGED psVars
  /\ IF p = "events" THEN TRUE ELSE UNCHANGED efVars
  /\ IF p = "chart" THEN TRUE ELSE UNCHANGED ecVars
  /\ IF p = "market" THEN TRUE ELSE UNCHANGED msVars
  /\ IF p = "detail" THEN TRUE ELSE UNCHANGED dtVars
  /\ IF p = "tiles" THEN TRUE ELSE UNCHANGED sgVars
  /\ IF p = "news" THEN TRUE ELSE UNCHANGED nlVars
  /\ IF p = "editor" THEN TRUE ELSE UNCHANGED seVars
  /\ IF p = "panels" THEN TRUE ELSE UNCHANGED ppVars
  /\ IF p = "holdings" THEN TRUE ELSE UNCHANGED hvVars
  /\ IF p = "log" THEN TRUE ELSE UNCHANGED mlVars
  /\ IF p = "client" THEN TRUE ELSE UNCHANGED meVars
  /\ IF p = "profile" THEN TRUE ELSE UNCHANGED rpVars
  /\ IF p = "records" THEN TRUE ELSE UNCHANGED rdVars
  /\ IF p = "cases" THEN TRUE ELSE UNCHANGED cfVars
  /\ IF p = "case" THEN TRUE ELSE UNCHANGED cxVars
  /\ IF p = "figures" THEN TRUE ELSE UNCHANGED sfVars
  /\ IF p = "card" THEN TRUE ELSE UNCHANGED scVars
  /\ IF p = "decisions" THEN TRUE ELSE UNCHANGED dlVars
  /\ IF p = "search" THEN TRUE ELSE UNCHANGED csVars
  /\ IF p = "valuation" THEN TRUE ELSE UNCHANGED vpVars
  /\ IF p = "instrument" THEN TRUE ELSE UNCHANGED mdVars
  /\ IF p = "comparison" THEN TRUE ELSE UNCHANGED ctVars

WebNext ==
  \/ Rest("boot") /\ WbNext
  \/ Rest("allocation") /\ AllocNext
  \/ Rest("amount") /\ AmountNext
  \/ Rest("analysis") /\ AnNext
  \/ Rest("assumptions") /\ CaNext
  \/ Rest("dcf") /\ CdNext
  \/ Rest("queries") /\ CqNext
  \/ Rest("simulation") /\ McNext
  \/ Rest("price") /\ PlNext
  \/ Rest("results") /\ SiNext
  \/ Rest("monitor") /\ PsNext
  \/ Rest("events") /\ EfNext
  \/ Rest("chart") /\ EcNext
  \/ Rest("market") /\ MsNext
  \/ Rest("detail") /\ DtNext
  \/ Rest("tiles") /\ SgNext
  \/ Rest("news") /\ NlNext
  \/ Rest("editor") /\ SeNext
  \/ Rest("panels") /\ PpNext
  \/ Rest("holdings") /\ HvNext
  \/ Rest("log") /\ MlNext
  \/ Rest("client") /\ MeNext
  \/ Rest("profile") /\ RpNext
  \/ Rest("records") /\ RdNext
  \/ Rest("cases") /\ CfNext
  \/ Rest("case") /\ CxNext
  \/ Rest("figures") /\ SfNext
  \/ Rest("card") /\ ScNext
  \/ Rest("decisions") /\ DlNext
  \/ Rest("search") /\ CsNext
  \/ Rest("valuation") /\ VpNext
  \/ Rest("instrument") /\ MdNext
  \/ Rest("comparison") /\ CtNext

\* Each page's own fairness, while it is the one that is open.
WebFairness ==
  /\ WF_wbVars(page = "boot" /\ WbPage)
  /\ WF_allocVars(page = "allocation" /\ AllocBrowser)
  /\ WF_allocVars(page = "allocation" /\ AllocServer)
  /\ WF_amountVars(page = "amount" /\ AmountPage)
  /\ WF_amountVars(page = "amount" /\ ReadPreference /\ preference = NoAmount)
  /\ WF_caVars(page = "assumptions" /\ CaServes)

WebSpec == WebInit /\ [][WebNext]_webVars /\ WebFairness

-----------------------------------------------------------------------------
(* Properties.  Each joins what the pages' own modules state.              *)

\* A page that is not open stays as its module begins, so that each property is looked at
\* where it can change.
On(p) == page = p

\* Every page keeps values of the kinds its code declares.
WebTypeOK ==
  /\ page \in Page
  /\ On("boot") => WbTypeOK
  /\ On("allocation") => AllocTypeOK
  /\ On("amount") => AmountTypeOK
  /\ On("analysis") => AnTypeOK
  /\ On("assumptions") => CaTypeOK
  /\ On("dcf") => CdTypeOK
  /\ On("queries") => CqTypeOK
  /\ On("simulation") => McTypeOK
  /\ On("price") => PlTypeOK
  /\ On("results") => SiTypeOK
  /\ On("monitor") => PsTypeOK
  /\ On("events") => EfTypeOK
  /\ On("chart") => EcTypeOK
  /\ On("market") => MsTypeOK
  /\ On("detail") => DtTypeOK
  /\ On("tiles") => SgTypeOK
  /\ On("news") => NlTypeOK
  /\ On("editor") => SeTypeOK
  /\ On("panels") => PpTypeOK
  /\ On("holdings") => HvTypeOK
  /\ On("log") => MlTypeOK
  /\ On("client") => MeTypeOK
  /\ On("profile") => RpTypeOK
  /\ On("records") => RdTypeOK
  /\ On("cases") => CfTypeOK
  /\ On("case") => CxTypeOK
  /\ On("figures") => SfTypeOK
  /\ On("card") => ScTypeOK
  /\ On("decisions") => DlTypeOK
  /\ On("search") => CsTypeOK
  /\ On("valuation") => VpTypeOK
  /\ On("instrument") => MdTypeOK
  /\ On("comparison") => CtTypeOK

\* Whatever the user typed last ends up on the server, and stays there: weights, the investment amount
\* and the assumptions of a company are saved by effects and timers, never by a button.
EditsEndSaved == <>[](WeightsAreSaved /\ AmountIsSaved /\ AssumptionsAreSaved)

\* A portfolio analysis shown as current answers the controls on screen, the snapshots listed are
\* those that are saved, the tiles, holdings and stocks are shown as they are stored, the figures of
\* a stock with where they come from, and the panels keep the focus, whatever was in flight or left
\* behind.
PortfolioHolds ==
  /\ On("analysis") => FreshIsCurrent /\ ListedAreSaved
  /\ On("tiles") => GridHolds
  /\ On("editor") => CardShowsSaved
  /\ On("holdings") => HoldingsHold
  /\ On("figures") => FiguresHold
  /\ On("panels") => PanelsHold

\* The corporate page never shows the figures of one company or input for another; the pages
\* of a case, decisions and verdicts and the list of cases show what is stored and answer what was
\* asked, and the ticker search takes what its field says.
CorporateHolds ==
  /\ On("assumptions") => MetricsAreLost
  /\ On("dcf") => DcfHolds
  /\ On("queries") => QueriesHold
  /\ On("case") => CaseHolds
  /\ On("cases") => ListIsWhole
  /\ On("decisions") => LogHolds
  /\ On("search") => SearchHolds
  /\ On("valuation") => ValuationHolds

\* What is asked for piece by piece is told apart when the answers come, in any order: a weight said
\* to be synced is the saved one, a simulation that another superseded is told so, the event filter
\* shows the events and categories that are saved, the card of a day what is stored around it, every
\* signal of the risk engine is told once, a chart shows what its page gives it, pages of news follow
\* one another whole and the signal records follow the address.
AnswersHold ==
  /\ On("allocation") => SyncedIsSaved
  /\ On("simulation") => RunsAreTold
  /\ On("events") => FilterShowsSaved
  /\ On("detail") => CardIsCurrent
  /\ On("chart") => ChartFollowsPage
  /\ On("market") => SignalsAreTold
  /\ On("news") => NewsIsWhole
  /\ On("records") => AddressHolds

\* The developer monitor shows what its stream brings and no cleared event again, its panels tell of
\* the request selected, and what is reported to it is true.
MonitorHolds ==
  /\ On("monitor") => StreamHolds
  /\ On("client") => ReportsAreTrue
  /\ On("profile") => ProfileHolds

\* What a page works out of what it has read agrees with it: the lists of records and monitor events
\* with their filters, figures, cards and comparisons with the rows they are made of, results of a
\* simulation with its paths, forked cases with their inputs.
DerivedHolds ==
  /\ On("results") => ResultsSound
  /\ On("figures") => OutliersCountNowhere
  /\ On("card") => CardHolds
  /\ On("comparison") => ComparisonHolds
  /\ On("cases") => FormHolds
  /\ On("log") => LogAgrees
  /\ On("records") => RecordsHold
  /\ On("instrument") => InstrumentHolds

\* Requests that write one field of a holding leave its other fields as they were.
WritesKeepTheRest == FollowKeepsWeight /\ SaveKeepsRest

\* A tab that is opened ends on its pages or on the message that there is no backend.
BootAlwaysEnds == <>[](On("boot") => BootEnded)

-----------------------------------------------------------------------------
(* The tab does a step of one page or none, so it implements each page's   *)
(* own specification, and what a page keeps alone it keeps in the tab.     *)

LEMMA TabSteps ==
  [WebNext]_webVars =>
    /\ [PlNext]_plVars
    /\ [EcNext]_ecVars
    /\ [MsNext]_msVars
    /\ [AllocNext]_allocVars
    /\ [McNext]_mcVars
    /\ [EfNext]_efVars
    /\ [DtNext]_dtVars
    /\ [CaNext]_caVars
    /\ [CdNext]_cdVars
    /\ [CqNext]_cqVars
    /\ [CxNext]_cxVars
    /\ [DlNext]_dlVars
    /\ [CsNext]_csVars
    /\ [VpNext]_vpVars
    /\ [PsNext]_psVars
    /\ [MeNext]_meVars
    /\ [RpNext]_rpVars
    /\ [HvNext]_hvVars
    /\ [SeNext]_seVars
    /\ [AnNext]_anVars
    /\ [SgNext]_sgVars
    /\ [RdNext]_rdVars
    /\ [NlNext]_nlVars
    /\ [SfNext]_sfVars
    /\ [CfNext]_cfVars
    /\ [PpNext]_ppVars
<1>1. CASE UNCHANGED webVars
  BY <1>1 DEF webVars
<1>2. CASE WebNext
  <2>1. [PlNext]_plVars
    <3>1. ASSUME NEW p \in Page \ {"price"}, Rest(p) PROVE UNCHANGED plVars
      BY <3>1 DEF Rest
    <3> QED BY <1>2, <3>1 DEF WebNext, Page
  <2>2. [EcNext]_ecVars
    <3>1. ASSUME NEW p \in Page \ {"chart"}, Rest(p) PROVE UNCHANGED ecVars
      BY <3>1 DEF Rest
    <3> QED BY <1>2, <3>1 DEF WebNext, Page
  <2>3. [MsNext]_msVars
    <3>1. ASSUME NEW p \in Page \ {"market"}, Rest(p) PROVE UNCHANGED msVars
      BY <3>1 DEF Rest
    <3> QED BY <1>2, <3>1 DEF WebNext, Page
  <2>4. [AllocNext]_allocVars
    <3>1. ASSUME NEW p \in Page \ {"allocation"}, Rest(p) PROVE UNCHANGED allocVars
      BY <3>1 DEF Rest
    <3> QED BY <1>2, <3>1 DEF WebNext, Page
  <2>5. [McNext]_mcVars
    <3>1. ASSUME NEW p \in Page \ {"simulation"}, Rest(p) PROVE UNCHANGED mcVars
      BY <3>1 DEF Rest
    <3> QED BY <1>2, <3>1 DEF WebNext, Page
  <2>6. [EfNext]_efVars
    <3>1. ASSUME NEW p \in Page \ {"events"}, Rest(p) PROVE UNCHANGED efVars
      BY <3>1 DEF Rest
    <3> QED BY <1>2, <3>1 DEF WebNext, Page
  <2>7. [DtNext]_dtVars
    <3>1. ASSUME NEW p \in Page \ {"detail"}, Rest(p) PROVE UNCHANGED dtVars
      BY <3>1 DEF Rest
    <3> QED BY <1>2, <3>1 DEF WebNext, Page
  <2>8. [CaNext]_caVars
    <3>1. ASSUME NEW p \in Page \ {"assumptions"}, Rest(p) PROVE UNCHANGED caVars
      BY <3>1 DEF Rest
    <3> QED BY <1>2, <3>1 DEF WebNext, Page
  <2>9. [CdNext]_cdVars
    <3>1. ASSUME NEW p \in Page \ {"dcf"}, Rest(p) PROVE UNCHANGED cdVars
      BY <3>1 DEF Rest
    <3> QED BY <1>2, <3>1 DEF WebNext, Page
  <2>10. [CqNext]_cqVars
    <3>1. ASSUME NEW p \in Page \ {"queries"}, Rest(p) PROVE UNCHANGED cqVars
      BY <3>1 DEF Rest
    <3> QED BY <1>2, <3>1 DEF WebNext, Page
  <2>11. [CxNext]_cxVars
    <3>1. ASSUME NEW p \in Page \ {"case"}, Rest(p) PROVE UNCHANGED cxVars
      BY <3>1 DEF Rest
    <3> QED BY <1>2, <3>1 DEF WebNext, Page
  <2>12. [DlNext]_dlVars
    <3>1. ASSUME NEW p \in Page \ {"decisions"}, Rest(p) PROVE UNCHANGED dlVars
      BY <3>1 DEF Rest
    <3> QED BY <1>2, <3>1 DEF WebNext, Page
  <2>13. [CsNext]_csVars
    <3>1. ASSUME NEW p \in Page \ {"search"}, Rest(p) PROVE UNCHANGED csVars
      BY <3>1 DEF Rest
    <3> QED BY <1>2, <3>1 DEF WebNext, Page
  <2>14. [VpNext]_vpVars
    <3>1. ASSUME NEW p \in Page \ {"valuation"}, Rest(p) PROVE UNCHANGED vpVars
      BY <3>1 DEF Rest
    <3> QED BY <1>2, <3>1 DEF WebNext, Page
  <2>15. [PsNext]_psVars
    <3>1. ASSUME NEW p \in Page \ {"monitor"}, Rest(p) PROVE UNCHANGED psVars
      BY <3>1 DEF Rest
    <3> QED BY <1>2, <3>1 DEF WebNext, Page
  <2>16. [MeNext]_meVars
    <3>1. ASSUME NEW p \in Page \ {"client"}, Rest(p) PROVE UNCHANGED meVars
      BY <3>1 DEF Rest
    <3> QED BY <1>2, <3>1 DEF WebNext, Page
  <2>17. [RpNext]_rpVars
    <3>1. ASSUME NEW p \in Page \ {"profile"}, Rest(p) PROVE UNCHANGED rpVars
      BY <3>1 DEF Rest
    <3> QED BY <1>2, <3>1 DEF WebNext, Page
  <2>18. [HvNext]_hvVars
    <3>1. ASSUME NEW p \in Page \ {"holdings"}, Rest(p) PROVE UNCHANGED hvVars
      BY <3>1 DEF Rest
    <3> QED BY <1>2, <3>1 DEF WebNext, Page
  <2>19. [SeNext]_seVars
    <3>1. ASSUME NEW p \in Page \ {"editor"}, Rest(p) PROVE UNCHANGED seVars
      BY <3>1 DEF Rest
    <3> QED BY <1>2, <3>1 DEF WebNext, Page
  <2>20. [AnNext]_anVars
    <3>1. ASSUME NEW p \in Page \ {"analysis"}, Rest(p) PROVE UNCHANGED anVars
      BY <3>1 DEF Rest
    <3> QED BY <1>2, <3>1 DEF WebNext, Page
  <2>21. [SgNext]_sgVars
    <3>1. ASSUME NEW p \in Page \ {"tiles"}, Rest(p) PROVE UNCHANGED sgVars
      BY <3>1 DEF Rest
    <3> QED BY <1>2, <3>1 DEF WebNext, Page
  <2>22. [RdNext]_rdVars
    <3>1. ASSUME NEW p \in Page \ {"records"}, Rest(p) PROVE UNCHANGED rdVars
      BY <3>1 DEF Rest
    <3> QED BY <1>2, <3>1 DEF WebNext, Page
  <2>23. [NlNext]_nlVars
    <3>1. ASSUME NEW p \in Page \ {"news"}, Rest(p) PROVE UNCHANGED nlVars
      BY <3>1 DEF Rest
    <3> QED BY <1>2, <3>1 DEF WebNext, Page
  <2>24. [SfNext]_sfVars
    <3>1. ASSUME NEW p \in Page \ {"figures"}, Rest(p) PROVE UNCHANGED sfVars
      BY <3>1 DEF Rest
    <3> QED BY <1>2, <3>1 DEF WebNext, Page
  <2>25. [CfNext]_cfVars
    <3>1. ASSUME NEW p \in Page \ {"cases"}, Rest(p) PROVE UNCHANGED cfVars
      BY <3>1 DEF Rest
    <3> QED BY <1>2, <3>1 DEF WebNext, Page
  <2>26. [PpNext]_ppVars
    <3>1. ASSUME NEW p \in Page \ {"panels"}, Rest(p) PROVE UNCHANGED ppVars
      BY <3>1 DEF Rest
    <3> QED BY <1>2, <3>1 DEF WebNext, Page
  <2> QED
    BY <2>1, <2>2, <2>3, <2>4, <2>5, <2>6, <2>7, <2>8, <2>9, <2>10, <2>11, <2>12,
       <2>13, <2>14, <2>15, <2>16, <2>17, <2>18, <2>19, <2>20, <2>21, <2>22, <2>23, <2>24,
       <2>25, <2>26
<1> QED BY <1>1, <1>2

\* In the tab, "loaded" is only said of the price of the ticker in the field, and an answer never
\* replaces a price typed after it was asked for (runStockPriceLookup).
THEOREM TabShowsLoaded == WebSpec => LoadedIsShown
<1>1. WebInit => PlInit
  BY DEF WebInit
<1> QED BY <1>1, TabSteps, LoadedAlwaysShown, PTL DEF WebSpec

\* In the tab, the reader's zoom and pan of a chart stay unless its bars or averages change (the
\* comparator and the effects of TVChart).
THEOREM TabKeepsZoom == WebSpec => ZoomIsKept
<1>1. WebInit => EcInit
  BY DEF WebInit
<1> QED BY <1>1, TabSteps, ZoomIsAlwaysKept, PTL DEF WebSpec

\* In the tab of a patient user, a request that writes one field of a holding leaves its others as
\* they were: following keeps the weight, saving a weight keeps the group and the deletion.
THEOREM TabKeepsTheRest ==
  ASSUME AllocPatient = TRUE, RowsAreRows
  PROVE  WebSpec => WritesKeepTheRest
<1>1. WebInit => AllocInit
  BY DEF WebInit
<1>2. AllocInit /\ [][AllocNext]_allocVars => SaveKeepsRest
  BY SaveAlwaysKeepsRest
<1> QED BY <1>1, <1>2, TabSteps, FollowAlwaysKeepsWeight, PTL DEF WebSpec, WritesKeepTheRest

\* In the tab of that user, what is asked for piece by piece is told apart when the answers come:
\* saved weights, superseded runs, the filter of events, the card of a day, the signals of the market
\* page, what a chart draws, the pages of the news and the address of the signal records, whichever
\* page is open.
THEOREM TabTellsAnswers ==
  ASSUME AllocPatient = TRUE, RowsAreRows
  PROVE  WebSpec => []AnswersHold
<1>1. WebInit => AllocInit /\ McInit /\ EfInit /\ DtInit /\ EcInit /\ MsInit /\ NlInit /\ RdInit
  BY DEF WebInit
<1>2. AllocInit /\ [][AllocNext]_allocVars => []SyncedIsSaved
  BY SyncedIsAlwaysSaved
<1>3. McInit /\ [][McNext]_mcVars => []RunsAreTold
  BY RunsAreAlwaysTold DEF McSpec
<1>4. EfInit /\ [][EfNext]_efVars => []FilterShowsSaved
  BY FilterAlwaysShowsSaved DEF EfSpec
<1>5. DtInit /\ [][DtNext]_dtVars => []CardIsCurrent
  BY CardIsAlwaysCurrent DEF DtSpec
<1>6. EcInit /\ [][EcNext]_ecVars => []ChartFollowsPage
  BY ChartAlwaysFollowsPage DEF EcSpec
<1>7. MsInit /\ [][MsNext]_msVars => []SignalsAreTold
  BY SignalsAreAlwaysTold DEF MsSpec
<1>8. NlInit /\ [][NlNext]_nlVars => []NewsIsWhole
  BY NewsIsAlwaysWhole DEF NlSpec
<1>9. RdInit /\ [][RdNext]_rdVars => []AddressHolds
  BY AddressAlwaysHolds DEF RdSpec
<1>10. /\ SyncedIsSaved /\ RunsAreTold /\ FilterShowsSaved /\ CardIsCurrent /\ ChartFollowsPage
       /\ SignalsAreTold /\ NewsIsWhole /\ AddressHolds
       => AnswersHold
  BY DEF AnswersHold
<1> QED
  BY <1>1, <1>2, <1>3, <1>4, <1>5, <1>6, <1>7, <1>8, <1>9, <1>10, TabSteps, PTL DEF WebSpec

\* In the tab of a user who waits for a write before the next, the portfolio page shows analyses that
\* answer its controls, snapshots, tiles and holdings that are those stored, a stock as it is saved and
\* its figures with their source, and keeps the focus in its panels, for any stocks, snapshots, groups
\* and inputs (portfolio/page.tsx and its components).
THEOREM TabHoldsPortfolio ==
  ASSUME AnPatient = TRUE
  PROVE  WebSpec => []PortfolioHolds
<1>1. WebInit => AnInit /\ SgInit /\ SeInit /\ HvInit /\ SfInit /\ PpInit
  BY DEF WebInit
<1>2. AnInit /\ [][AnNext]_anVars => []FreshIsCurrent
  BY AnalysisIsAlwaysCurrent DEF AnSpec
<1>3. AnInit /\ [][AnNext]_anVars => []ListedAreSaved
  BY ListedAreAlwaysSaved DEF AnSpec
<1>4. SgInit /\ [][SgNext]_sgVars => []GridHolds
  BY GridAlwaysHolds DEF SgSpec
<1>5. SeInit /\ [][SeNext]_seVars => []CardShowsSaved
  BY CardAlwaysShowsSaved DEF SeSpec
<1>6. HvInit /\ [][HvNext]_hvVars => []HoldingsHold
  BY HoldingsAlwaysHold DEF HvSpec
<1>7. SfInit /\ [][SfNext]_sfVars => []FiguresHold
  BY FiguresAlwaysHold DEF SfSpec
<1>8. PpInit /\ [][PpNext]_ppVars => []PanelsHold
  BY PanelsAlwaysHold DEF PpSpec
<1>9. /\ FreshIsCurrent /\ ListedAreSaved /\ GridHolds /\ CardShowsSaved /\ HoldingsHold
      /\ FiguresHold /\ PanelsHold
      => PortfolioHolds
  BY DEF PortfolioHolds
<1> QED
  BY <1>1, <1>2, <1>3, <1>4, <1>5, <1>6, <1>7, <1>8, <1>9, TabSteps, PTL DEF WebSpec

\* In the tab, the corporate page shows no figures of one company or input for another, and the pages
\* of a case, of decisions and of verdicts, the list of cases and the ticker search show what is stored
\* and answer what was asked, for any companies, inputs, cases and decisions.
THEOREM TabHoldsCorporate == WebSpec => []CorporateHolds
<1>1. WebInit => CaInit /\ CdInit /\ CqInit /\ CxInit /\ DlInit /\ CsInit /\ VpInit /\ CfInit
  BY DEF WebInit
<1>2. CaInit /\ [][CaNext]_caVars => []MetricsAreLost
  BY MetricsAlwaysKept
<1>3. CdInit /\ [][CdNext]_cdVars => []DcfHolds
  BY DcfAlwaysHolds DEF CdSpec
<1>4. CqInit /\ [][CqNext]_cqVars => []QueriesHold
  BY QueriesAlwaysHold DEF CqSpec
<1>5. CxInit /\ [][CxNext]_cxVars => []CaseHolds
  BY CaseAlwaysHolds DEF CxSpec
<1>6. DlInit /\ [][DlNext]_dlVars => []LogHolds
  BY LogAlwaysHolds DEF DlSpec
<1>7. CsInit /\ [][CsNext]_csVars => []SearchHolds
  BY SearchAlwaysHolds DEF CsSpec
<1>8. VpInit /\ [][VpNext]_vpVars => []ValuationHolds
  BY ValuationAlwaysHolds DEF VpSpec
<1>9. CfInit /\ [][CfNext]_cfVars => []ListIsWhole
  BY ListIsAlwaysWhole DEF CfSpec
<1>10. /\ MetricsAreLost /\ DcfHolds /\ QueriesHold /\ CaseHolds /\ LogHolds /\ SearchHolds
       /\ ValuationHolds /\ ListIsWhole
       => CorporateHolds
  BY DEF CorporateHolds
<1> QED
  BY <1>1, <1>2, <1>3, <1>4, <1>5, <1>6, <1>7, <1>8, <1>9, <1>10, TabSteps, PTL DEF WebSpec

\* In the tab, the developer monitor shows what its stream brings and no cleared event again, its
\* panels tell of the request selected, and what is reported to it is true.
THEOREM TabHoldsMonitor == WebSpec => []MonitorHolds
<1>1. WebInit => PsInit /\ MeInit /\ RpInit
  BY DEF WebInit
<1>2. PsInit /\ [][PsNext]_psVars => []StreamHolds
  BY StreamAlwaysHolds DEF PsSpec
<1>3. MeInit /\ [][MeNext]_meVars => []ReportsAreTrue
  BY ReportsAreAlwaysTrue DEF MeSpec
<1>4. RpInit /\ [][RpNext]_rpVars => []ProfileHolds
  BY ProfileAlwaysHolds DEF RpSpec
<1>5. StreamHolds /\ ReportsAreTrue /\ ProfileHolds => MonitorHolds
  BY DEF MonitorHolds
<1> QED
  BY <1>1, <1>2, <1>3, <1>4, <1>5, TabSteps, PTL DEF WebSpec
=============================================================================
