SPECIFICATION WebSpec
CHECK_DEADLOCK FALSE
INVARIANTS WebTypeOK PortfolioHolds CorporateHolds AnswersHold MonitorHolds DerivedHolds
PROPERTIES  WritesKeepTheRest LoadedIsShown ZoomIsKept BootAlwaysEnds
CONSTANTS
  FirstDelay = 1
  MaxDelayUnits = 10
  Threshold = 60
  WbMaxFaults = 2
  Stock = {s1, s2}
  Unlisted = {s2}
  TypedPercent = {20, 60}
  Group = {"custom", "browser"}
  NoRow = NoRow
  NoDraft = NoDraft
  AllocMaxTyped = 2
  AllocMaxActs = 1
  AllocMaxFaults = 1
  AllocMaxReads = 1
  AllocPatient = TRUE
  AllocSnapshots = TRUE
  DefaultAmount = 3
  TypedAmount = {1, 2}
  Blank = Blank
  NoAmount = NoAmount
  AmountMaxTyped = 2
  AmountMaxVisits = 2
  AmountMaxReads = 1
  AmountMaxFaults = 1
  Benchmark = {b1, b2}
  Book = {k1, k2}
  DateFilter = {d1, d2}
  PausedBook = {k2}
  SnapshotVersion = {v1}
  NoAnalysis = NoAnalysis
  AnMaxChanges = 1
  AnMaxRefreshes = 1
  AnMaxVisits = 2
  AnMaxWrites = 1
  AnMaxFaults = 1
  AnPatient = TRUE
  CaTicker = {t1, t2}
  CaFigure = {f0, f1}
  CaDefault = f0
  NoCa = none
  CaMaxEdits = 2
  CaMaxPicks = 1
  CaMaxVisits = 2
  CaMaxFaults = 1
  CdTicker = {t1, t2}
  CdFigure = {f0, f1}
  CdRefused = {f1}
  NoDcf = none
  CdMaxChanges = 2
  CdMaxRefreshes = 1
  CdMaxReports = 1
  CdMaxVisits = 2
  CdMaxFaults = 1
  CqInput = {i1, i2}
  NoCq = none
  CqMaxChanges = 2
  CqMaxRefreshes = 2
  CqMaxBatches = 1
  CqMaxVisits = 2
  CqMaxFaults = 1
  Amount = {100, 200}
  McNone = McNone
  McMaxRuns = 3
  McMaxTabs = 1
  McMaxErrors = 1
  LookupTicker = {t1, t2}
  NoTicker = NoTicker
  PlMaxAttempts = 2
  PlMaxEdits = 4
  PlMaxLookups = 2
  Return = {0, 1, 2, 5}
  Bins = 4
  Target = {3, 5}
  SiMaxPaths = 5
  SiMaxSteps = 60
  SiMaxRows = 4
  SiMaxCells = 2
  PsMaxEvents = 3
  PsMaxBuffer = 2
  PsMaxSeeds = 2
  PsMaxDrops = 2
  PsMaxClicks = 3
  EfCategory = {c1, c2}
  EfOwn = {c2}
  EfEvent = {e1}
  NoEf = NoEf
  EfMaxActs = 2
  EfMaxFaults = 1
  EcBars <- ChartBars
  EcMonthly <- ChartMonthly
  EcEvent = {11, 13, 25}
  EcMaxChanges = 3
  MsAlert = {a1}
  MsSurge = {u1}
  NoMs = NoMs
  MsSent = 1
  MsCards = {2}
  MsMaxNews = 2
  MsMaxVisits = 2
  MsMaxFaults = 1
  DtDate = {d1}
  NoDt = NoDt
  DtMaxSelects = 2
  DtMaxSearches = 1
  DtMaxFaults = 1
  SgStock = {g1, g2}
  SgSearch = {{g1, g2}, {g1}}
  NoSg = NoSg
  SgFollows = {g1}
  SgMaxNews = 2
  SgOutcome = {"acquired", "unknown"}
  SgMaxActs = 2
  SgMaxRefreshes = 1
  SgMaxFaults = 1
  NlPage = 2
  NlOldest = 1
  NlNewest = 5
  NlStored <- NewsStored
  NoNl = NoNl
  NlMaxVisits = 2
  NlMaxFaults = 1
  SeSector = {x1, x2}
  SeTheme = {h0, h1}
  SeOther = h9
  NoTheme = h0
  NoSe = NoSe
  SeMaxActs = 2
  SeMaxVisits = 2
  SeMaxTrouble = 1
  PpTicker = {q1, q2}
  PpRow = {q1}
  NoPp = NoPp
  PpMaxActs = 6
  PpMaxChanges = 1
  HvTicker = {"o1", "o2"}
  HvSector = {"tech", NoHv}
  HvFile <- FileHoldings
  NoHv = NoHv
  HvMaxActs = 2
  HvMaxReads = 1
  HvMaxImports = 1
  HvMaxTrouble = 1
  MlKinds <- MlEventKinds
  MlMaxEvents = 2
  MlRows = 1
  MlWarnings = 1
  MlMaxClicks = 2
  MeMaxExpiries = 1
  RpRequest = {r1, r2}
  NoRp = NoRp
  RpMaxChanges = 2
  RpMaxClicks = 2
  RdSource = {"risk", "surge"}
  RdRows <- Records
  RdStrange <- UnknownRecord
  RdDay = {1, 2}
  RdNewest = 1
  RdPageSize = 1
  RdMaxActs = 2
  RdMaxFaults = 1
  CfTarget <- CaseTargets
  CfRoot <- CaseRoot
  CfTyped = {10, 25}
  NoCf = NoCf
  CfMaxRows = 2
  CfMaxLate = 1
  CfMaxSends = 2
  CfMaxVisits = 1
  CfMaxFaults = 1
  CxKey = {"k1"}
  CxNarrated = {"k1"}
  CxShape = {"normal", "uniform"}
  CxParams <- ShapeParams
  CxSeeds = {1, 2}
  CxWithheld = {2}
  NoCx = NoCx
  CxMaxRows = 2
  CxMaxEdits = 1
  CxMaxSends = 2
  CxMaxFaults = 1
  SfTicker = {"s1", "s2"}
  SfVersion = {1, 2}
  SfRows <- FigureRows
  SfSaved <- SavedFigures
  SfVolatility <- StockVolatility
  SfWeight <- StockWeight
  SfFee = 1
  SfDay = {1, 2}
  NoSf = NoSf
  SfMaxChanges = 2
  SfMaxRefreshes = 1
  SfMaxFaults = 1
  ScVersion = {1, 2, 3}
  ScDay <- DayOfVersion
  ScImplied <- RecordedSpreads
  ScBars <- CardBars
  ScWindow = {2}
  ScQuality = {"ok"}
  ScLastClose = 5
  ScLive = ScLive
  NoSc = NoSc
  ScMaxActs = 3
  ScMaxRereads = 1
  ScMaxFaults = 1
  DlId = {1, 2}
  DlFirst = {1}
  DlMemo = {"m1", "m2"}
  DlFigures <- DlFiguresKnown
  NoDl = NoDl
  DlMaxEdits = 2
  DlMaxWrites = 2
  DlMaxFaults = 1
  CsTicker = {"MS", "MSFT", "SX"}
  CsFirst = {"MSFT"}
  CsText = {"m", "s"}
  CsSymbol <- SymbolTyped
  CsMatches <- TickersMatched
  NoCs = NoCs
  CsMaxActs = 6
  CsMaxFaults = 1
  VpTicker = {"A", "B"}
  VpRefused = {"B"}
  NoVp = NoVp
  VpRetries = 1
  VpMaxActs = 2
  VpMaxFaults = 2
  CtTables <- ComparedTables
  CtOthers = {"x"}
  NoCt = NoCt
  CtPeers = 3
  CtMaxActs = 3
  CtMaxTables = 2
  CtMaxFaults = 1
  NoMd = NoMd
  MdMaxActs = 4
  MdMaxFaults = 1
  MdItem <- InstrumentItems
  MdType <- InstrumentTypeOf
  MdBars <- InstrumentBars
  MdRegime <- InstrumentRegime
  MdKnown = 2
  MdWindow = {2, 3}
