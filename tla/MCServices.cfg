SPECIFICATION Spec
CONSTANTS
  RunHandlers = {1}
  RunIds = {1, 2}
  JobNames = {"a"}
  MaxRunHooks = 4
  Positions = {0, 1}
  MaxPlays = 5
  MaxMoves = 5
  Handlers = {1, 2}
  Instances = {"a", "b"}
  MaxWebhooks = 3
  StartPolls = 2
  MorePolls = 2
  MaxHold = 2
  MaxEvents = 6
  NameGroups = {"g1", "g2"}
  AlertsOf <- TwoGroups
  Operations = {"SNAPSHOT", "CHECK"}
  MaxReports = 4
  Readable = {0, 1, 2}
  PollIntervals = {1, 3}
  StaleAfter = 6
  ShortestHeartbeat = 3
  MinChange = 1
  Latency = 1
  MaxCallFaults = 2
  SeriesNames = {"a", "b", "c"}
  SeriesValues = {0, 2}
  MissGrace = 2
  MaxSeries = 2
  ResendTicks = 3
  MaxFaults = 1
  Requests = {1, 2}
  Tenants = {"a", "b", "c"}
  MaxSize = 2
  SampleSize = 2
  Burst = 1
  Rate = 1
  MaxAge = 1
  MaxBuckets = 4
  Callers = {"c1", "c2"}
  URLs = {"u", "v"}
  CacheSize = 1
  Slots = 1
  NegativeTTL = 1
  MaxEntries = 2
  LastTime = 3
  Stoppers = {"s1", "s2"}
INVARIANTS
  CardsKept PushesKept SabnzbdKept BambulabKept BackrestKept AlertsKept
  WidgetsKept ShapesKept ForgesKept SharedPartsKept
PROPERTIES
  StoreKept
CHECK_DEADLOCK FALSE
