CONSTANTS
  PageKinds = {"issues", "logs", "performance", "insights", "deliveries"}
  Scopes = {"p1", "p2"}
  Searches = {"", "s"}
  Count = 3
  PageSize = 1
  MaxActs = 5
  Users = {"alice", "bob"}
  Tabs = {"first", "second"}
  SessionActs = 4
  MaxExpiries = 1
  MaxLost = 1
  Years = {1399, 1403, 1408}
  Days = 400
  Ids = {"a", "b", "c"}
  Root = "root"
  Elsewhere = "else"
  Starts = {0, 1}
  MaxSpans = 3
  Languages = {"javascript", "sql", "json"}
  Characters = {"a", "/", "*", "-", "quote", "backquote", "backslash", "newline", ":"}
  MaxText = 4
  TraceLength = 3
  Frames <- SomeFrames
  Crumbs <- SomeCrumbs
  CrumbSearches = {"", "http", "word"}
  MaxFrames = 2
  MarkdownFrames = 1
  MarkdownCrumbs = 2
SPECIFICATION BrowserSpec
\* a part that has done what its bounds allow rests
CHECK_DEADLOCK FALSE
INVARIANTS
  UrlShowsView
  OffsetBelongs
  BulkActsOnSeen
  AccountMatches
  SessionKept
  QuietSignOutClears
  CalendarAgrees
  TreeDrawn
  TokensAgree
  EventAgrees
PROPERTIES
  CallsSettle
