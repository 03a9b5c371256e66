\* The smaller machines of the shop, one after the other.
SPECIFICATION DaySpec
CONSTANTS
  \* Two pickup points, one of which changes.
  NoAnchor = NoAnchor
  BadAnchor = BadAnchor
  NoDate = NoDate
  Points = {1, 2}
  FirstRows <- TwoPoints
  SomeCalendars <- OtherCalendars
  OptionCount = 2
  FirstInstant = 6
  LastInstant = 11
  MaxEdits = 1
  MaxOrders = 1
  \* Three orders of one article, with a date or none.
  MaxOrder = 3
  DueDays = {1, 2}
  NoDue = NoDue
  MaxLine = 2
  StockBound = 1
  \* Two sales and two closings on two days, around either change of the clock.
  Sales = {one, two}
  Clerks = {one, two}
  Instants <- SomeHours
  Spring = 25
  Autumn = 4993
  Tickets <- SomeTickets
  \* One address, over almost three windows.
  Addresses = {home}
  WindowTicks = 3
  MaxRequests = 2
  TicksPerSecond = 2
  LastTick = 8
  \* Two tabs of a browser, over two session windows.
  Tabs = {one, two}
  SessionWindow = 2
  PingInterval = 1
  ConsentRetention = 2
  VisitorRetention = 3
  RowRetention = 2
  MaxLag = 1
  MaxTime = 3
  MaxId = 3
  MaxCalls = 2
  \* One article edited in two forms, two categories.
  Articles = {terrine}
  FormIds = {one, two}
  Categories = {1, 2}
  Autres = 1
  Slugs = {"autres", "bocaux"}
  StaffIds = {three}
  MaxFile = 2
  \* Three accounts, two requests.
  Users = {diane, paul, rose}
  FirstAdmin = diane
  RequestIds = {one, two}
  NoUser = NoUser
SYMMETRY Symmetry
VIEW View
INVARIANTS FrozenOnlyByMisfitAnchor NeedsAreTheShortfall ClosingsAddUp RateIsBounded
  VisitsApart NoIdentifierAfterRefusal ImagesAreOnDisk CatalogueIsSound
  OffersAreHonoured SomeAdminRemains
PROPERTY FreshOfferAccepted
\* An order can be handled, a till closed.
CHECK_DEADLOCK FALSE
