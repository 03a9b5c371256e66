\* A single request is enough for a late event to be written last.
SPECIFICATION Spec
CONSTANTS
  Requests = {r1}
  Dashboard = {}
  NoRequest = NoRequest
  Amounts = {1, 2, 3}
  Total = 2
  Intents <- KnownIntent
  MaxEvents = 2
INVARIANT BooksAgreeWhenQuiet
CHECK_DEADLOCK FALSE
