\* Two events, two concurrent requests, three faults.  No symmetry: it would
\* not be sound for the liveness property.
SPECIFICATION FairClaimsSpec
CONSTANTS
  Events = {e1, e2}
  Handlers = {h1, h2}
  NoEvent = NoEvent
  MaxFaults = 3
INVARIANT OnlyTheOwnerSettles
PROPERTIES ProcessedIsFinal ProcessedOnlyWhenHandled EveryEventProcessed
\* All events end up processed: nothing is left to do.
CHECK_DEADLOCK FALSE
