SPECIFICATION FairSpec
CONSTANTS
  t1 = t1  t2 = t2  t3 = t3  t4 = t4
  Pushers = {t1, t2}
  Poppers = {t2, t3}
  Clearers = {t3}
  MinCapacities = {1, 2}
  VersionMod = 6
  MaxTickets = 4
INVARIANTS IInv TypeOK SlotExclusive PopGetsItsTicket NoLostWakeup StuckOnlyWhenFullOrEmpty
PROPERTIES VersionStepsByOne ImplementsFIFO TicketsServed ClearReturnsOnEmpty
CHECK_DEADLOCK FALSE
