SPECIFICATION FairSpec
CONSTANTS
  Systems = {s1}
  Callers = {c1}
  Reconcilers = {r1, r2}
  Nothing = Nothing
  Connections = 3
  BatchLimit = 2
  MaxEvents = 3
  MaxReservations = 1
  MaxDisturbances = 1
INVARIANTS
  CaughtUpRowsAreCurrent
PROPERTIES
  ImplementsProjectedView
  EventsAreDelivered
CHECK_DEADLOCK FALSE
