SPECIFICATION Spec
CONSTANTS
  Capacity = 2
  Submitters = {d0, d1}
  MaxJob = 4
  MaxGeneration = 2
  FirstJobs = {0, 1}
INVARIANTS DeliveredInOrder ClaimsNeverCollide
PROPERTIES ImplementsWindow LetInIsDelivered
\* Submitters stop at MaxJob and the window then runs empty.
CHECK_DEADLOCK FALSE
