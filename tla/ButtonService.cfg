\* The service under a client that makes its calls in any order,
\* under fairness of the producer, the tick and the calls.
SPECIFICATION FairSpec
CONSTANTS
  menu = menu
  back = back
  Buttons <- MCButtons
  QueueMax = 1
  Debounce = 2
  EdgesMax = 3
CHECK_DEADLOCK FALSE
INVARIANTS
  NothingLostSilently
  ProducerAtRest
PROPERTIES
  OneEventPerHold
  PressHeard
  CallsReturn
