\* Two calls that may collide on one id, channels of one place, and one event more than it
\* takes to fill a channel, drop one and drop the marker as well.
CONSTANTS
  c1 = c1
  c2 = c2
  r1 = r1
  None = None
  Calls = {c1, c2}
  RequestIds = {r1}
  Capacity = 1
  MaxEvents = 3
SPECIFICATION FairSpec
INVARIANTS
  EveryEventAccountedFor
  LosslessSurvive
  RequestHandedOverOrRejected
  NoCallForgotten
PROPERTIES
  StreamRefined
  CallsSettle
  BackpressureEnds
CHECK_DEADLOCK FALSE
