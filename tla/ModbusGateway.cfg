\* Two calls with two attempts each, a write and a cancellable read, one
\* framing switch and one close: a late answer can meet a retry and a neighbour.
SPECIFICATION FairSpec
CONSTANTS
  Call = {c1, c2}
  Writes = {c1}
  Cancellable = {c2}
  Switcher = {s1}
  Closer = {k1}
  Framings = {"tcp", "rtu"}
  WireFraming = "tcp"
  Retries = 2
  NoTask = NoTask
  NoFrame = NoFrame
INVARIANTS TypeOK ExclusiveBus NoStaleAnswer ClientFraming
PROPERTIES ClientPinned GapAfterAnswer TransportSpec Termination
\* The system stops when every call has ended.
CHECK_DEADLOCK FALSE
