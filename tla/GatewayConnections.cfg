\* An entry that is reloaded while one of its service calls waits to retry.
SPECIFICATION FairSpec
CONSTANTS
  Entry = {e1}
  Flow = {}
  Stale = {}
  Present = {e1}
  Misfit = {}
  Writer = {e1}
  Gateway = {g1, g2}
  Framings <- MCFramings
  WireFraming = "rtu"
  MaxLeaks = 1
  None = None
INVARIANT SingleConnection
