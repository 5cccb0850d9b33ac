\* An entry on a converting (TCP) gateway and a flow given a wrong slave id.
SPECIFICATION FairSpec
CONSTANTS
  Entry = {e1}
  Flow = {f1}
  Stale = {}
  Present = {e1}
  Misfit = {}
  Writer = {}
  Gateway = {g1, g2}
  Framings <- MCFramings
  WireFraming = "tcp"
  MaxLeaks = 1
  None = None
INVARIANT FramingFixedForEveryone
