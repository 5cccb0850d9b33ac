\* Two entries and a flow whose board may not answer, on a transparent (RTU)
\* gateway: the flow tries the wrong framing first.
SPECIFICATION FairSpec
CONSTANTS
  Entry = {e1, e2}
  Flow = {f1}
  Stale = {e2}
  Present = {e1, e2, f1}
  Misfit = {e2}
  Writer = {e1}
  Gateway = {g1, g2}
  Framings <- MCFramings
  WireFraming = "rtu"
  MaxLeaks = 1
  None = None
INVARIANTS TypeOK UsersCounted OneConnection
PROPERTIES RegistrySpec ComesToRest
