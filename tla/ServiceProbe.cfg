CONSTANTS
  Services = {a, b}
  Declarable = {{a}, {a, b}}
  Ported = {a}
  MaxPid = 2
  StartupGrace = 1
  MaxEdits = 1
  MaxControls = 1
  MaxFaults = 1
SPECIFICATION Spec
INVARIANT TypeOK
INVARIANT LoadsAreCurrent
INVARIANT SteadyIsTrue
INVARIANT UnhealthyHadItsGrace
INVARIANT CountedOnce
CHECK_DEADLOCK FALSE
