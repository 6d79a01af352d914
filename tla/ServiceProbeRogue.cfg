\* A service that the control helper stopped, and a port that something else
\* takes in its place.
SPECIFICATION Spec
CONSTANTS
  Services = {a, b}
  Declarable = {{a}, {a, b}}
  Ported = {a}
  MaxPid = 2
  StartupGrace = 1
  MaxEdits = 1
  MaxControls = 1
  MaxFaults = 1
INVARIANT RoguesAreTold
CHECK_DEADLOCK FALSE
