SPECIFICATION Spec
CONSTANTS
  Nics = {n, m}
  Tunnels = {t}
  Drives = {d, e}
  Ifaces = {w, v}
  Busy = {w}
  Networks = {home, none}
  WifiAge = 2
  Pids = {p}
  MaxCpu = 2
  MaxGpu = 1
  Window = 2
  MaxBytes = 1
  MaxFaults = 1
INVARIANTS TypeOK NothingIsStale
PROPERTIES NothingIsMadeUp NothingIsMissed
