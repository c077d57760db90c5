CONSTANTS
  Relay = "relay"
  OurAlpn = "sfu2"
  QadPort = "port"
  Procs = {p1, p2}
  Clients = {c1, c2}
  Silent = {c2}
  Keys = {k1, k2, k3}
  NoKey = NoKey
  NoProc = NoProc
  OldBuild = {p1}
  OldAlpn = "sfu1"
  MaxStarts = 3
  MaxErrors = 1
SPECIFICATION Spec
INVARIANT IdStable
INVARIANT FetchedNamesSfu
PROPERTY RequestsAnswered
PROPERTY RelayLossFreesPorts
CHECK_DEADLOCK FALSE
