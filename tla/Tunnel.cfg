SPECIFICATION TunnelFairSpec
CONSTANTS
    Tunnels = {t1, t2}
    NoTunnel = NoTunnel
    Callers = {k1, k2}
    Profiled = {t1}
    Main = Main
    MaxLives = 2
    MaxFaults = 1
    MaxAsked = 2
INVARIANTS
  OneTunnel
PROPERTIES
  KeepsTrying
CHECK_DEADLOCK FALSE
