SPECIFICATION Spec
CONSTANTS
  None = None
  c1 = c1
  c2 = c2
  Clients = {c1, c2}
  Servers = {4}
  Fds <- ScarceFds
  Home <- OneHome
  Kinds = {"static", "cgi", "fail", "large"}
  Env = {"reset", "impatient", "slow", "silent", "execFails"}
  MaxReq = 1
  MaxOut = 2
  MaxLog = 2
  TimeoutMs = 900
SYMMETRY Symmetry
INVARIANTS TypeOK UdataLive OpenIsWatched NeverBlocks
CHECK_DEADLOCK FALSE
