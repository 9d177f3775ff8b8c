SPECIFICATION Spec
CONSTANTS
  None = None
  c1 = c1
  c2 = c2
  Clients = {c1}
  Servers = {4}
  Fds <- ScarceFds
  Home <- OneHome
  Kinds = {"static", "cgi", "fail", "large"}
  Env = {"pipelining", "splitting", "reset", "impatient", "slow", "silent"}
  MaxReq = 3
  MaxOut = 1
  MaxLog = 4
  TimeoutMs = 900
INVARIANTS ConnIffSocket EndsOnlyFor AnsweredOnce StaticInOrder
PROPERTY SilentAfterTimeout
CHECK_DEADLOCK FALSE
