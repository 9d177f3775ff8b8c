SPECIFICATION Spec
CONSTANTS
  None = None
  c1 = c1
  c2 = c2
  Clients = {c1}
  Servers = {4}
  Fds <- AmpleFds
  Home <- OneHome
  Kinds = {"static"}
  Env = {"pipelining"}
  MaxReq = 2
  MaxOut = 1
  MaxLog = 2
  TimeoutMs = 2900
INVARIANT NothingLeftWaiting
CHECK_DEADLOCK FALSE
