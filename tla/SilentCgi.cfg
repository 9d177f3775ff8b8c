SPECIFICATION Spec
CONSTANTS
  None = None
  c1 = c1
  c2 = c2
  Clients = {c1}
  Servers = {4}
  Fds <- AmpleFds
  Home <- OneHome
  Kinds = {"cgi"}
  Env = {"silent"}
  MaxReq = 1
  MaxOut = 1
  MaxLog = 2
  TimeoutMs = 2900
INVARIANT ResponseEventHasResponse
CHECK_DEADLOCK FALSE
