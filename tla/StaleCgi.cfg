SPECIFICATION Spec
CONSTANTS
  None = None
  c1 = c1
  c2 = c2
  Clients = {c1, c2}
  Servers = {4}
  Fds <- AmpleFds
  Home <- OneHome
  Kinds = {"cgi"}
  Env = {"slow"}
  MaxReq = 1
  MaxOut = 1
  MaxLog = 2
  TimeoutMs = 900
INVARIANT OwnOutputOnly
CHECK_DEADLOCK FALSE
