SPECIFICATION FairSpec
CONSTANTS
  None = None
  c1 = c1
  c2 = c2
  Clients = {c1, c2}
  Servers = {4}
  Fds <- AmpleFds
  Home <- OneHome
  Kinds = {"static", "cgi"}
  Env = {}
  MaxReq = 2
  MaxOut = 1
  MaxLog = 3
  TimeoutMs = 1900
INVARIANTS EventIffResponse CgiTargetsOwner NothingLeftWaiting StaysUp
PROPERTIES ServicePromise DescriptorsReturn
