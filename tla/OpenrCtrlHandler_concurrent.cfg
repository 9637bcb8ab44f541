\* Two thrift worker threads send commands to one module over the
\* shared socket.
CONSTANTS
  Callers = {c1, c2}
  ModuleTypes = {kvstore}
  Types = {kvstore, fib}
  Requests = {r1, r2}
  PeerNames = {"", "alice", "mallory"}
  EmptyName = ""
  AcceptableNames = {"alice"}
  MaxCalls = 2
SPECIFICATION Spec
INVARIANT ResponseMatchesRequest
\* The bound on calls stops every behaviour.
CHECK_DEADLOCK FALSE
