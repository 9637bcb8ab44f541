\* One thrift worker thread: commands to a module with a socket and to
\* one without, from an unencrypted, a whitelisted and an unknown peer.
CONSTANTS
  Callers = {c1}
  ModuleTypes = {kvstore}
  Types = {kvstore, fib}
  Requests = {r1, r2}
  PeerNames = {"", "alice", "mallory"}
  EmptyName = ""
  AcceptableNames = {"alice"}
  MaxCalls = 4
SPECIFICATION Spec
INVARIANTS TypeOK ResponseMatchesRequest
\* The bound on calls stops every behaviour.
CHECK_DEADLOCK FALSE
