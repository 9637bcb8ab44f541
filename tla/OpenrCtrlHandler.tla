--------------------------- MODULE OpenrCtrlHandler ---------------------------
(***************************************************************************)
(* OpenrCtrlHandler's command path (OpenrCtrlHandler.cpp): every thrift    *)
(* call runs authorizeConnection, and command() forwards a request to a    *)
(* module's event loop over the handler's one ZMQ REQ socket for that     *)
(* module, then waits kReadTimeout for the reply.  The sockets are set     *)
(* ZMQ_REQ_RELAXED (a new request may be sent while a reply is still due)  *)
(* and ZMQ_REQ_CORRELATE (each request carries an id; a reply with another *)
(* id is dropped).  The socket is shared by every thrift worker thread and *)
(* nothing serialises command(): each ZMQ call is taken as one atomic step *)
(* (the most benign outcome of the unsynchronised access).                *)
(*                                                                         *)
(* Abstraction: a request is a model value; the module's answer to request *)
(* r of module type t is <<t, r>>, so an answer names what it answers.     *)
(***************************************************************************)
EXTENDS Naturals, Sequences, SequencesExt

CONSTANTS
  Callers,          \* thrift worker threads running handler methods
  ModuleTypes,      \* the module types of moduleTypeToEvl (one socket each)
  Types,            \* module types a client may name; some have no socket
  Requests,         \* request payloads
  PeerNames,        \* peer common names of client connections
  EmptyName,        \* the empty common name of an unencrypted connection
  AcceptableNames,  \* acceptablePeerCommonNames
  MaxCalls          \* bound on handler calls

ASSUME /\ ModuleTypes \subseteq Types
       /\ EmptyName \in PeerNames
       /\ AcceptableNames \subseteq PeerNames \ {EmptyName}

VARIABLES
  sock,        \* module type -> REQ socket state: last request id, reply due
  toModule,    \* module type -> requests on the inproc pipe to the module
  fromModule,  \* module type -> replies on the pipe back
  caller,      \* thread -> its call in progress and the outcome of its last
  events,      \* event logs sent to the monitor by authorizeConnection
  calls        \* handler calls made, for the bound

vars == <<sock, toModule, fromModule, caller, events, calls>>

None == "none"

\* The response of a call that returned none.
NoResp == <<>>

\* The module's answer to request r.
Reply(t, r) == <<t, r>>

-----------------------------------------------------------------------------
(* The REQ sockets and authorizeConnection.                               *)

\* Mutant: ZMQ_REQ_CORRELATE not set (no request id checked on replies).
SockOptsUncorrelated == [relaxed |-> TRUE, correlate |-> FALSE]

\* The options the constructor sets on every module socket.
SockOpts == [relaxed |-> TRUE, correlate |-> TRUE]

\* A REQ socket refuses (EFSM) a send while a reply is due unless relaxed.
CanSend(t) == ~sock[t].awaiting \/ SockOpts.relaxed

\* The reply the socket hands to recv: with correlate only the one whose
\* id is the last request's; the others are dropped as they arrive.
Accepts(t, reply) == ~SockOpts.correlate \/ reply.id = sock[t].reqId

\* authorizeConnection: an empty peer name or an empty whitelist is let
\* through and logged; otherwise the name must be on the whitelist.
AuthorizeConnection(peer) ==
  IF peer = EmptyName \/ AcceptableNames = {}
  THEN IF peer = EmptyName THEN "UNENCRYPTED_CTRL_CONNECTION"
                           ELSE "UNRESTRICTED_AUTHORIZATION"
  ELSE IF peer \in AcceptableNames THEN "authorized" ELSE "unacceptable"

\* The event log authorizeConnection sends for an authorization with issues.
LogAuthorization(a) ==
  IF a \in {"UNENCRYPTED_CTRL_CONNECTION", "UNRESTRICTED_AUTHORIZATION"}
  THEN Append(events, a) ELSE events

\* The handler method of thread c, called with type t and request r,
\* returns: outcome o, response resp.
Return(c, t, r, o, resp) ==
  caller' = [caller EXCEPT ![c] = [pc |-> "idle", type |-> t, req |-> r,
                                   outcome |-> o, resp |-> resp]]

\* Mutant: the request id is not advanced before the send.
SendOneIdNotAdvanced(t, r) ==
  LET id == sock[t].reqId IN
  /\ sock' = [sock EXCEPT ![t] = [reqId |-> id, awaiting |-> TRUE]]
  /\ toModule' = [toModule EXCEPT ![t] = Append(@, [id |-> id, req |-> r])]

\* sendOne on a REQ socket with ZMQ_REQ_CORRELATE: the request goes out
\* with the next request id, and a reply is now due.
SendOne(t, r) ==
  LET id == sock[t].reqId + 1 IN
  /\ sock' = [sock EXCEPT ![t] = [reqId |-> id, awaiting |-> TRUE]]
  /\ toModule' = [toModule EXCEPT ![t] = Append(@, [id |-> id, req |-> r])]

-----------------------------------------------------------------------------
(* Handler methods, one thread each.                                       *)

\* command(type, request) up to the send: authorizeConnection (throwing
\* OpenrError for an unacceptable peer), moduleSockets_.at(type) (unknown
\* module), sendOne (an EFSM refusal is "Error processing request").
Command(c, t, r, p) ==
  LET a == AuthorizeConnection(p) IN
  /\ caller[c].pc = "idle"
  /\ calls < MaxCalls
  /\ calls' = calls + 1
  /\ events' = LogAuthorization(a)
  /\ \/ /\ a = "unacceptable"
        /\ Return(c, t, r, "unacceptable", NoResp)
        /\ UNCHANGED <<sock, toModule, fromModule>>
     \/ /\ a # "unacceptable" /\ t \notin ModuleTypes
        /\ Return(c, t, r, "unknownModule", NoResp)
        /\ UNCHANGED <<sock, toModule, fromModule>>
     \/ /\ a # "unacceptable" /\ t \in ModuleTypes
        /\ IF CanSend(t)
           THEN /\ SendOne(t, r)
                /\ caller' = [caller EXCEPT ![c] = [pc |-> "recv", type |-> t, req |-> r,
                                                    outcome |-> None, resp |-> NoResp]]
           ELSE /\ Return(c, t, r, "sendError", NoResp)
                /\ UNCHANGED <<sock, toModule>>
        /\ UNCHANGED fromModule

\* recvOne(kReadTimeout) returns the accepted reply; the replies queued
\* before it are dropped.  With no reply due it fails at once (EFSM).
Recv(c) ==
  LET t == caller[c].type
      i == SelectInSeq(fromModule[t], LAMBDA m : Accepts(t, m))
  IN /\ caller[c].pc = "recv"
     /\ sock[t].awaiting => i # 0
     /\ IF sock[t].awaiting
        THEN /\ Return(c, t, caller[c].req, "ok", fromModule[t][i].resp)
             /\ sock' = [sock EXCEPT ![t].awaiting = FALSE]
             /\ fromModule' = [fromModule EXCEPT ![t] = SubSeq(@, i + 1, Len(@))]
        ELSE /\ Return(c, t, caller[c].req, "recvError", NoResp)
             /\ UNCHANGED <<sock, fromModule>>
     /\ UNCHANGED <<toModule, events, calls>>

\* kReadTimeout passes with no accepted reply: the call fails with
\* "Error processing request"; the socket still awaits a reply.
Timeout(c) ==
  LET t == caller[c].type IN
  /\ caller[c].pc = "recv"
  /\ sock[t].awaiting
  /\ SelectInSeq(fromModule[t], LAMBDA m : Accepts(t, m)) = 0
  /\ Return(c, t, caller[c].req, "timeout", NoResp)
  /\ fromModule' = [fromModule EXCEPT ![t] = <<>>]
  /\ UNCHANGED <<sock, toModule, events, calls>>

\* hasModule(type): authorizeConnection, then whether a socket exists.
HasModule(c, t, p) ==
  LET a == AuthorizeConnection(p) IN
  /\ caller[c].pc = "idle"
  /\ calls < MaxCalls
  /\ calls' = calls + 1
  /\ events' = LogAuthorization(a)
  /\ Return(c, t, None, IF a = "unacceptable" THEN "unacceptable"
                        ELSE IF t \in ModuleTypes THEN "hasModule"
                        ELSE "noModule", NoResp)
  /\ UNCHANGED <<sock, toModule, fromModule>>

\* The module's event loop answers the oldest request on its pipe.
ModuleServe(t) ==
  /\ toModule[t] # <<>>
  /\ fromModule' = [fromModule EXCEPT ![t] =
                      Append(@, [id |-> Head(toModule[t]).id,
                                 resp |-> Reply(t, Head(toModule[t]).req)])]
  /\ toModule' = [toModule EXCEPT ![t] = Tail(@)]
  /\ UNCHANGED <<sock, caller, events, calls>>

-----------------------------------------------------------------------------

\* The constructor: one connected socket per module type, nothing sent.
Init ==
  /\ sock = [t \in ModuleTypes |-> [reqId |-> 0, awaiting |-> FALSE]]
  /\ toModule = [t \in ModuleTypes |-> <<>>]
  /\ fromModule = [t \in ModuleTypes |-> <<>>]
  /\ caller = [c \in Callers |-> [pc |-> "idle", type |-> None, req |-> None,
                                  outcome |-> None, resp |-> NoResp]]
  /\ events = <<>>
  /\ calls = 0

Next ==
  \/ \E c \in Callers, t \in Types, r \in Requests, p \in PeerNames : Command(c, t, r, p)
  \/ \E c \in Callers : Recv(c) \/ Timeout(c)
  \/ \E c \in Callers, t \in Types, p \in PeerNames : HasModule(c, t, p)
  \/ \E t \in ModuleTypes : ModuleServe(t)

\* Each module loop serves its socket; a waiting thread returns with the
\* reply or at its timeout.
Spec ==
  /\ Init /\ [][Next]_vars
  /\ \A t \in ModuleTypes : WF_vars(ModuleServe(t))
  /\ \A c \in Callers : WF_vars(Recv(c) \/ Timeout(c))

-----------------------------------------------------------------------------
(* Properties.                                                             *)

Outcomes == {None, "ok", "unacceptable", "unknownModule", "sendError",
             "recvError", "timeout", "hasModule", "noModule"}

TypeOK ==
  /\ \A c \in Callers : caller[c].pc \in {"idle", "recv"} /\ caller[c].outcome \in Outcomes
  /\ \A c \in Callers : caller[c].resp \in {NoResp} \cup (Types \X Requests)
  /\ \A t \in ModuleTypes : \A m \in Range(toModule[t]) \cup Range(fromModule[t]) :
       m.id \in 1..sock[t].reqId
  /\ \A c \in Callers : caller[c].pc = "recv" => caller[c].type \in ModuleTypes
  /\ \A t \in ModuleTypes : sock[t].reqId \in 0..MaxCalls
  /\ calls \in 0..MaxCalls

\* A command that returns a response returns the module's answer to its
\* own request, even when an earlier command to the module timed out and
\* its answer arrives late (ZMQ_REQ_CORRELATE drops it).
ResponseMatchesRequest ==
  \A c \in Callers :
    caller[c].outcome = "ok" => caller[c].resp = Reply(caller[c].type, caller[c].req)

=============================================================================
