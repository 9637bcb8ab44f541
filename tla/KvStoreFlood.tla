----------------------------- MODULE KvStoreFlood -----------------------------
(***************************************************************************)
(* Several KvStores of one area exchanging keys (spec 4.2): local sets and *)
(* originator TTL refreshes, the full sync a peer add starts, and the      *)
(* incremental flood of every effective delta.  Every store applies what   *)
(* it receives with the same mergeKeyValues as a local set.                *)
(*                                                                         *)
(* The network is the set "msgs" of messages in flight, so any of them may *)
(* be delivered first (reordering).  A message may be lost; the sender's   *)
(* call fails.  A lost sync message fails the sync, and MaxFailures (K)    *)
(* consecutive lost publications fail the peering; a failed peer is       *)
(* "idle" until a new sync.  A sync may also time out while its answer is *)
(* still on the way, and delPeer may remove a peer at any time.  Two      *)
(* identical messages on one edge are one element of the set: merging is  *)
(* idempotent, so the second copy would change nothing.  The same          *)
(* publication still reaches a store twice over two paths of a cycle.     *)
(* Values never expire here (infinite ttl): expiry is per store and is     *)
(* the KvStore module's concern.                                           *)
(***************************************************************************)
EXTENDS KvStoreUtil

CONSTANTS
  Nodes,       \* node ids (numbers: originatorId order is number order)
  Links,       \* undirected peerings, as two-element sets
  Keys,        \* keys any node may set
  Payloads,    \* payloads a set may carry
  MaxSets,     \* bound on local sets (new versions)
  MaxRefresh,  \* bound on originator ttl refreshes
  FaultyLinks, \* the peerings faults may hit
  MaxFaults,   \* bound on faults: lost messages, sync timeouts, delPeers
  MaxFailures  \* K: consecutive failed sends that fail a peering

VARIABLES
  store,       \* node -> key -> value
  peer,        \* node -> neighbour -> "idle" | "syncing" | "established"
  msgs,        \* messages in flight
  failures,    \* node -> neighbour -> consecutive failed sends
  sets, refreshes, faults,  \* counters for the bounds
  origins      \* history: every <<key, value>> a local set or refresh produced

vars == <<store, peer, msgs, failures, sets, refreshes, faults, origins>>

Neighbours(n) == {m \in Nodes : {n, m} \in Links}

-----------------------------------------------------------------------------
(* Messages.                                                               *)

\* A hash dump of the whole store (dumpHashWithFilters, no filter).
SyncRequest(n, m) ==
  [type |-> "syncReq", from |-> n, to |-> m,
   keyVals |-> DumpHashWithFilters(store[n], NoFilter)]

\* A publication of key values.
Pub(n, m, keyVals) == [type |-> "pub", from |-> n, to |-> m, keyVals |-> keyVals]

\* The values of an effective delta as they go on the wire: full values,
\* and ttl-only entries without payload.
Wire(updates) == [k \in DOMAIN updates |-> updates[k].value]

\* Incremental flood: to every established peer but the one the delta
\* came from (split horizon); nothing for an empty delta.
Flood(n, inbound, updates) ==
  IF updates = <<>> THEN {}
  ELSE {Pub(n, m, Wire(updates)) :
          m \in {m \in Neighbours(n) : peer[n][m] = "established" /\ m # inbound}}

\* Merge a batch into n's store and flood the delta; "extra" are the other
\* messages the step sends.
MergeAndFlood(n, inbound, keyVals, consumed, extra) ==
  LET r == MergeKeyValues(store[n], keyVals, NoFilter) IN
  /\ store' = [store EXCEPT ![n] = r.kvStore]
  /\ msgs' = (msgs \ consumed) \cup extra \cup Flood(n, inbound, r.updates)

-----------------------------------------------------------------------------
(* Local operations of a node.                                             *)

\* A local set of key k with the next version, originated by n.
SetKey(n, k, x) ==
  LET cur == IF k \in DOMAIN store[n] THEN store[n][k].version ELSE 0
      v == [version |-> cur + 1, originatorId |-> n, value |-> x,
            ttl |-> TtlInfinity, ttlVersion |-> 0, hash |-> NoValue]
  IN /\ sets < MaxSets
     /\ sets' = sets + 1
     /\ origins' = origins \cup {<<k, WithHash(v)>>}
     /\ MergeAndFlood(n, n, k :> v, {}, {})
     /\ UNCHANGED <<peer, refreshes, faults, failures>>

\* The originator of k bumps its ttlVersion: a value with payload reset.
RefreshTtl(n, k) ==
  /\ k \in DOMAIN store[n]
  /\ store[n][k].originatorId = n
  /\ refreshes < MaxRefresh
  /\ refreshes' = refreshes + 1
  /\ LET v == [StripValue(store[n][k]) EXCEPT !.ttlVersion = @ + 1] IN
     /\ origins' = origins \cup {<<k, [store[n][k] EXCEPT !.ttlVersion = @ + 1]>>}
     /\ MergeAndFlood(n, n, k :> v, {}, {})
  /\ UNCHANGED <<peer, sets, faults, failures>>

\* Mutant: the peer is marked syncing but the hash dump is never sent.
AddPeerNoSyncRequest(n, m) ==
  /\ peer[n][m] = "idle"
  /\ peer' = [peer EXCEPT ![n][m] = "syncing"]
  /\ UNCHANGED <<store, msgs, sets, refreshes, faults, origins, failures>>

\* addPeer: start a full sync by sending the hash dump; a failed peer is
\* retried this way.
AddPeer(n, m) ==
  /\ peer[n][m] = "idle"
  /\ peer' = [peer EXCEPT ![n][m] = "syncing"]
  /\ msgs' = msgs \cup {SyncRequest(n, m)}
  /\ UNCHANGED <<store, sets, refreshes, faults, origins, failures>>

\* delPeer: the peer is removed; nothing more is flooded to it and an answer
\* to its sync is dropped.  What it already sent is still merged.
DelPeer(n, m) ==
  /\ peer[n][m] # "deleted"
  /\ {n, m} \in FaultyLinks
  /\ faults < MaxFaults
  /\ faults' = faults + 1
  /\ peer' = [peer EXCEPT ![n][m] = "deleted"]
  /\ failures' = [failures EXCEPT ![n][m] = 0]
  /\ UNCHANGED <<store, msgs, sets, refreshes, origins>>

\* The sync with m times out (a soft failure): the peer is failed and the
\* sync is retried by a new addPeer.  Its answer may still be on the way.
SyncTimeout(n, m) ==
  /\ peer[n][m] = "syncing"
  /\ {n, m} \in FaultyLinks
  /\ faults < MaxFaults
  /\ faults' = faults + 1
  /\ peer' = [peer EXCEPT ![n][m] = "idle"]
  /\ UNCHANGED <<store, msgs, failures, sets, refreshes, origins>>

-----------------------------------------------------------------------------
(* Message handlers.                                                       *)

\* The keys of a hash dump the responder should be sent: it lacks them,
\* or holds another hash and its own value is not the better one.
ToBeUpdated(mine, theirs) ==
  {k \in DOMAIN theirs :
     \/ k \notin DOMAIN mine
     \/ /\ mine[k].hash # theirs[k].hash
        /\ CompareValues(mine[k], theirs[k]) # 1}

\* m answers a sync request with dumpDifference and the keys it wants.
HandleSyncRequest(msg) ==
  LET m == msg.to IN
  /\ msg.type = "syncReq"
  /\ msgs' = (msgs \ {msg}) \cup
       {[type |-> "syncResp", from |-> m, to |-> msg.from,
         keyVals |-> DumpDifference(store[m], msg.keyVals),
         wanted |-> ToBeUpdated(store[m], msg.keyVals)]}
  /\ UNCHANGED <<store, peer, sets, refreshes, faults, origins, failures>>

\* Mutant: the response establishes the peer whatever became of the sync.
HandleSyncResponseIgnoresState(msg) ==
  LET n == msg.to
      m == msg.from
      wanted == msg.wanted \cap DOMAIN store'[n]
  IN /\ msg.type = "syncResp"
     /\ peer' = [peer EXCEPT ![n][m] = "established"]
     /\ MergeAndFlood(n, m, msg.keyVals, {msg},
          IF wanted = {} THEN {} ELSE {Pub(n, m, [k \in wanted |-> store'[n][k]])})
     /\ UNCHANGED <<sets, refreshes, faults, origins, failures>>

\* n merges the response, sends the wanted values, and the peer is
\* established.  A response to a sync n has since abandoned is dropped.
HandleSyncResponse(msg) ==
  LET n == msg.to
      m == msg.from
      wanted == msg.wanted \cap DOMAIN store'[n]
  IN /\ msg.type = "syncResp"
     /\ IF peer[n][m] = "syncing"
        THEN /\ peer' = [peer EXCEPT ![n][m] = "established"]
             /\ MergeAndFlood(n, m, msg.keyVals, {msg},
                  IF wanted = {} THEN {}
                  ELSE {Pub(n, m, [k \in wanted |-> store'[n][k]])})
        ELSE /\ msgs' = msgs \ {msg}
             /\ UNCHANGED <<store, peer>>
     /\ UNCHANGED <<sets, refreshes, faults, origins, failures>>

\* A publication (flood or sync finalisation) is merged and re-flooded;
\* the sender's send succeeded, which ends its run of failures.
HandlePub(msg) ==
  /\ msg.type = "pub"
  /\ MergeAndFlood(msg.to, msg.from, msg.keyVals, {msg}, {})
  /\ failures' = [failures EXCEPT ![msg.from][msg.to] = 0]
  /\ UNCHANGED <<peer, sets, refreshes, faults, origins>>

\* The peering (n, m) fails: it is idle until a new sync, unless deleted.
PeerFailed(n, m) ==
  peer' = [peer EXCEPT ![n][m] = IF @ = "deleted" THEN @ ELSE "idle"]

\* The message is lost.  A lost sync request or answer fails the sync of
\* the node that started it.  A lost publication is one more failed send of
\* its sender; the K-th in a row fails the peering.
Lose(msg) ==
  LET n == msg.from
      m == msg.to
  IN /\ {n, m} \in FaultyLinks
     /\ faults < MaxFaults
     /\ faults' = faults + 1
     /\ msgs' = msgs \ {msg}
     /\ CASE msg.type = "syncResp" ->
               PeerFailed(m, n) /\ UNCHANGED failures
          [] msg.type = "syncReq" ->
               PeerFailed(n, m) /\ UNCHANGED failures
          [] msg.type = "pub" ->
               IF failures[n][m] + 1 >= MaxFailures
               THEN PeerFailed(n, m) /\ failures' = [failures EXCEPT ![n][m] = 0]
               ELSE UNCHANGED peer /\ failures' = [failures EXCEPT ![n][m] = @ + 1]
     /\ UNCHANGED <<store, sets, refreshes, origins>>

-----------------------------------------------------------------------------

Init ==
  /\ store = [n \in Nodes |-> <<>>]
  /\ peer = [n \in Nodes |-> [m \in Neighbours(n) |-> "idle"]]
  /\ msgs = {}
  /\ failures = [n \in Nodes |-> [m \in Neighbours(n) |-> 0]]
  /\ sets = 0 /\ refreshes = 0 /\ faults = 0
  /\ origins = {}

Next ==
  \/ \E n \in Nodes, k \in Keys, x \in Payloads : SetKey(n, k, x)
  \/ \E n \in Nodes, k \in Keys : RefreshTtl(n, k)
  \/ \E n \in Nodes : \E m \in Neighbours(n) : AddPeer(n, m) \/ DelPeer(n, m) \/ SyncTimeout(n, m)
  \/ \E msg \in msgs : HandleSyncRequest(msg)
  \/ \E msg \in msgs : HandleSyncResponse(msg)
  \/ \E msg \in msgs : HandlePub(msg)
  \/ \E msg \in msgs : Lose(msg)

\* Each store's loop handles what reaches it and retries a failed sync;
\* local sets and refreshes need not happen, and loss is bounded.
Fairness ==
  /\ \A n \in Nodes : \A m \in Neighbours(n) : WF_vars(peer[n][m] = "idle" /\ AddPeer(n, m))
  /\ WF_vars(\E msg \in msgs : HandleSyncRequest(msg))
  /\ WF_vars(\E msg \in msgs : HandleSyncResponse(msg))
  /\ WF_vars(\E msg \in msgs : HandlePub(msg))

Spec == Init /\ [][Next]_vars /\ Fairness

-----------------------------------------------------------------------------
(* Properties.                                                             *)

TypeOK ==
  /\ \A n \in Nodes : DOMAIN store[n] \subseteq Keys
  /\ \A n \in Nodes : \A m \in Neighbours(n) : peer[n][m] \in {"idle", "syncing", "established", "deleted"}
  /\ \A msg \in msgs : msg.type \in {"syncReq", "syncResp", "pub"} /\ msg.to \in Neighbours(msg.from)
  /\ \A n \in Nodes : \A m \in Neighbours(n) : failures[n][m] \in 0..(MaxFailures - 1)
  /\ faults <= MaxFaults /\ sets <= MaxSets /\ refreshes <= MaxRefresh
  /\ \A n \in Nodes : \A k \in DOMAIN store[n] : LET v == store[n][k] IN
       HasValue(v) => v.hash = GenerateHash(v.version, v.originatorId, v.value)

\* All stores hold the same keys with the same hash: they agree on
\* version, originator and payload identity, whatever their ttlVersions.
HashesConverged ==
  \A n, m \in Nodes :
    /\ DOMAIN store[n] = DOMAIN store[m]
    /\ \A k \in DOMAIN store[n] : store[n][k].hash = store[m][k].hash

\* Once sets and refreshes stop, flooding and full syncs bring every store
\* to the same keys and hashes.
EventuallyHashesConverged == <>[]HashesConverged

\* Every peering not deleted ends up established and stays so: a peering
\* failed by K lost sends, a lost sync message or a sync timeout is retried
\* by a new full sync, and a sync in progress completes, even when the
\* answer to an earlier attempt arrives during the retry.
EventuallyEstablished ==
  <>[](\A n \in Nodes : \A m \in Neighbours(n) : peer[n][m] \in {"established", "deleted"})

\* delPeer is final: a deleted peering stays deleted whatever is still on
\* the way, an answer to the sync it had started or a failed send to it.
DeletedPeerStaysDeleted ==
  [][\A n \in Nodes : \A m \in Neighbours(n) :
       peer[n][m] = "deleted" => peer'[n][m] = "deleted"]_vars

\* Every stored value, payload included, is one some node originated.
OnlyOriginatedValues ==
  \A n \in Nodes : \A k \in DOMAIN store[n] : <<k, store[n][k]>> \in origins

-----------------------------------------------------------------------------
(* Refinement: with payloads stripped, the stores implement the abstract   *)
(* replicated store, each replica moving only to better originated values. *)

\* The stripped values a local set or a refresh can originate.
AbsValues ==
  {[version |-> v, originatorId |-> o, value |-> NoValue, ttl |-> TtlInfinity,
    ttlVersion |-> t, hash |-> GenerateHash(v, o, x)] :
     v \in 1..MaxSets, o \in Nodes, x \in Payloads, t \in 0..MaxRefresh}

Abs == INSTANCE KvStoreAbstract WITH
         view <- [n \in Nodes |-> [k \in DOMAIN store[n] |-> StripValue(store[n][k])]],
         written <- {<<o[1], StripValue(o[2])>> : o \in origins},
         Values <- AbsValues

\* Each step of the flooding stores is a step of the abstract store: a
\* merge, whether of a local set, a flood, a sync response or a ttl-only
\* refresh, replaces a key's value only by a better originated one.
ImplementsAbstract == Abs!ASpec

=============================================================================
