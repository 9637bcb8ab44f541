------------------------- MODULE KvStoreTtlUpdateTest -------------------------
(***************************************************************************)
(* The first half of OpenrCtrlHandlerTest's                                *)
(* subscribeAndGetKvStoreFilteredWithKeysTtlUpdateOption, replayed against *)
(* the KvStore model: set the spine keys, send a hash-only TTL refresh of   *)
(* key1 (ttlVersion 5, hash 0), subscribe with keys {key1}, originator     *)
(* node1, AND, then send a second refresh (ttlVersion 6, ttl 50000).       *)
(*                                                                         *)
(* Keys are digit strings: "key1" is <<1>>, "key11" <<1, 1>>, and so on.   *)
(* Originator "nodeN" is the number N; payload "valueX" is X.              *)
(***************************************************************************)
EXTENDS KvStoreUtil

CONSTANTS Client

VARIABLES kvStore, ttlQueue, subState, subParams, stream, mirror, sets, pc

Filter == [keys |-> {<<1>>}, originatorIds |-> {1}, oper |-> "AND",
           ignoreTtl |-> FALSE, doNotPublishValue |-> FALSE]

K == INSTANCE KvStore WITH Keys <- {}, Values <- {}, Subscribers <- {Client},
                          Params <- {Filter}, QueueCap <- 4, MaxSets <- 3

\* createThriftValue(version, originatorId, value, ttl, ttlVersion, hash);
\* a hash left out is generated by the store.
CreateThriftValue(version, originatorId, value, ttl, ttlVersion, hash) ==
  [version |-> version, originatorId |-> originatorId, value |-> value,
   ttl |-> ttl, ttlVersion |-> ttlVersion, hash |-> hash]

\* keyVals of the test: every key at version 1, ttl 30000, ttlVersion 1.
TestKeyVals ==
  LET v(o, x) == CreateThriftValue(1, o, x, 30000, 1, NoValue) IN
  (<<1>> :> v(1, 1)) @@ (<<1, 1>> :> v(1, 11)) @@ (<<1, 1, 1>> :> v(1, 111)) @@
  (<<2>> :> v(1, 2)) @@ (<<2, 2>> :> v(1, 22)) @@ (<<2, 2, 2>> :> v(1, 222)) @@
  (<<3>> :> v(3, 3)) @@ (<<3, 3>> :> v(33, 33)) @@ (<<3, 3, 3>> :> v(33, 333))

\* The hash 0 the test passes: equal to no digest of a version >= 1.
ZeroHash == GenerateHash(0, 0, 0)

\* The refresh of key1: value reset, hash 0, at a given ttl/ttlVersion.
TtlRefresh(ttl, ttlVersion) == CreateThriftValue(1, 1, NoValue, ttl, ttlVersion, ZeroHash)

Init == K!Init /\ pc = "set"

SetKeys ==
  /\ pc = "set" /\ pc' = "refresh5"
  /\ K!SetKeyVals(TestKeyVals)

RefreshBeforeSubscribe ==
  /\ pc = "refresh5" /\ pc' = "subscribe"
  /\ K!SetKeyVals(<<1>> :> TtlRefresh(30000, 5))

SubscribeClient ==
  /\ pc = "subscribe" /\ pc' = "refresh6"
  /\ K!Subscribe(Client, Filter)

RefreshAfterSubscribe ==
  /\ pc = "refresh6" /\ pc' = "receive"
  /\ K!SetKeyVals(<<1>> :> TtlRefresh(50000, 6))

Receive ==
  /\ pc = "receive" /\ pc' = "done"
  /\ K!ClientReceive(Client)

Next == SetKeys \/ RefreshBeforeSubscribe \/ SubscribeClient
          \/ RefreshAfterSubscribe \/ Receive

Spec == Init /\ [][Next]_<<kvStore, ttlQueue, subState, subParams, stream, mirror, sets, pc>>

\* The test's expectations on the initial snapshot (key1 keeps its payload,
\* version 1 and now shows ttlVersion 5) and on the stream (a ttl-only
\* publication of key1 at ttlVersion 6, without payload, alone).
TtlRefreshSeenByClient ==
  /\ pc \in {"refresh6", "receive"} =>
       /\ <<1>> \in DOMAIN mirror[Client]
       /\ HasValue(mirror[Client][<<1>>])
       /\ mirror[Client][<<1>>].version = 1
       /\ mirror[Client][<<1>>].ttlVersion = 5
       /\ {<<1, 1>>, <<1, 1, 1>>} \subseteq DOMAIN mirror[Client]
       /\ <<2>> \notin DOMAIN mirror[Client]
  /\ pc = "receive" =>
       /\ Len(stream[Client]) = 1
       /\ DOMAIN Head(stream[Client]).keyVals = {<<1>>}
       /\ Head(stream[Client]).keyVals[<<1>>].value.ttlVersion = 6
       /\ ~HasValue(Head(stream[Client]).keyVals[<<1>>].value)

=============================================================================
