------------------------- MODULE KvStoreSubscribeTest -------------------------
(***************************************************************************)
(* OpenrCtrlHandlerTest.subscribeAndGetKvStoreFilteredWithKeysNoTtlUpdate *)
(* replayed against the KvStore model of the spine area.                   *)
(*                                                                         *)
(* The test thread runs a script: synchronous sets, subscribes and gets,  *)
(* spin-waits on the shared "received" counter and on the number of       *)
(* publishers.  Each subscription's subscribeExTry callback runs on its   *)
(* own event base and consumes the stream one publication at a time; the  *)
(* cancel callback tears the publisher down on the server later.  The     *)
(* fixture also runs PrefixManager and LinkMonitor, which may write their *)
(* own keys into the area at any moment ("there may be extra keys").       *)
(*                                                                         *)
(* Encoding: "keyN..." is the digit sequence <<N, ...>>; "snoop-key" is   *)
(* <<5>>, "random_key" <<6>>, "test-key" <<7>>, "random-prefix" <<8>>,    *)
(* "random-prefix-2" <<8, 2>>, "test_key" <<9>>, a key of this node's own *)
(* modules <<0>>.  "nodeN" is N and this node is 0; "valueX" is X,        *)
(* "value_random" 6.                                                       *)
(***************************************************************************)
EXTENDS KvStoreUtil

CONSTANTS
  C1, C2,      \* the two stream clients a block may open
  QueueCap,    \* per-subscriber stream buffer
  MaxSets,     \* bound on set calls (the script's and the background's)
  MaxOwnKeys   \* bound on writes by this node's PrefixManager/LinkMonitor

VARIABLES kvStore, ttlQueue, subState, subParams, stream, mirror, sets,
          pc,        \* index of the test thread's next script step
          received,  \* the block's std::atomic<int> received
          watch,     \* client -> the subscribe step it was opened by
          failed,    \* some EXPECT/ASSERT of the test has failed
          ownKeys    \* writes made by the node's own modules

Clients == {C1, C2}

server == <<kvStore, ttlQueue, subState, subParams, stream, mirror, sets>>
test == <<pc, received, watch, failed, ownKeys>>
vars == <<server, test>>

\* createThriftValue(version, originatorId, value[, ttl, ttlVersion])
CreateThriftValue(version, originatorId, value, ttl, ttlVersion) ==
  [version |-> version, originatorId |-> originatorId, value |-> value,
   ttl |-> ttl, ttlVersion |-> ttlVersion, hash |-> NoValue]

Val(version, originatorId, value) ==
  CreateThriftValue(version, originatorId, value, TtlInfinity, 0)

\* Default KeyDumpParams: no keys, no originators, oper OR.
EmptyParams == [keys |-> {}, originatorIds |-> {}, oper |-> "OR",
                ignoreTtl |-> FALSE, doNotPublishValue |-> FALSE]

KeyDumpParams(keys, originatorIds, oper) ==
  [EmptyParams EXCEPT !.keys = keys, !.originatorIds = originatorIds, !.oper = oper]

Spine == {<<1>>, <<1, 1>>, <<1, 1, 1>>, <<2>>, <<2, 2>>, <<2, 2, 2>>,
          <<3>>, <<3, 3>>, <<3, 3, 3>>}
AllKeys == Spine \cup {<<0>>, <<4>>, <<5>>, <<6>>, <<7>>, <<8>>, <<8, 2>>, <<9>>}

\* keyVals of the test: version 1, ttl 30000, ttlVersion 1.
SpineKeyVals ==
  LET v(o, x) == CreateThriftValue(1, o, x, 30000, 1) IN
  (<<1>> :> v(1, 1)) @@ (<<1, 1>> :> v(1, 11)) @@ (<<1, 1, 1>> :> v(1, 111)) @@
  (<<2>> :> v(1, 2)) @@ (<<2, 2>> :> v(1, 22)) @@ (<<2, 2, 2>> :> v(1, 222)) @@
  (<<3>> :> v(3, 3)) @@ (<<3, 3>> :> v(33, 33)) @@ (<<3, 3, 3>> :> v(33, 333))

-----------------------------------------------------------------------------
(* Script steps.                                                           *)

Set(keyVals) == [op |-> "set", keyVals |-> keyVals]
SetKey(k, v) == Set(k :> v)
SetOtherArea == [op |-> "setOther"]
Get(k, version, value) == [op |-> "get", key |-> k, version |-> version, value |-> value]
Begin == [op |-> "begin"]
\* A subscribe with the params the test passes and the filter it built;
\* watched: key -> expected payload the callback checks and counts;
\* versionBase: the callback also checks version = received + versionBase.
Subscribe(c, filter, watched, versionBase, minSize, present, absent, exact) ==
  [op |-> "subscribe", client |-> c, passed |-> EmptyParams, filter |-> filter,
   watched |-> watched, versionBase |-> versionBase, minSize |-> minSize,
   present |-> present, absent |-> absent, exact |-> exact]
Publishers(n) == [op |-> "publishers", n |-> n]
Await(n) == [op |-> "await", n |-> n]
Cancel(c) == [op |-> "cancel", client |-> c]
Drain == [op |-> "drain"]

NoCheck == -1
\* The originator list most blocks filter on: node1, node2, node3, node33.
Nodes == {1, 2, 3, 33}

\* Lines 713-828: spine keys, snoop-key set four times and read back,
\* an unfiltered subscription, versions 4, 4, 5, 6 in the spine and 7, 8
\* in the pod and plane areas; three updates are awaited.
SnoopBlock ==
  << Set(SpineKeyVals),
     SetKey(<<5>>, Val(1, 1, 1)), SetKey(<<5>>, Val(1, 1, 1)),
     SetKey(<<5>>, Val(2, 1, 1)), SetKey(<<5>>, Val(3, 1, 1)),
     Get(<<5>>, 3, 1),
     Begin,
     Subscribe(C1, EmptyParams, <<5>> :> 1, 4, 10, {<<5>>}, {},
               <<5>> :> WithHash(Val(3, 1, 1))),
     Publishers(1),
     SetKey(<<5>>, Val(4, 1, 1)), SetKey(<<5>>, Val(4, 1, 1)),
     SetKey(<<5>>, Val(5, 1, 1)), SetKey(<<5>>, Val(6, 1, 1)),
     SetOtherArea, SetOtherArea,
     Await(3), Cancel(C1), Drain >>

\* Lines 830-940: two clients, AND filter on {key4, random_key}; both
\* keys are new.
TwoClientsBlock ==
  LET f == KeyDumpParams({<<4>>, <<6>>}, Nodes, "AND") IN
  << Begin,
     Subscribe(C1, f, <<4>> :> 4, NoCheck, 0, {}, {<<4>>}, <<>>),
     Subscribe(C2, f, <<6>> :> 6, NoCheck, 0, {}, {<<4>>}, <<>>),
     Publishers(2),
     SetKey(<<4>>, Val(1, 1, 4)), SetKey(<<6>>, Val(1, 1, 6)),
     Await(2), Cancel(C1), Cancel(C2), Drain >>

\* Lines 942-1010: AND filter on key33; key333 is in the snapshot and is
\* set again.
AndSnapshotBlock ==
  << Begin,
     Subscribe(C1, KeyDumpParams({<<3, 3>>}, Nodes, "AND"), <<3, 3, 3>> :> 333,
               NoCheck, 2, {<<3, 3, 3>>}, {}, <<>>),
     Publishers(1),
     SetKey(<<3, 3, 3>>, Val(2, 33, 333)),
     Await(1), Cancel(C1), Drain >>

\* Lines 1012-1094: OR filter on the regex key33.*.
RegexOrBlock ==
  << Begin,
     Subscribe(C1, KeyDumpParams({<<3, 3>>}, Nodes, "OR"),
               (<<3, 3>> :> 33) @@ (<<3, 3, 3>> :> 333),
               NoCheck, 2, {<<3, 3>>, <<3, 3, 3>>}, {}, <<>>),
     Publishers(1),
     SetKey(<<3, 3, 3>>, Val(3, 33, 333)), SetKey(<<3, 3>>, Val(3, 33, 33)),
     Await(2), Cancel(C1), Drain >>

\* Lines 1096-1192: AND filter on {key1, test-key, key3}.
AndMultiBlock ==
  << Begin,
     Subscribe(C1, KeyDumpParams({<<1>>, <<7>>, <<3>>}, Nodes, "AND"),
               (<<1>> :> 1) @@ (<<3>> :> 3) @@ (<<7>> :> 1),
               NoCheck, 3, {<<1>>, <<3>>}, {<<7>>}, <<>>),
     Publishers(1),
     SetKey(<<7>>, Val(4, 1, 1)), SetKey(<<1>>, Val(4, 1, 1)),
     SetKey(<<3>>, Val(4, 3, 3)),
     Await(3), Cancel(C1), Drain >>

\* Lines 1194-1295: OR filter on {key1, test-key, key3}; random-prefix
\* matches by originator only.
OrOriginatorBlock ==
  << Begin,
     Subscribe(C1, KeyDumpParams({<<1>>, <<7>>, <<3>>}, Nodes, "OR"),
               (<<1>> :> 1) @@ (<<3>> :> 3) @@ (<<7>> :> 1) @@ (<<8>> :> 1),
               NoCheck, 3, {<<7>>, <<1>>, <<3>>}, {}, <<>>),
     Publishers(1),
     SetKey(<<7>>, Val(5, 1, 1)), SetKey(<<1>>, Val(5, 1, 1)),
     SetKey(<<3>>, Val(5, 3, 3)), SetKey(<<8>>, Val(1, 1, 1)),
     Await(4), Cancel(C1), Drain >>

\* Lines 1297-1354: AND filter on node10; test_key comes from node10.
NoOriginatorAndBlock ==
  << Begin,
     Subscribe(C1, KeyDumpParams({<<1>>, <<2>>, <<3>>, <<9>>}, {10}, "AND"),
               <<9>> :> 1, NoCheck, 0, {}, {}, <<>>),
     Publishers(1),
     SetKey(<<9>>, Val(10, 10, 1)),
     Await(1), Cancel(C1), Drain >>

\* Lines 1356-1444: OR filter on node10, "matching is based on prefix
\* keys only": random-prefix-2 is not expected to match.
NoOriginatorOrBlock ==
  << Begin,
     Subscribe(C1, KeyDumpParams({<<1>>, <<2>>, <<3>>, <<9>>}, {10}, "OR"),
               (<<1>> :> 1) @@ (<<2>> :> 2) @@ (<<3>> :> 3) @@ (<<9>> :> 1)
                 @@ (<<8, 2>> :> 1),
               NoCheck, 0, {}, {}, <<>>),
     Publishers(1),
     SetKey(<<1>>, Val(20, 1, 1)), SetKey(<<2>>, Val(20, 2, 2)),
     SetKey(<<3>>, Val(20, 3, 3)), SetKey(<<9>>, Val(20, 1, 1)),
     SetKey(<<8, 2>>, Val(20, 1, 1)),
     Await(4), Cancel(C1), Drain >>

Script ==
  SnoopBlock \o TwoClientsBlock \o AndSnapshotBlock \o RegexOrBlock
    \o AndMultiBlock \o OrOriginatorBlock \o NoOriginatorAndBlock
    \o NoOriginatorOrBlock

K == INSTANCE KvStore WITH Keys <- AllKeys, Values <- {}, Subscribers <- Clients,
                          Params <- {EmptyParams}

-----------------------------------------------------------------------------
(* The test thread: one action per kind of step.                           *)

Step == Script[pc]

\* setKvStoreKeyVals / kvStoreWrapper_->setKey: synchronous.
DoSet ==
  /\ Step.op = "set"
  /\ K!SetKeyVals(Step.keyVals)
  /\ UNCHANGED <<received, watch, failed, ownKeys>>

\* A setKey into the pod or plane area: the spine store is untouched.
DoSetOtherArea ==
  /\ Step.op = "setOther"
  /\ UNCHANGED <<server, received, watch, failed, ownKeys>>

\* getKvStoreKeyValsArea with one key: exactly that key, at the expected
\* version and payload.
DoGet ==
  /\ Step.op = "get"
  /\ failed' = (failed \/ Step.key \notin DOMAIN kvStore
                        \/ kvStore[Step.key].version # Step.version
                        \/ kvStore[Step.key].value # Step.value)
  /\ UNCHANGED <<server, received, watch, ownKeys>>

\* A new block: std::atomic<int> received{0}.
DoBegin ==
  /\ Step.op = "begin"
  /\ received' = 0
  /\ UNCHANGED <<server, watch, failed, ownKeys>>

\* The EXPECTs of the test on the initial snapshot.
SnapshotOk(st, snap) ==
  /\ Cardinality(DOMAIN snap) >= st.minSize
  /\ st.present \subseteq DOMAIN snap
  /\ st.absent \cap DOMAIN snap = {}
  /\ \A k \in DOMAIN st.exact : k \in DOMAIN snap /\ snap[k] = st.exact[k]

\* semifuture_subscribeAndGetAreaKvStores(...).get() and subscribeExTry.
DoSubscribe ==
  /\ Step.op = "subscribe"
  /\ K!Subscribe(Step.client, Step.passed)
  /\ watch' = [watch EXCEPT ![Step.client] = Step]
  /\ failed' = (failed \/ ~SnapshotOk(Step, mirror'[Step.client]))
  /\ UNCHANGED <<received, ownKeys>>

\* EXPECT_EQ(n, handler->getNumKvStorePublishers())
DoPublishers ==
  /\ Step.op = "publishers"
  /\ failed' = (failed \/ Cardinality({c \in Clients : subState[c] # "idle"}) # Step.n)
  /\ UNCHANGED <<server, received, watch, ownKeys>>

\* while (received < n) yield
DoAwait ==
  /\ Step.op = "await"
  /\ received >= Step.n
  /\ UNCHANGED <<server, received, watch, failed, ownKeys>>

\* subscription.cancel(); detach()
DoCancel ==
  /\ Step.op = "cancel"
  /\ K!ClientCancel(Step.client)
  /\ UNCHANGED <<received, watch, failed, ownKeys>>

\* while (handler->getNumKvStorePublishers() != 0) yield
DoDrain ==
  /\ Step.op = "drain"
  /\ \A c \in Clients : subState[c] = "idle"
  /\ UNCHANGED <<server, received, watch, failed, ownKeys>>

TestStep ==
  /\ pc <= Len(Script)
  /\ pc' = pc + 1
  /\ \/ DoSet \/ DoSetOtherArea \/ DoGet \/ DoBegin \/ DoSubscribe
     \/ DoPublishers \/ DoAwait \/ DoCancel \/ DoDrain

-----------------------------------------------------------------------------
(* The other threads.                                                      *)

\* The subscribeExTry callback: skip a publication without a watched key;
\* for each watched key in it, EXPECT one key, the expected payload (and
\* for the snoop block version received + 4), then received++.
Callback(c) ==
  LET kv == Head(stream[c]).keyVals
      w == watch[c]
      hits == DOMAIN kv \cap DOMAIN w.watched
      ok(k) == /\ Cardinality(DOMAIN kv) = 1
               /\ kv[k].value.value = w.watched[k]
               /\ w.versionBase # NoCheck => kv[k].value.version = received + w.versionBase
  IN /\ K!ClientReceive(c)
     /\ received' = received + Cardinality(hits)
     /\ failed' = (failed \/ \E k \in hits : ~ok(k))
     /\ UNCHANGED <<pc, watch, ownKeys>>

\* The server runs the stream's cancel callback.
ServerTeardown(c) ==
  /\ K!Teardown(c)
  /\ UNCHANGED test

\* PrefixManager or LinkMonitor of this node writes one of its keys.
OwnKeyWrite ==
  /\ ownKeys < MaxOwnKeys
  /\ ownKeys' = ownKeys + 1
  /\ K!SetKeyVals(<<0>> :> Val(ownKeys + 1, 0, 0))
  /\ UNCHANGED <<pc, received, watch, failed>>

Init ==
  /\ K!Init
  /\ pc = 1
  /\ received = 0
  /\ watch = [c \in Clients |-> Begin]
  /\ failed = FALSE
  /\ ownKeys = 0

Next ==
  \/ TestStep
  \/ \E c \in Clients : Callback(c)
  \/ \E c \in Clients : ServerTeardown(c)
  \/ OwnKeyWrite

\* The test thread spins, each event base runs its callbacks, and the
\* server's loop runs the cancel callback; the node's own modules need
\* not write at all.
Spec ==
  /\ Init /\ [][Next]_vars
  /\ WF_vars(TestStep)
  /\ \A c \in Clients : WF_vars(Callback(c)) /\ WF_vars(ServerTeardown(c))

-----------------------------------------------------------------------------
(* Properties.                                                             *)

\* Every EXPECT and ASSERT of the test holds, whatever the interleaving of
\* the callbacks, the teardowns and the node's own writes with the test
\* thread: the snapshot contents, the one-key publications, the payloads,
\* the snoop-key versions 4, 5, 6 (the repeated set of version 4 is not
\* published again), the publisher counts.
ExpectationsHold == ~failed

\* Every spin-wait of the test ends: all awaited updates reach the
\* callbacks and every cancelled publisher is destroyed.
TestTerminates == <>(pc > Len(Script))

=============================================================================
