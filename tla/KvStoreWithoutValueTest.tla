----------------------- MODULE KvStoreWithoutValueTest -----------------------
(***************************************************************************)
(* OpenrCtrlHandlerTest.subscribeAndGetKvStoreFilteredWithoutValue        *)
(* replayed against the KvStore model of the spine area: set key1 and     *)
(* key2, subscribe with an otherwise empty filter and doNotPublishValue,  *)
(* set key1 to a new payload at ttlVersion 2, spin until the callback has *)
(* seen it, cancel and spin until the publisher is gone.  The fixture's   *)
(* PrefixManager and LinkMonitor may write their own keys at any moment.  *)
(*                                                                         *)
(* Encoding: "key1" is <<1>>, "key2" <<2>>, a key of the node's own        *)
(* modules <<0>>; "node1" is 1 and this node 0; "value1" is 1, "value2" 2 *)
(* and "value_updated" 95, above "value1" as '_' (0x5f) is above '1'.     *)
(***************************************************************************)
EXTENDS KvStoreUtil

CONSTANTS
  Client,      \* the stream client
  QueueCap,    \* its stream buffer
  MaxOwnKeys   \* bound on writes by this node's PrefixManager/LinkMonitor

VARIABLES kvStore, ttlQueue, subState, subParams, stream, mirror, sets,
          pc,             \* the test thread's next step
          newUpdateSeen,  \* std::atomic<bool> newUpdateSeen
          failed,         \* some EXPECT/ASSERT of the test has failed
          ownKeys         \* writes made by the node's own modules

server == <<kvStore, ttlQueue, subState, subParams, stream, mirror, sets>>
test == <<pc, newUpdateSeen, failed, ownKeys>>
vars == <<server, test>>

\* createThriftValue(version, originatorId, value, ttl, ttlVersion)
CreateThriftValue(version, originatorId, value, ttl, ttlVersion) ==
  [version |-> version, originatorId |-> originatorId, value |-> value,
   ttl |-> ttl, ttlVersion |-> ttlVersion, hash |-> NoValue]

TestKey == <<1>>

KeyVals ==
  (<<1>> :> CreateThriftValue(1, 1, 1, 30000, 1)) @@
  (<<2>> :> CreateThriftValue(1, 1, 2, 30000, 1))

\* filter.ignoreTtl = false, filter.doNotPublishValue = true.
Filter == [keys |-> {}, originatorIds |-> {}, oper |-> "OR",
           ignoreTtl |-> FALSE, doNotPublishValue |-> TRUE]

\* thriftValue2: key1's value with payload "value_updated", ttl 50000 and
\* ttlVersion + 1.
ThriftValue2 ==
  [KeyVals[TestKey] EXCEPT !.value = 95, !.ttl = 50000, !.ttlVersion = @ + 1]

K == INSTANCE KvStore WITH Keys <- {<<0>>, <<1>>, <<2>>}, Values <- {},
                          Subscribers <- {Client}, Params <- {Filter},
                          MaxSets <- 2 + MaxOwnKeys

Publishers == Cardinality({c \in {Client} : subState[c] # "idle"})

-----------------------------------------------------------------------------
(* The test thread.                                                        *)

\* setKvStoreKeyVals(keyVals, kSpineAreaId)
SetKeys ==
  /\ pc = "set" /\ pc' = "subscribe"
  /\ K!SetKeyVals(KeyVals)
  /\ UNCHANGED <<newUpdateSeen, failed, ownKeys>>

\* The EXPECTs on the initial publication: two keys, each without value,
\* at version 1, ttl above 10000 and ttlVersion 1.
InitialPubOk(snap) ==
  /\ Cardinality(DOMAIN snap) = 2
  /\ \A k \in {<<1>>, <<2>>} :
       /\ k \in DOMAIN snap
       /\ ~HasValue(snap[k])
       /\ snap[k].version = 1 /\ snap[k].ttl > 10000 /\ snap[k].ttlVersion = 1

\* semifuture_subscribeAndGetAreaKvStores(filter, {spine}).get(), then
\* subscribeExTry and EXPECT_EQ(1, getNumKvStorePublishers()).
SubscribeClient ==
  /\ pc = "subscribe" /\ pc' = "update"
  /\ K!Subscribe(Client, Filter)
  /\ failed' = (failed \/ ~InitialPubOk(mirror'[Client]) \/ subState'[Client] = "idle")
  /\ UNCHANGED <<newUpdateSeen, ownKeys>>

\* kvStoreWrapper_->setKey(kSpineAreaId, test_key, thriftValue2)
UpdateKey ==
  /\ pc = "update" /\ pc' = "await"
  /\ K!SetKeyVals(TestKey :> ThriftValue2)
  /\ UNCHANGED <<newUpdateSeen, failed, ownKeys>>

\* while (not newUpdateSeen) yield
AwaitUpdate ==
  /\ pc = "await" /\ pc' = "cancel"
  /\ newUpdateSeen
  /\ UNCHANGED <<server, newUpdateSeen, failed, ownKeys>>

\* subscription.cancel(); detach()
CancelClient ==
  /\ pc = "cancel" /\ pc' = "drain"
  /\ K!ClientCancel(Client)
  /\ UNCHANGED <<newUpdateSeen, failed, ownKeys>>

\* while (getNumKvStorePublishers() != 0) yield
Drain ==
  /\ pc = "drain" /\ pc' = "done"
  /\ Publishers = 0
  /\ UNCHANGED <<server, newUpdateSeen, failed, ownKeys>>

-----------------------------------------------------------------------------
(* The other threads.                                                      *)

\* The subscribeExTry callback: ASSERT the publication holds test_key
\* (returning from the callback if not), set newUpdateSeen, ASSERT no
\* value and EXPECT ttlVersion 2.
Callback ==
  LET kv == Head(stream[Client]).keyVals IN
  /\ K!ClientReceive(Client)
  /\ IF TestKey \in DOMAIN kv
     THEN /\ newUpdateSeen' = TRUE
          /\ failed' = (failed \/ HasValue(kv[TestKey].value)
                               \/ kv[TestKey].value.ttlVersion # 2)
     ELSE /\ failed' = TRUE
          /\ UNCHANGED newUpdateSeen
  /\ UNCHANGED <<pc, ownKeys>>

\* The server runs the stream's cancel callback.
ServerTeardown ==
  /\ K!Teardown(Client)
  /\ UNCHANGED test

\* PrefixManager or LinkMonitor of this node writes one of its keys.
OwnKeyWrite ==
  /\ ownKeys < MaxOwnKeys
  /\ ownKeys' = ownKeys + 1
  /\ K!SetKeyVals(<<0>> :> CreateThriftValue(ownKeys + 1, 0, 0, TtlInfinity, 0))
  /\ UNCHANGED <<pc, newUpdateSeen, failed>>

Init ==
  /\ K!Init
  /\ pc = "set"
  /\ newUpdateSeen = FALSE
  /\ failed = FALSE
  /\ ownKeys = 0

TestStep ==
  SetKeys \/ SubscribeClient \/ UpdateKey \/ AwaitUpdate \/ CancelClient \/ Drain

Next == TestStep \/ Callback \/ ServerTeardown \/ OwnKeyWrite

\* The test thread spins, the client's event base runs the callback and
\* the server's loop the cancel callback; the node's own modules need not
\* write at all.
Spec ==
  /\ Init /\ [][Next]_vars
  /\ WF_vars(TestStep) /\ WF_vars(Callback) /\ WF_vars(ServerTeardown)

-----------------------------------------------------------------------------
(* Properties.                                                             *)

\* Every EXPECT and ASSERT of the test holds, whatever the node's own
\* modules write while the test runs.
ExpectationsHold == ~failed

\* The purpose of the test: with doNotPublishValue, neither the initial
\* publication nor any streamed publication, of whichever key, carries a
\* payload, including a full update of key1 that changes its payload.
NoValueSeen ==
  /\ \A k \in DOMAIN mirror[Client] : ~HasValue(mirror[Client][k])
  /\ \A i \in 1..Len(stream[Client]) :
       \A k \in DOMAIN stream[Client][i].keyVals :
         ~HasValue(stream[Client][i].keyVals[k].value)

\* Both spin-waits end: the update reaches the callback and the cancel
\* reaches the server.
TestTerminates == <>(pc = "done")

=============================================================================
