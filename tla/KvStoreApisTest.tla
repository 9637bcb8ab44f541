---------------------------- MODULE KvStoreApisTest ----------------------------
(***************************************************************************)
(* OpenrCtrlHandlerTest.KvStoreApis replayed against the stores of the     *)
(* node's three areas: sets per area, key gets, filtered dumps and hash    *)
(* dumps (getKvStoreKeyValsFilteredArea, getKvStoreHashFilteredArea), and  *)
(* the peer API (addPeer, delPeer, getKvStorePeersArea).  Every call is    *)
(* synchronous; the only concurrency is the node's own PrefixManager and  *)
(* LinkMonitor, which may write their keys into any area at any moment.   *)
(* The DUAL and flood-topology calls (lines 524-555) are not replayed: no  *)
(* spanning-tree code is modelled.                                         *)
(*                                                                         *)
(* Encoding: "key" followed by digits is the digit sequence, "keyP..." the *)
(* ASCII codes of its letters (P 80, o 111, l 108) then the digit, so      *)
(* "keyP" is a prefix of "keyPod1" and "keyPl" of "keyPlane1"; a key of    *)
(* the node's own modules is <<0>>.  "nodeN" is N and this node is 0;      *)
(* "valueX" is X, "valuePodN" 80+N and "valuePlaneN" 90+N.  "peerN" is N.  *)
(***************************************************************************)
EXTENDS KvStoreUtil

CONSTANTS MaxOwnKeys  \* bound on writes by this node's own modules

VARIABLES
  store,    \* area -> key -> value
  peers,    \* area -> the peers added to the area
  pc,       \* the test thread's next step
  failed,   \* some EXPECT of the test has failed
  ownKeys   \* writes made by the node's own modules

vars == <<store, peers, pc, failed, ownKeys>>

Areas == {"spine", "pod", "plane"}

\* createThriftValue(version, originatorId, value): infinite ttl,
\* ttlVersion 0, and the generated hash.
CreateThriftValue(version, originatorId, value) ==
  [version |-> version, originatorId |-> originatorId, value |-> value,
   ttl |-> TtlInfinity, ttlVersion |-> 0,
   hash |-> GenerateHash(version, originatorId, value)]

KeyValsSpine ==
  LET v(o, x) == CreateThriftValue(1, o, x) IN
  (<<1>> :> v(1, 1)) @@ (<<1, 1>> :> v(1, 11)) @@ (<<1, 1, 1>> :> v(1, 111)) @@
  (<<2>> :> v(1, 2)) @@ (<<2, 2>> :> v(1, 22)) @@ (<<2, 2, 2>> :> v(1, 222)) @@
  (<<3>> :> v(3, 3)) @@ (<<3, 3>> :> v(33, 33)) @@ (<<3, 3, 3>> :> v(33, 333))

KeyValsPod ==
  (<<80, 111, 1>> :> CreateThriftValue(1, 1, 81)) @@
  (<<80, 111, 2>> :> CreateThriftValue(1, 1, 82))

KeyValsPlane ==
  (<<80, 108, 1>> :> CreateThriftValue(1, 1, 91)) @@
  (<<80, 108, 2>> :> CreateThriftValue(1, 1, 92))

\* KeyDumpParams with keys and originatorIds, oper left at its default OR
\* (the legacy prefix the test also sets equals the one key given).
Params(keys, originatorIds) == KvStoreFilters(keys, originatorIds, "OR")

\* The test's keyVals restricted to ks, as the test expects them back.
Expect(kv, ks) == Restrict(kv, ks)
\* ... and with the payload reset, as a hash dump returns them.
ExpectHashes(kv, ks) == [k \in ks |-> StripValue(kv[k])]

-----------------------------------------------------------------------------
(* The script: one record per call of the test.                           *)

Set(area, kv) == [op |-> "set", area |-> area, keyVals |-> kv]
Get(area, keys, size, expect) ==
  [op |-> "get", area |-> area, keys |-> keys, size |-> size, expect |-> expect]
Dump(area, params, size, expect) ==
  [op |-> "dump", area |-> area, params |-> params, size |-> size, expect |-> expect]
HashDump(area, params, size, expect) ==
  [op |-> "hashDump", area |-> area, params |-> params, size |-> size, expect |-> expect]
AddPeers(area, ps) == [op |-> "addPeers", area |-> area, peers |-> ps]
DelPeer(area, p) == [op |-> "delPeer", area |-> area, peer |-> p]
GetPeers(area, expect) == [op |-> "getPeers", area |-> area, expect |-> expect]

Key3s == {<<3>>, <<3, 3>>, <<3, 3, 3>>}
PlaneKeys == {<<80, 108, 1>>, <<80, 108, 2>>}

Script ==
  << \* lines 446-451: key set
     Set("spine", KeyValsSpine), Set("pod", KeyValsPod), Set("plane", KeyValsPlane),
     \* lines 453-461, 463-471: gets
     Get("spine", {<<1, 1>>, <<2>>}, 2, Expect(KeyValsSpine, {<<1, 1>>, <<2>>})),
     Get("pod", {<<80, 111, 1>>}, 1, Expect(KeyValsPod, {<<80, 111, 1>>})),
     \* lines 473-485, 487-500: filtered dumps with the legacy prefix
     Dump("spine", Params({<<3>>}, {3}), 3, Expect(KeyValsSpine, Key3s)),
     Dump("plane", Params({<<80>>}, {1}), 2, KeyValsPlane),
     \* lines 502-519: hash dump
     HashDump("spine", Params({<<3>>}, {3}), 3, ExpectHashes(KeyValsSpine, Key3s)),
     \* lines 569-584: peers of spine and pod
     AddPeers("spine", {1, 2, 3}), AddPeers("pod", {11, 21}),
     GetPeers("spine", {1, 2, 3}),
     \* lines 586-594, 596-603, 605-613
     DelPeer("spine", 2), GetPeers("spine", {1, 3}),
     GetPeers("pod", {11, 21}),
     DelPeer("pod", 21), GetPeers("pod", {11}),
     \* lines 618-640: keys instead of prefix, three sub-tests
     Dump("spine", Params({<<3>>}, {3}), 3, Expect(KeyValsSpine, Key3s)),
     Dump("spine", Params({<<3, 3>>}, {33}), 2,
          Expect(KeyValsSpine, {<<3, 3>>, <<3, 3, 3>>})),
     Dump("spine", Params({<<3, 3, 3>>}, {33}), 2,
          Expect(KeyValsSpine, {<<3, 3, 3>>})),
     \* lines 644-655: plane with keys keyP and keyPl
     Dump("plane", Params({<<80>>, <<80, 108>>}, {1}), 2, KeyValsPlane),
     \* lines 659-678: hash dump with keys
     HashDump("spine", Params({<<3>>}, {3}), 3, ExpectHashes(KeyValsSpine, Key3s)) >>

Step == Script[pc]

\* EXPECT_EQ(size, pub.keyVals.size()) and EXPECT_EQ(expected, pub[key]).
PubOk(pub, st) ==
  /\ Cardinality(DOMAIN pub) = st.size
  /\ \A k \in DOMAIN st.expect : k \in DOMAIN pub /\ pub[k] = st.expect[k]

-----------------------------------------------------------------------------
(* The test thread.                                                        *)

\* setKvStoreKeyVals(keyVals, area): merge without filter.
DoSet ==
  /\ Step.op = "set"
  /\ store' = [store EXCEPT ![Step.area] =
                 MergeKeyValues(@, Step.keyVals, NoFilter).kvStore]
  /\ UNCHANGED <<peers, failed, ownKeys>>

\* getKvStoreKeyValsArea(keys, area): the stored values of those keys.
DoGet ==
  /\ Step.op = "get"
  /\ failed' = (failed \/ ~PubOk(Restrict(store[Step.area], Step.keys \cap DOMAIN store[Step.area]), Step))
  /\ UNCHANGED <<store, peers, ownKeys>>

\* getKvStoreKeyValsFilteredArea(params, area): dumpAllWithFilters.
DoDump ==
  /\ Step.op = "dump"
  /\ failed' = (failed \/ ~PubOk(DumpAllWithFilters(store[Step.area], Step.params, FALSE), Step))
  /\ UNCHANGED <<store, peers, ownKeys>>

\* getKvStoreHashFilteredArea(params, area): dumpHashWithFilters.
DoHashDump ==
  /\ Step.op = "hashDump"
  /\ failed' = (failed \/ ~PubOk(DumpHashWithFilters(store[Step.area], Step.params), Step))
  /\ UNCHANGED <<store, peers, ownKeys>>

\* kvStoreWrapper_->addPeer(area, name, spec) for each peer.
DoAddPeers ==
  /\ Step.op = "addPeers"
  /\ peers' = [peers EXCEPT ![Step.area] = @ \cup Step.peers]
  /\ UNCHANGED <<store, failed, ownKeys>>

\* kvStoreWrapper_->delPeer(area, name)
DoDelPeer ==
  /\ Step.op = "delPeer"
  /\ peers' = [peers EXCEPT ![Step.area] = @ \ {Step.peer}]
  /\ UNCHANGED <<store, failed, ownKeys>>

\* getKvStorePeersArea(area): size and every expected peer.
DoGetPeers ==
  /\ Step.op = "getPeers"
  /\ failed' = (failed \/ peers[Step.area] # Step.expect)
  /\ UNCHANGED <<store, peers, ownKeys>>

TestStep ==
  /\ pc <= Len(Script)
  /\ pc' = pc + 1
  /\ \/ DoSet \/ DoGet \/ DoDump \/ DoHashDump
     \/ DoAddPeers \/ DoDelPeer \/ DoGetPeers

\* PrefixManager or LinkMonitor of this node writes one of its keys into
\* an area.
OwnKeyWrite ==
  /\ ownKeys < MaxOwnKeys
  /\ ownKeys' = ownKeys + 1
  /\ \E a \in Areas :
       store' = [store EXCEPT ![a] =
                   MergeKeyValues(@, <<0>> :> CreateThriftValue(ownKeys + 1, 0, 0), NoFilter).kvStore]
  /\ UNCHANGED <<peers, pc, failed>>

Init ==
  /\ store = [a \in Areas |-> <<>>]
  /\ peers = [a \in Areas |-> {}]
  /\ pc = 1
  /\ failed = FALSE
  /\ ownKeys = 0

Next == TestStep \/ OwnKeyWrite

\* The test thread runs to its end; the node's own modules need not write.
Spec == Init /\ [][Next]_vars /\ WF_vars(TestStep)

-----------------------------------------------------------------------------
(* Properties.                                                             *)

\* Every EXPECT of the test holds, whatever the node's own modules write
\* and when: the key filters, the OR of key and originator criteria and
\* the payload stripping of hash dumps return exactly the expected keys.
ExpectationsHold == ~failed

=============================================================================
