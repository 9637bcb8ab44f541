# TLA+ models of the Open/R KvStore

This directory holds TLA+ models of the Open/R KvStore and the TLC configurations that check them. The KvStore is the replicated, eventually-consistent key-value store that Open/R uses to spread link-state information. The models cover two kinds of code:

- the store's value algebra, declared in `src/openr/kvstore/KvStoreUtil.h`;
- the stream/snapshot behaviour exercised by the KvStore tests in `src/openr/ctrl-server/tests/OpenrCtrlHandlerTest.cpp`;
- `OpenrCtrlHandler.cpp`, which the same file carries after the tests (lines 1903-2087): the thrift handler that authorizes each call and forwards `command()` requests to the daemon's modules over ZMQ.

The bodies of `mergeKeyValues`, `compareValues`, the dump helpers, the TTL countdown and the publisher registry are not under `src/`: the header only declares them. Those definitions are translated from `spec.md` and are marked `spec_modelled` in `PROJECT.json`. So are the KvStore and KvStoreFlood actions for a set, a subscribe, a publication from a peer and a peer add or delete: the tests only call them, so their effect comes from the spec. Everything the header and the tests pin down (signatures, return codes, filter attributes, no-merge reasons, and the tests' calls and expectations) is translated from the source.

## The system

Each process runs one store per area, on one event loop. A store has these parts:

| part | what it does | where |
|---|---|---|
| Value table | key -> `thrift::Value` (version, originatorId, payload, ttl, ttlVersion, hash) | spec 3 |
| Merge engine | `mergeKeyValues(kvStore, keyVals, filters)` applies a batch. `compareValues` decides each key: 1 / -1 / 0 / -2. Rejections are counted in `KvStoreNoMergeReasonStats`. | `KvStoreUtil.h:162-227` |
| Filters | `KvStoreFilters`: key regexes, originator set, AND / OR | `KvStoreUtil.h:19-58` |
| Dumps | `dumpAllWithFilters`, `dumpHashWithFilters`, `dumpDifference` | `KvStoreUtil.h:229-247` |
| TTL scheduler | countdown queue of (deadline, key, ttlVersion); expiry; `updatePublicationTtl` on egress | `KvStoreUtil.h:249-254`, spec 4.3 |
| Publisher registry | `subscribeAndGetAreaKvStores`: filtered snapshot plus a stream of the effective deltas; ignoreTtl and doNotPublishValue options | tests 692-1773, spec 4.4 |
| Flooder and sync | peers, hash-dump full sync, incremental flood | spec 4.2 |
| Spanning tree (DUAL) | per-root flooding trees | spec 4.6 |
| Ctrl handler | `authorizeConnection` (peer-name whitelist), `command()` forwarding to a module's event loop over one ZMQ REQ socket per module, `hasModule`, counters | test file lines 1922-2084 |
| Multi-store client | `dumpAllWithThriftClientFromMultiple` asks several stores for a prefix dump and merges the answers; the result is null if all fail, and the unreachable addresses are returned. `dumpAllWithPrefixMultipleAndParse` also parses the values. | `KvStoreUtil.h:66-144` |

How they interact:

- A local set and a flooded publication go through the same path: merge, then table update, then TTL deadlines, then fan-out to subscribers and re-flood to peers.
- An expiry removes the key and publishes `expiredKeys` to subscribers; it is not re-flooded.
- A stream client consumes on its own event base. A cancel is torn down later on the server loop.
- A store answering a dump counts each ttl down to its deadline (`updatePublicationTtl`) and leaves out what is nearly expired. A multi-store client merges the answers with the same `mergeKeyValues`.
- A thrift call to the ctrl handler runs on a server worker thread. `command()` sends on the module's REQ socket and waits up to `kReadTimeout` for the module loop's reply.

## Modules

- **`KvStoreUtil`**: pure operators, with no state.
  - `CompareValues` is a lexicographic comparison: version, then originator, then `ComparePayload` (bytes if both payloads are present, otherwise hash equality, otherwise -2), then ttlVersion.
  - `MergeOutcome` decides one key of a batch. The results are `NO_MATCHED_KEY`, `INVALID_TTL`, accept (`FULL`), TTL-only refresh (`TTL`), `OLD_VERSION`, `NO_NEED_TO_UPDATE`, or `UNKNOWN` (refused on -2).
  - `MergeKeyValues` returns the new table, the effective delta (each entry marked ttl-only or not) and the statistics record.
  - The filter matchers and the dumps are also here.
  - `MergeOrderIndependent` checks `MergeKeyValues` over bounded inputs. The harness definitions `RefValues`, `RefStores` and `MergeOne` model no code of their own and are not in the map. `MergeOne` merges one value of key1 with no filter. `RefValues` are full values of key1: a base identity, one larger in each of version, originator and payload, each at two ttlVersions. `RefStores` are the empty store and the stores holding one of them. The property is constant-level, so TLC evaluates it in every state of the run that lists it; it sits in `apis_test`, the smallest run of a module that extends `KvStoreUtil`.
  - Data abstraction:
    - a key is a sequence of symbols, and a regex is a start-anchored literal (the tests only use such regexes: `"key3"` matches `key33`, `"key33.*"` matches `key333`);
    - originators and payloads are numbers, so string order is number order;
    - the hash is the triple it digests.
- **`KvStore`**: one area.
  - Variables:
    - `kvStore` is the value table;
    - `ttlQueue` holds the pending deadlines as `[key, ttlVersion]`;
    - `subState`, `subParams` and `stream` are the publisher registry;
    - `mirror` is what each stream client has rebuilt from its snapshot and the publications it consumed;
    - `sets` counts set calls so the state space stays bounded.
  - Actions:
    - `SetKeyVals` is a whole local set: merge, schedule deadlines, publish to every active subscriber, or mark a full subscriber `lagged` and empty its buffer.
    - `ExpireTtl` fires one deadline.
    - `Subscribe` takes the snapshot and registers in one step.
    - `ClientReceive` consumes one publication.
    - `ClientCancel` cancels the subscription.
    - `Teardown` is the server's cancel callback.
- **`MC_KvStore`**: model values for `KvStore`.
  - Two keys, one a prefix of the other.
  - Four value identities: two versions, two originators, two payloads.
  - A hash-only refresh of three of them, and one invalid ttl.
  - Three subscription parameter sets: unfiltered; AND with ignoreTtl; OR with doNotPublishValue.
- **`KvStoreSubscribeTest`**: `subscribeAndGetKvStoreFilteredWithKeysNoTtlUpdate` (test lines 692-1444) replayed on an instance of `KvStore`.
  - The test thread runs `Script`, one block per `{...}` of the test. Its step kinds are set, set in another area, get, begin a block, subscribe, check the publisher count, spin on `received`, cancel, and spin until there are no publishers.
  - Each client's `Callback` runs concurrently and applies the callback's EXPECTs and `received++`.
  - `ServerTeardown` runs the cancel callback.
  - `OwnKeyWrite` stands for the fixture's PrefixManager and LinkMonitor, which write their own keys at any time.
- **`KvStoreFlood`**: several stores of one area, peered along `Links` (spec 4.2).
  - Variables:
    - `store` is each node's value table;
    - `peer` is each node's view of each neighbour: `idle` (never added, or failed), `syncing`, `established` or `deleted`;
    - `failures` counts each peering's consecutive failed sends (spec 4.2's K is `MaxFailures`);
    - `msgs` is the set of messages in flight, so any of them may be delivered first;
    - `origins` records every value a set or refresh produced (history, for the properties);
    - `sets`, `refreshes` and `faults` are the bounds. `faults` counts lost messages, sync timeouts and delPeers together, and `FaultyLinks` names the peerings they may hit.
  - Actions:
    - `SetKey`: a local set with the next version and infinite ttl. It goes through `MergeKeyValues` and floods the delta.
    - `RefreshTtl`: the originator bumps the ttlVersion and floods a ttl-only entry.
    - `AddPeer`: the peer is `syncing` and the hash dump (`DumpHashWithFilters`) is sent.
    - `HandleSyncRequest`: the responder answers with `DumpDifference` and the keys it wants.
    - `HandleSyncResponse`: the requester merges, floods, sends the wanted keys and marks the peer `established`. A response to an abandoned sync is dropped.
    - `HandlePub`: merge and re-flood to established peers except the sender (split horizon).
    - `DelPeer`: the peer is `deleted` for good. Nothing more is flooded to it, and its sync answer is dropped. What it already sent is still merged.
    - `SyncTimeout`: a sync still in progress times out. The peer is `idle`, and `AddPeer` retries while the old request or answer may still be on the way.
    - `Lose`: a message is lost. A lost sync request or answer fails the sync (`PeerFailed`). A lost publication counts as one failed send, and the K-th in a row fails the peering. A publication that arrives resets the count. A failed peer is `idle` until `AddPeer` re-syncs it.
- **`KvStoreAbstract`**: what a replica promises. Each replica's value of a key is an originated one and only moves to a better one in `compareValues` order, possibly several keys per step.
  - `KvStoreFlood.ImplementsAbstract` instantiates it with a refinement mapping: the stores and the origins with payloads stripped. Stripping keeps the hash, so the mapping still tells identities apart. It is needed because of the ttl-reorder finding below.
- **`MC_KvStoreFlood`**: a line 1-2-3 and the INT32_MIN sentinel.
- **`KvStoreWithoutValueTest`**: `subscribeAndGetKvStoreFilteredWithoutValue` (test lines 1689-1773) on an instance of `KvStore`.
  - The test thread is one action per step: set, subscribe (with the snapshot EXPECTs and the publisher count), update key1, spin on `newUpdateSeen`, cancel, spin until no publisher.
  - `Callback` is the subscribeExTry lambda with its ASSERTs; `ServerTeardown` and `OwnKeyWrite` are as in the subscribe test.
  - The payload `"value_updated"` is encoded above `"value1"`, as byte order puts `'_'` above `'1'`. So the update is a full update by `compareValues`, not a ttl-only one.
- **`KvStoreApisTest`**: `KvStoreApis` (test lines 406-690) on three area stores.
  - `Script` is one record per call: set, get, filtered dump, hash dump, add peers, delete a peer, list peers. `TestStep` runs the next record; each call is synchronous, through `MergeKeyValues`, `DumpAllWithFilters` or `DumpHashWithFilters` of `KvStoreUtil`.
  - `OwnKeyWrite` writes a key of the node's own modules into any area at any time.
  - The DUAL and flood-topology calls (lines 524-555) are not replayed: no spanning-tree code is modelled.
  - The test at line 638 checks `pub33` where it means `pub333`; the replay states the intended EXPECT: two keys (key33 and key333, both of node33) and key333's value.
- **`OpenrCtrlHandler`**: the handler's command path.
  - Variables: `sock` is each module socket's last request id and whether a reply is due; `toModule` and `fromModule` are the inproc pipes; `caller` is each worker thread's call and its last outcome; `events` the event logs `authorizeConnection` sends.
  - `SockOpts` are the two options the constructor sets. `CanSend` is ZMQ_REQ_RELAXED (send allowed while a reply is due) and `Accepts` is ZMQ_REQ_CORRELATE (only the reply with the last request id is handed to recv).
  - `Command` is `command()` up to the send, with its early throws: unacceptable peer, unknown module, refused send. `Recv` and `Timeout` are the two ends of `recvOne(kReadTimeout)`. `HasModule` is `hasModule`. `ModuleServe` is the module's loop answering the oldest request.
  - A reply names the request it answers, so a property can tell whose reply a caller got. Each ZMQ call is one atomic step: the socket is shared by the worker threads with no lock, and this is the most benign outcome of that race.
- **`KvStoreMultiDump`**: the client dump of several stores (`dumpAllWithThriftClientFromMultiple`, `dumpAllWithPrefixMultipleAndParse`) and the countdown each store applies to what it sends (`updatePublicationTtl`).
  - Variables:
    - `now` is the stores' clock;
    - `kv` and `queue` are each store's value table and countdown queue of `[key, ttlVersion, expiry]`;
    - `deadline` is the live deadline of each stored value (history);
    - `pending`, `unreachable`, `answer`, `merged`, `result` and `parsed` are the client's call.
  - Init picks each store's contents: per key nothing, a value that never expires, or a value with a deadline. A value refreshed to ttlVersion 1 leaves its ttlVersion 0 deadline, one unit earlier, in the queue.
  - Actions:
    - `Respond` is one store's answer: `DumpAllWithFilters` under the prefix, then `UpdatePublicationTtl`, merged into the result with `MergeKeyValues` on arrival.
    - `Fail` is a connect or process timeout; the address is reported unreachable.
    - `Finish` returns null if every address failed, else the merged map and its payloads (`ParseThriftValues`).
    - `Tick` and `ExpireTtl` are the stores' clocks and countdown queues, interleaved with the call.
  - `UpdatePublicationTtl` follows the header's comment (line 250): it sets the ttl to the time left minus `ttlDecr`, and it erases a key whose time left is below `kTtlThreshold`. Keys without an entry (infinite ttl) are left alone.
- **`MC_KvStoreMultiDump`**: two stores, a key under the prefix and one outside it, and two identities (a base and a larger originator and payload).
- **`KvStoreTtlUpdateTest`**: the first half of `subscribeAndGetKvStoreFilteredWithKeysTtlUpdateOption` (lines 1446-1573) as a fixed sequence of steps on a `KvStore` instance.

## Runs

| run | module / cfg | expect | what it shows |
|---|---|---|---|
| `kvstore_core` | `MC_KvStore` / `MC_KvStore.cfg` | pass (267k states) | `MirrorConsistent`: for every active subscriber, its snapshot plus its buffered stream rebuilds exactly the filtered table, as its options show it. This catches different filtering of the snapshot and the stream, a ttl-only leak to an ignoreTtl client, and a missed expiry. `Subscribe` is one atomic step (spec 5 and 8), so a set slipping between the snapshot and the registration is outside the model. `StreamDeliversOnlyNews`: every buffered publication changes the client's view and never takes a key back. `MonotonicValues`: a stored value never moves backwards, and within one (version, originator) it changes only to a larger payload or by a ttl refresh of the same hash, so a merge that applied a comparison it cannot decide (-2) is caught. `TypeOK`. |
| `ttl_evict` | `MC_KvStore` / `MC_KvStore_ttl_evict.cfg` | violation | `InfiniteTtlNeverExpires` fails: the deadline of a finite-ttl value evicts its replacement (same version and originator, larger payload, infinite ttl), because both carry ttlVersion 0 and the spec matches deadlines on ttlVersion alone. |
| `ttl_refresh_test` | `KvStoreTtlUpdateTest` | violation | `TtlRefreshSeenByClient` fails: the test's hash-0 refresh is refused as "unknown" by the spec's rule, while the test expects it applied. |
| `subscribe_test` | `KvStoreSubscribeTest` | pass (1654 states) | `ExpectationsHold`: every EXPECT/ASSERT of the test holds under any interleaving of callbacks, teardowns and the node's own writes. `TestTerminates`: every spin-wait ends. |
| `flood_lossy` | `MC_KvStoreFlood` / `MC_KvStoreFlood.cfg` | pass (260k states) | A set, its ttl refresh and one fault: a lost message, a sync timeout or a delPeer. `ImplementsAbstract`: every store change is a move to a better originated value, including when the answer to a timed-out sync completes its retry. `EventuallyEstablished`: every peering not deleted ends up established after a failure. `DeletedPeerStaysDeleted`: no late sync answer or failure brings a deleted peer back. `TypeOK`. |
| `flood_sync_window` | `MC_KvStoreFlood` / `MC_KvStoreFlood_sync_window.cfg` | violation | `EventuallyHashesConverged` fails without any loss: node 2 learns a key after answering node 3's sync request but before its own sync with node 3 completes. The key is in neither the sync answer nor a flood, and node 3 never gets it. |
| `flood_ttl_reorder` | `MC_KvStoreFlood` / `MC_KvStoreFlood_ttl_reorder.cfg` | violation | `OnlyOriginatedValues` fails: a ttl-only refresh overtakes the full value, the peer stores the key without payload, and the full value is then refused as `OLD_VERSION`. |
| `without_value_test` | `KvStoreWithoutValueTest` / `KvStoreWithoutValueTest.cfg` | pass (143 states) | `NoValueSeen`: with doNotPublishValue, no payload reaches the client in the snapshot or the stream, whatever the node's own modules write. `TestTerminates`: both spin-waits end. |
| `multi_dump` | `MC_KvStoreMultiDump` / `MC_KvStoreMultiDump.cfg` | pass (5.7M states, about 70 s) | `ResultIsBestOfAnswers`: the result is null only when both addresses failed. Otherwise, in any arrival order, it holds every answered key with a value at least as good as every store's value for it. `LiveKeysReturned`: no key a store still held with `kTtlThreshold` of life is dropped, even with a stale deadline of an older ttlVersion still queued. `PublishedTtlsAccepted`: every ttl a store sends is one a merge accepts, and it is below the value's remaining life, even when the store answers after a deadline but before eviction. `TypeOK`. |
| `ctrl_command` | `OpenrCtrlHandler` / `OpenrCtrlHandler.cfg` | pass (6.8k states) | One worker thread, four calls from an unencrypted, a whitelisted and an unknown peer. `ResponseMatchesRequest`: a command returns its own module reply even after an earlier command timed out and its reply arrives late. `TypeOK`. |
| `ctrl_concurrent` | `OpenrCtrlHandler` / `OpenrCtrlHandler_concurrent.cfg` | violation | `ResponseMatchesRequest` fails with two worker threads: the second send advances the request id, so the first caller is handed the second caller's reply. |
| `apis_test` | `KvStoreApisTest` / `KvStoreApisTest.cfg` | pass (748 states) | `ExpectationsHold`: every EXPECT of `KvStoreApis` (sets, gets, filtered and hash dumps in three areas, peer add/delete/list) holds, whatever the node's own modules write into any area. `MergeOrderIndependent`: merging any two full values into any one-key store leaves the same store in either order, and merging a value twice changes nothing. Payload-less entries and values that differ only in ttl are left out, because for them the order is known to matter. |

The `findings` in `PROJECT.json` state what each violation shows. Each property of a passing run has a mutant in `PROJECT.json`: a plausible bug in a mapped definition that TLC must catch. The mutants are:

- equal values republished;
- an undecidable comparison (-2) applied as a new value;
- ttl-only entries withheld from everyone;
- hash not filled in;
- a cancel callback that leaves the publisher registered;
- a dump that ignores doNotPublishValue;
- a merge that compares versions only (no originator, payload or ttlVersion tie-break);
- a peer add that marks the peer syncing without sending the hash dump;
- a sync answer that establishes the peer whatever became of the sync (deleted or timed out);
- a socket without ZMQ_REQ_CORRELATE, and a send that does not advance the request id;
- an OR filter that matches on keys only and ignores the originators;
- a dump merge where the last answer overwrites the earlier ones;
- a countdown that takes any queued deadline of the key, whatever its ttlVersion;
- a countdown that erases only keys already past their deadline;
- a failed address that is still awaited.

### Bounds

- **`MC_KvStore`:** two keys are enough to make one a prefix of the other, which exercises the filter. The four identities make every branch of `CompareValues` reachable: higher version, higher originator, different payload of the same origin, and the same identity with a newer ttlVersion through the hash-only refresh. The bounds are `MaxSets = 3` sets, `QueueCap = 2` (so the lagged teardown is reached), and one subscriber. That is enough for a subscribe to sit between two sets and for a publication to be buffered across an expiry.
- **`KvStoreWithoutValueTest`:** up to four writes by the node's own modules in the pass run, at any point of the test. One write is enough for the violation.
- **`KvStoreSubscribeTest`:** the script is the test itself; nothing is bounded except the node's own writes (`MaxOwnKeys = 2`). `QueueCap = 8` is above the most publications any block has in flight, as with the real stream buffer.
- **`KvStoreApisTest`:** the script is the test itself; up to three writes by the node's own modules (`MaxOwnKeys = 3`), each into any area, so an own key can sit in the area of every dump.
- **`MC_KvStoreFlood`:** three nodes on a line, so node 2 relays and syncs with two peers at once (a triangle does not finish in minutes). One key is enough: every gap found is per key. `flood_lossy` has one set, one refresh and one fault, which is enough to reorder a refresh before its value, to drop a peer mid-sync, to time a sync out with its answer still on the way, and to delete a peer with its messages in flight. Faults hit the peering 1-2 only (`MCFaultyLinks`). With a single set there is one originated value and no originatorIds are ever compared, so exchanging nodes 1 and 3 maps every behaviour with faults on 2-3 to one with faults on 1-2. The three kinds of fault on both links take over four minutes with the liveness check; on one link the run takes under two and a half. K is 2, so a lost publication is counted and the count is reset by the next one that arrives. The K-th failure needs a second fault, and two faults reach 4.5M states before the liveness check; `flood_ttl_reorder` runs with K = 1, where a lost publication fails the peering at once. Two sets with a refresh and a loss do not finish in five minutes, so the originator tie-break across flooding stores is not checked by a run (`sync_window` has two sets, for its liveness violation only).
- **`OpenrCtrlHandler`:** one module with a socket and one without, two requests, three peer names and four calls: enough for a timeout, a late reply and a second command on the same socket. Two threads and two calls are enough for the concurrent violation.
- **`MC_KvStoreMultiDump`:** two stores, so answers arrive in either order and one may fail. `kTtlThreshold = 2`, `ttlDecr = 1`, deadlines 2 and 3, and a clock up to 2. So a value is kept at one time and erased a unit later. A value reaches exactly the threshold, and one is answered after its deadline but before its eviction. The stale deadline (one unit before the live one) falls below the threshold while the live one does not. A third identity, or a clock to 3, takes more than four minutes.
- **TTL sentinel:** `TtlInfinity` is INT32_MIN in `MC_KvStore`. The test replays use 0, because no value there has ttl 0 and the floor is 1.

### Fairness

`KvStoreSubscribeTest.Spec` and `KvStoreWithoutValueTest.Spec` assume weak fairness of:

- the test thread, which spins with `yield`;
- each client callback, because each runs on its own event base thread;
- each server teardown, because the loop runs the cancel callback.

`KvStoreApisTest.Spec` assumes weak fairness of the test thread only; its calls are synchronous.

`OpenrCtrlHandler.Spec` assumes weak fairness of each module loop's serving and of each waiting thread's return (its reply or its timeout: `recvOne` is bounded by `kReadTimeout`). No property of its runs is a liveness property.

The node's own writes are not fair: they may never happen. `KvStore` itself is checked for safety only.

`KvStoreFlood.Spec` assumes weak fairness of:

- each store's handling of sync requests, sync responses and publications, because the store's event loop drains its queue;
- `AddPeer` for every idle peering, because a dropped peer is re-added and re-synced (spec 4.2 "re-synced on next successful reconnect").

Sets, refreshes and faults are not fair. `AddPeer` is fair only for an `idle` peering: a deleted peer is never re-added.

`KvStoreMultiDump.Spec` has no fairness and is checked for safety only. Its run does not check deadlock: the call returns and the bounded clock stops.

In `KvStoreFlood`, faults are bounded by `MaxFaults`, so they cannot starve a sync forever.

## Observations outside the runs

- `subscribeAndGetKvStoreFilteredWithKeysNoTtlUpdate` builds a `KeyDumpParams` filter in every block, but subscribes with an empty `std::make_unique<thrift::KeyDumpParams>()` (lines 755, 849, 856, 958, 1033, 1117, 1216, 1312, 1378). Its AND/OR filters are never applied; `KvStoreSubscribeTest` replays what the test passes.
- `subscribeAndGetKvStoreFilteredWithoutValue` subscribes with an empty key filter, so it sees every key of the spine area. Yet it EXPECTs exactly two keys in the snapshot (test line 1715), and its callback ASSERTs that every publication holds key1 (line 1741). The fixture runs PrefixManager and LinkMonitor against the same store, and the sibling test allows for their extra keys (`EXPECT_LE`). So one key written by them fails the test. An earlier version of this project had a run for this; `KvStoreWithoutValueTest` with `OwnKeyWrite` reaches it, and `ExpectationsHold` is still defined there.
- Spec 4.3 omits a key when the *resulting* ttl (time left minus the TTL decrement) falls below the threshold. The header's comment on `updatePublicationTtl` (line 250) compares the *time left* instead. The model follows the header. So a value with exactly `kTtlThreshold` left is sent with `kTtlThreshold - ttlDecr`, below the threshold. The receiver's merge only needs a ttl of at least 1, so `PublishedTtlsAccepted` still holds.
- Spec 4.2 fails a peering only after K consecutive failed sends. A publication lost below K leaves the peering `established`, so no full sync follows, and the delta reaches the peer only if a later update of the same key does. Spec 5's convergence claim assumes flooding eventually delivers. This cannot be isolated by a run: at `flood_lossy`'s bounds (one set, no refresh), `EventuallyHashesConverged` already fails with no fault at all, through the sync window of `flood_sync_window`.
- `getCounter` asks only the monitor client (line 2080), while `getCounters` lists the fb303 counters first (line 2033). `getCounter` returns 0 for an fb303 counter that `getCounters` lists. The counter calls change no state and are not modelled.

## Interpretation choices

- **Filters.** Each non-empty attribute is a criterion, and an empty filter matches everything. AND needs all criteria; OR needs any of them. With keys only and OR, the filter matches just the keys. This is what `KvStoreApis` expects (keys `{key333}` with node33 and OR returns key33 and key333), and it is what spec 4.4 says about empty lists and sets.
- **Hash-only values.** `compareValues` returns -2 when a payload is missing and the hashes differ (header line 225 and spec 4.1c). The merge refuses on -2 (spec 4.1 step 4).

## Not modelled (yet) and plan

Planned for later work, in this order:

1. **`KvStoreFlood` extensions**: the K-th consecutive failure in a passing run (it needs two faults, see Bounds), a triangle once it fits in the time budget, and `UpdatePublicationTtl` (checked on its own in `KvStoreMultiDump`) applied on the flood path.
2. **`KvStoreApis` DUAL calls**: the spanning-tree and flood-topology calls of the test (lines 524-555); the rest of the test is replayed by `KvStoreApisTest`.

Out of scope:

- The ignoreTtl = true half of `...TtlUpdateOption` (lines 1575-1683). Under the spec the first half's second refresh (ttlVersion 6, hash 0) is refused like the first. No ttl publication comes, so the spin on `newTtlVersionSeen` (line 1561) never ends and the test never reaches the second half. Its refreshes of key3 would be refused for the same reason.

- DUAL: no code is in `src/`, and the tests only query a single node's tree.
- The daemon modules of the fixture (Decision, Fib, LinkMonitor, PrefixManager, PersistentStore, RibPolicy, counters): they are consumers of the store.
- Thrift transport, SSL, socket options and logging (`printKeyValInArea`), which are pure I/O.
- Thrift deserialisation: `parseThriftValues` is modelled as keeping the payloads, and the decoding itself is left out.
- `getKvStoreFilters`, which builds a filter from the configuration, and the filter's accessors `getKeyPrefixes`, `getOriginatorIdList` and `str`.
