------------------------------- MODULE KvStore -------------------------------
(***************************************************************************)
(* One area of one KvStore: the Value Table, the TTL countdown queue and   *)
(* the publisher registry behind subscribeAndGetAreaKvStores, together     *)
(* with the stream clients of OpenrCtrlHandlerTest.                        *)
(*                                                                         *)
(* All server steps run on the area's single event loop, so each server   *)
(* action is atomic: a set merges the batch, refreshes the TTL queue and   *)
(* fans the effective delta out to every subscriber in one step.  A        *)
(* client runs on its own event base and consumes its stream one          *)
(* publication at a time; "mirror" is what the client has rebuilt from    *)
(* its initial snapshot and the publications it has consumed.             *)
(***************************************************************************)
EXTENDS KvStoreUtil

CONSTANTS
  Keys,         \* keys (sequences of symbols)
  Values,       \* incoming thrift::Value records a caller may set
  Subscribers,  \* stream client ids
  Params,       \* KeyDumpParams a client may subscribe with
  QueueCap,     \* per-subscriber stream buffer; overflow tears it down
  MaxSets       \* bound on the number of set calls a behaviour makes

VARIABLES
  kvStore,      \* key -> stored value (a partial function)
  ttlQueue,     \* TtlCountdownQueue entries [key, ttlVersion]
  subState,     \* "idle" | "active" | "cancelling" | "lagged"
  subParams,    \* the KeyDumpParams of a subscription
  stream,       \* publications buffered for a subscriber, oldest first
  mirror,       \* the client's view: snapshot + consumed publications
  sets          \* set calls made so far (bounded by MaxSets)

vars == <<kvStore, ttlQueue, subState, subParams, stream, mirror, sets>>

NoParams == [keys |-> {}, originatorIds |-> {}, oper |-> "NONE",
             ignoreTtl |-> FALSE, doNotPublishValue |-> FALSE]

-----------------------------------------------------------------------------
(* The publication one subscriber receives for an effective delta        *)
(* (key -> [value, ttlOnly]) and a set of expired keys.                   *)

SubscriberEntries(p, updates) ==
  LET ks == {k \in DOMAIN updates :
               /\ KeyMatch(p, k, updates[k].value)
               /\ ~(p.ignoreTtl /\ updates[k].ttlOnly)}
  IN [k \in ks |-> IF p.doNotPublishValue
                   THEN [updates[k] EXCEPT !.value = StripValue(@)]
                   ELSE updates[k]]

SubscriberPublication(p, updates, expired) ==
  [keyVals |-> SubscriberEntries(p, updates), expiredKeys |-> expired]

\* Hand a delta to every active subscriber: nothing when its filtered
\* view is empty, a lagged teardown when its buffer is full.
Publish(updates, expired) ==
  LET pub(s) == SubscriberPublication(subParams[s], updates, expired)
      wants(s) == subState[s] = "active"
                  /\ (pub(s).keyVals # <<>> \/ expired # {})
      full(s) == wants(s) /\ Len(stream[s]) = QueueCap
  IN /\ stream' = [s \in Subscribers |->
                     IF full(s) THEN <<>>
                     ELSE IF wants(s) THEN Append(stream[s], pub(s))
                     ELSE stream[s]]
     /\ subState' = [s \in Subscribers |-> IF full(s) THEN "lagged" ELSE subState[s]]

\* The TTL queue entries an accepted delta schedules: finite ttls only.
Scheduled(store, updates) ==
  {[key |-> k, ttlVersion |-> store[k].ttlVersion] :
     k \in {k \in DOMAIN updates : store[k].ttl # TtlInfinity}}

-----------------------------------------------------------------------------
(* Server actions.                                                         *)

Init ==
  /\ kvStore = <<>>
  /\ ttlQueue = {}
  /\ subState = [s \in Subscribers |-> "idle"]
  /\ subParams = [s \in Subscribers |-> NoParams]
  /\ stream = [s \in Subscribers |-> <<>>]
  /\ mirror = [s \in Subscribers |-> <<>>]
  /\ sets = 0

\* setKvStoreKeyVals / KvStoreWrapper::setKey: merge without filter,
\* refresh the deadlines of what was accepted, publish the delta.
SetKeyVals(keyVals) ==
  LET m == MergeKeyValues(kvStore, keyVals, NoFilter) IN
  /\ sets < MaxSets
  /\ sets' = sets + 1
  /\ kvStore' = m.kvStore
  /\ ttlQueue' = ttlQueue \cup Scheduled(m.kvStore, m.updates)
  /\ IF m.updates = <<>>
     THEN UNCHANGED <<stream, subState>>
     ELSE Publish(m.updates, {})
  /\ UNCHANGED <<subParams, mirror>>

\* The countdown queue fires an entry: the key is evicted when the stored
\* ttlVersion still matches, and the expiry is published (not flooded).
ExpireTtl(e) ==
  /\ ttlQueue' = ttlQueue \ {e}
  /\ IF e.key \in DOMAIN kvStore /\ kvStore[e.key].ttlVersion = e.ttlVersion
     THEN /\ kvStore' = Drop(kvStore, e.key)
          /\ Publish(<<>>, {e.key})
     ELSE UNCHANGED <<kvStore, stream, subState>>
  /\ UNCHANGED <<subParams, mirror, sets>>

\* subscribeAndGetAreaKvStores: the filtered snapshot and the registration
\* of the stream happen in the same loop turn.
Subscribe(s, p) ==
  /\ subState[s] = "idle"
  /\ subState' = [subState EXCEPT ![s] = "active"]
  /\ subParams' = [subParams EXCEPT ![s] = p]
  /\ stream' = [stream EXCEPT ![s] = <<>>]
  /\ mirror' = [mirror EXCEPT ![s] = DumpAllWithFilters(kvStore, p, p.doNotPublishValue)]
  /\ UNCHANGED <<kvStore, ttlQueue, sets>>

\* The stream's cancel callback erases the publisher and its buffer.
Teardown(s) ==
  /\ subState[s] \in {"cancelling", "lagged"}
  /\ subState' = [subState EXCEPT ![s] = "idle"]
  /\ subParams' = [subParams EXCEPT ![s] = NoParams]
  /\ stream' = [stream EXCEPT ![s] = <<>>]
  /\ mirror' = [mirror EXCEPT ![s] = <<>>]
  /\ UNCHANGED <<kvStore, ttlQueue, sets>>

-----------------------------------------------------------------------------
(* Client actions (the subscribeExTry callback and subscription.cancel).  *)

\* A client folds one publication into its view.
ApplyPublication(view, pub) ==
  LET kv == pub.keyVals
      upd == [k \in DOMAIN view \cup DOMAIN kv |->
                IF k \notin DOMAIN kv THEN view[k]
                ELSE IF ~kv[k].ttlOnly THEN kv[k].value
                ELSE IF k \in DOMAIN view
                     THEN [view[k] EXCEPT !.ttl = kv[k].value.ttl,
                                          !.ttlVersion = kv[k].value.ttlVersion]
                     ELSE kv[k].value]
  IN Restrict(upd, DOMAIN upd \ pub.expiredKeys)

ClientReceive(s) ==
  /\ subState[s] = "active"
  /\ stream[s] # <<>>
  /\ mirror' = [mirror EXCEPT ![s] = ApplyPublication(@, Head(stream[s]))]
  /\ stream' = [stream EXCEPT ![s] = Tail(@)]
  /\ UNCHANGED <<kvStore, ttlQueue, subState, subParams, sets>>

\* Mutant: the cancel never reaches the server's publisher.
ClientCancelLost(s) ==
  /\ subState[s] = "active"
  /\ UNCHANGED <<kvStore, ttlQueue, subState, subParams, stream, mirror, sets>>

ClientCancel(s) ==
  /\ subState[s] = "active"
  /\ subState' = [subState EXCEPT ![s] = "cancelling"]
  /\ UNCHANGED <<kvStore, ttlQueue, subParams, stream, mirror, sets>>

Next ==
  \/ \E k \in Keys, v \in Values : SetKeyVals(k :> v)
  \/ \E e \in ttlQueue : ExpireTtl(e)
  \/ \E s \in Subscribers, p \in Params : Subscribe(s, p)
  \/ \E s \in Subscribers : ClientReceive(s)
  \/ \E s \in Subscribers : ClientCancel(s)
  \/ \E s \in Subscribers : Teardown(s)

Spec == Init /\ [][Next]_vars

-----------------------------------------------------------------------------
(* Properties.                                                             *)

TypeOK ==
  /\ DOMAIN kvStore \subseteq Keys
  /\ \A k \in DOMAIN kvStore : kvStore[k].ttl # NoValue /\ kvStore[k].hash # NoValue
  /\ \A e \in ttlQueue : e.key \in Keys
  /\ subState \in [Subscribers -> {"idle", "active", "cancelling", "lagged"}]
  /\ subParams \in [Subscribers -> Params \cup {NoParams}]
  /\ \A s \in Subscribers : Len(stream[s]) <= QueueCap /\ DOMAIN mirror[s] \subseteq Keys

\* Reference filter semantics (KeyDumpParams as the tests use them): the
\* criteria a filter supplies are its non-empty attributes; no criterion
\* matches everything, AND needs all of them, OR any of them.
RefFilterMatches(p, k, v) ==
  LET holds == [c \in {"key", "originator"} |->
                  IF c = "key" THEN \E pat \in p.keys : Len(pat) <= Len(k) /\ SubSeq(k, 1, Len(pat)) = pat
                  ELSE v.originatorId \in p.originatorIds]
      given == {c \in {"key", "originator"} :
                  IF c = "key" THEN p.keys # {} ELSE p.originatorIds # {}}
  IN \/ given = {}
     \/ p.oper = "AND" /\ \A c \in given : holds[c]
     \/ p.oper # "AND" /\ \E c \in given : holds[c]

\* What a subscriber with params p can see of a value.
SubscriberView(p, v) ==
  [version |-> v.version, originatorId |-> v.originatorId, hash |-> v.hash,
   value |-> IF p.doNotPublishValue THEN NoValue ELSE v.value,
   ttlVersion |-> IF p.ignoreTtl THEN 0 ELSE v.ttlVersion,
   ttl |-> IF p.ignoreTtl THEN 0 ELSE v.ttl]

\* The view a client reaches once it consumes everything buffered for it.
Caught(s) == FoldLeft(ApplyPublication, mirror[s], stream[s])

\* Subscribe atomicity and filter isolation (spec 4.4, 5): for an active
\* subscriber, initial snapshot followed by the buffered stream rebuilds
\* every stored entry its filter matches, as its options show it, and
\* holds nothing that never matched or that the store no longer has.  It
\* fails if a delta committed around the snapshot is lost or doubled, if
\* the snapshot and the stream filter differently, if ttl-only refreshes
\* leak to ignoreTtl clients, or if an expiry never reaches a client.
MirrorConsistent ==
  \A s \in Subscribers : subState[s] = "active" =>
    LET p == subParams[s]
        c == Caught(s)
    IN /\ \A k \in DOMAIN kvStore :
            RefFilterMatches(p, k, kvStore[k]) =>
              /\ k \in DOMAIN c
              /\ SubscriberView(p, c[k]) = SubscriberView(p, kvStore[k])
       /\ \A k \in DOMAIN c :
            k \in DOMAIN kvStore /\ RefFilterMatches(p, k, c[k])

\* Each publication buffered for a client changes what the client holds
\* and never takes a key back to an older (version, originator): the
\* test's subscriber counts versions 4, 5, 6 after setting 4 twice.  A
\* ttl-only entry must raise the ttlVersion of a key the client holds.
RECURSIVE FreshChain(_, _)
FreshChain(view, pubs) ==
  pubs = <<>> \/
  LET kv == Head(pubs).keyVals
      fresh(k) ==
        IF kv[k].ttlOnly
        THEN k \in DOMAIN view /\ kv[k].value.ttlVersion > view[k].ttlVersion
        ELSE k \notin DOMAIN view
             \/ /\ kv[k].value # view[k]
                /\ \/ kv[k].value.version > view[k].version
                   \/ /\ kv[k].value.version = view[k].version
                      /\ kv[k].value.originatorId >= view[k].originatorId
  IN /\ \A k \in DOMAIN kv : fresh(k)
     /\ FreshChain(ApplyPublication(view, Head(pubs)), Tail(pubs))

StreamDeliversOnlyNews ==
  \A s \in Subscribers : subState[s] = "active" => FreshChain(mirror[s], stream[s])

\* Monotonicity (spec 8): while a key stays in the table its value never
\* moves to a lower version, to a lower originator of the same version,
\* to a smaller payload of the same (version, originator), or to a lower
\* ttlVersion of the same payload.  Within one (version, originator) a
\* change must be a larger payload or a ttl refresh of the same hash, so
\* a comparison the merge cannot decide (-2) must leave the value alone.
NeverOlder(new, old) ==
  \/ new.version > old.version
  \/ /\ new.version = old.version
     /\ \/ new.originatorId > old.originatorId
        \/ /\ new.originatorId = old.originatorId
           /\ \/ HasValue(new) /\ HasValue(old) /\ new.value > old.value
              \/ new.hash = old.hash /\ new.ttlVersion >= old.ttlVersion

MonotonicValues ==
  [][\A k \in DOMAIN kvStore \cap DOMAIN kvStore' : NeverOlder(kvStore'[k], kvStore[k])]_vars

\* Spec 4.3 fires a deadline when the stored ttlVersion "still matches".
\* A key last set with an infinite ttl has no deadline of its own, so the
\* TTL scheduler must never evict it.  It is violated when a finite-ttl
\* value's deadline outlives it: a replacement of the same version and
\* originator with a larger payload restarts at ttlVersion 0 and matches.
InfiniteTtlNeverExpires ==
  [][\A k \in DOMAIN kvStore :
       kvStore[k].ttl = TtlInfinity => k \in DOMAIN kvStore']_vars

=============================================================================
