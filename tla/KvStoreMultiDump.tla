--------------------------- MODULE KvStoreMultiDump ---------------------------
(***************************************************************************)
(* The client-side dump of several KvStores (KvStoreUtil.h:                *)
(* dumpAllWithThriftClientFromMultiple and dumpAllWithPrefixMultipleAnd-    *)
(* Parse) together with the egress countdown each store applies to what it *)
(* sends (updatePublicationTtl).  The client asks every address for the    *)
(* keys under one prefix; each store answers with its filtered dump, its   *)
(* ttls counted down against its TtlCountdownQueue, or the address fails   *)
(* (connect or process timeout).  Answers are merged with mergeKeyValues   *)
(* in the order they arrive; the result is null when every address failed.*)
(*                                                                         *)
(* Each store's contents are fixed in Init; its clock runs (Tick) and its  *)
(* countdown queue evicts what is due (ExpireTtl), interleaved with the    *)
(* client's calls.  A store value inserted at time 0 with ttl x has its    *)
(* deadline at x; a value refreshed to ttlVersion 1 leaves the deadline of *)
(* ttlVersion 0 behind in the queue.                                       *)
(***************************************************************************)
EXTENDS KvStoreUtil

CONSTANTS
  Stores,        \* the sockAddrs the client dumps from
  Keys,          \* keys held by the stores
  Prefix,        \* the key prefix of the dump
  Ids,           \* (version, originatorId, payload) triples a store may hold
  Expiries,      \* finite deadlines of stored values
  TtlThreshold,  \* Constants::kTtlThreshold
  TtlDecr,       \* the ttlDecr argument of updatePublicationTtl
  MaxTime,       \* bound on the stores' clock
  Null           \* the empty std::optional of the result

ASSUME /\ TtlDecr \in Nat /\ TtlThreshold \in Nat /\ MaxTime \in Nat
       /\ Expiries \subseteq Nat

VARIABLES
  now,          \* the stores' clock (steady_clock)
  kv,           \* store -> its Value Table for the dump's area
  queue,        \* store -> its TtlCountdownQueue: [key, ttlVersion, expiry]
  deadline,     \* store -> key -> the live deadline of its value (history)
  pending,      \* addresses whose call has not completed
  unreachable,  \* addresses whose call failed
  answer,       \* store -> [at, dump, pub] of its answer, or Null (history)
  merged,       \* the key-value map merged from the answers so far
  result,       \* the returned map, or Null
  parsed,       \* the map parsed to payloads (...AndParse), or Null
  done          \* the call has returned

vars == <<now, kv, queue, deadline, pending, unreachable, answer, merged, result, parsed, done>>

\* A stored value: its hash filled in, as the store keeps it.
StoredValue(id, ttl, ttlVersion) ==
  WithHash([version |-> id[1], originatorId |-> id[2], value |-> id[3],
            ttl |-> ttl, ttlVersion |-> ttlVersion, hash |-> NoValue])

\* What a store may hold under one key: nothing, a value that never expires,
\* or one with a deadline, at ttlVersion 0 or refreshed to ttlVersion 1.
Holdings ==
  {Null} \cup [id : Ids, expiry : {TtlInfinity}, ttlVersion : {0}]
         \cup [id : Ids, expiry : Expiries, ttlVersion : {0, 1}]

\* The countdown entries a holding leaves: the live one, and for a refreshed
\* value the one scheduled before the refresh (due one unit earlier).
EntriesOf(k, h) ==
  IF h = Null \/ h.expiry = TtlInfinity THEN {}
  ELSE {[key |-> k, ttlVersion |-> h.ttlVersion, expiry |-> h.expiry]}
       \cup IF h.ttlVersion = 1
            THEN {[key |-> k, ttlVersion |-> 0, expiry |-> h.expiry - 1]}
            ELSE {}

-----------------------------------------------------------------------------
(* updatePublicationTtl(ttlCountdownQueue, ttlDecr, thriftPub).            *)

\* The queue entries that belong to a key of the publication: the one of
\* the value's own ttlVersion.
Timed(q, pub) == {e \in q : e.key \in DOMAIN pub /\ e.ttlVersion = pub[e.key].ttlVersion}

\* Mutant: the entry is matched on the key alone, so a deadline left by an
\* older ttlVersion is taken for the value's.
UpdatePublicationTtlAnyVersion(q, t, ttlDecr, pub) ==
  LET timed == {e \in q : e.key \in DOMAIN pub}
      gone == {e.key : e \in {e \in timed : e.expiry - t < TtlThreshold}}
  IN [k \in DOMAIN pub \ gone |->
        IF \E e \in timed : e.key = k
        THEN [pub[k] EXCEPT !.ttl = (CHOOSE e \in timed : e.key = k).expiry - t - ttlDecr]
        ELSE pub[k]]

\* Mutant: only keys already past their deadline are erased.
UpdatePublicationTtlExpiredOnly(q, t, ttlDecr, pub) ==
  LET timed == Timed(q, pub)
      gone == {e.key : e \in {e \in timed : e.expiry - t <= 0}}
  IN [k \in DOMAIN pub \ gone |->
        IF \E e \in timed : e.key = k
        THEN [pub[k] EXCEPT !.ttl = (CHOOSE e \in timed : e.key = k).expiry - t - ttlDecr]
        ELSE pub[k]]

\* Every key with a countdown entry gets the time left to its deadline,
\* less ttlDecr, as its ttl; a key whose time left is below kTtlThreshold
\* is erased.  Keys without an entry (infinite ttl) are left alone.
UpdatePublicationTtl(q, t, ttlDecr, pub) ==
  LET timed == Timed(q, pub)
      gone == {e.key : e \in {e \in timed : e.expiry - t < TtlThreshold}}
  IN [k \in DOMAIN pub \ gone |->
        IF \E e \in timed : e.key = k
        THEN [pub[k] EXCEPT !.ttl = (CHOOSE e \in timed : e.key = k).expiry - t - ttlDecr]
        ELSE pub[k]]

-----------------------------------------------------------------------------
(* The client.                                                             *)

\* The filter of the client's getKvStoreKeyValsFilteredArea call.
DumpFilter == KvStoreFilters({Prefix}, {}, "OR")

\* Mutant: the answer overwrites what was merged before (last one wins).
MergeAnswerOverwrite(m, pub) == pub @@ m

\* The merge of one answer into the result so far.
MergeAnswer(m, pub) == MergeKeyValues(m, pub, NoFilter).kvStore

\* parseThriftValues: the payload of every value, the rest dropped.
ParseThriftValues(m) == [k \in DOMAIN m |-> m[k].value]

\* Store s answers the dump: its filtered dump, counted down at this time.
Respond(s) ==
  LET dump == DumpAllWithFilters(kv[s], DumpFilter, FALSE)
      pub == UpdatePublicationTtl(queue[s], now, TtlDecr, dump)
  IN /\ s \in pending
     /\ pending' = pending \ {s}
     /\ answer' = [answer EXCEPT ![s] = [at |-> now, dump |-> dump, pub |-> pub]]
     /\ merged' = MergeAnswer(merged, pub)
     /\ UNCHANGED <<now, kv, queue, deadline, unreachable, result, parsed, done>>

\* Mutant: a failed address is reported but its call is still awaited.
FailKeepsPending(s) ==
  /\ s \in pending
  /\ unreachable' = unreachable \cup {s}
  /\ UNCHANGED <<now, kv, queue, deadline, pending, answer, merged, result, parsed, done>>

\* The call to s fails (connect or process timeout, or an exception): the
\* address is reported unreachable.
Fail(s) ==
  /\ s \in pending
  /\ pending' = pending \ {s}
  /\ unreachable' = unreachable \cup {s}
  /\ UNCHANGED <<now, kv, queue, deadline, answer, merged, result, parsed, done>>

\* Every call has completed: null if all failed, else the merged map and,
\* for dumpAllWithPrefixMultipleAndParse, its payloads.
Finish ==
  /\ pending = {} /\ ~done
  /\ done' = TRUE
  /\ result' = IF unreachable = Stores THEN Null ELSE merged
  /\ parsed' = IF unreachable = Stores THEN Null ELSE ParseThriftValues(merged)
  /\ UNCHANGED <<now, kv, queue, deadline, pending, unreachable, answer, merged>>

-----------------------------------------------------------------------------
(* The stores.                                                             *)

Tick ==
  /\ now < MaxTime
  /\ now' = now + 1
  /\ UNCHANGED <<kv, queue, deadline, pending, unreachable, answer, merged, result, parsed, done>>

\* The countdown queue of s fires a due entry; the key is evicted when its
\* stored ttlVersion still matches.
ExpireTtl(s, e) ==
  /\ e \in queue[s] /\ e.expiry <= now
  /\ queue' = [queue EXCEPT ![s] = @ \ {e}]
  /\ kv' = IF e.key \in DOMAIN kv[s] /\ kv[s][e.key].ttlVersion = e.ttlVersion
           THEN [kv EXCEPT ![s] = Drop(@, e.key)]
           ELSE kv
  /\ UNCHANGED <<now, deadline, pending, unreachable, answer, merged, result, parsed, done>>

Init ==
  /\ now = 0
  /\ \E hold \in [Stores -> [Keys -> Holdings]] :
       /\ kv = [s \in Stores |->
                  [k \in {k \in Keys : hold[s][k] # Null} |->
                     StoredValue(hold[s][k].id, hold[s][k].expiry, hold[s][k].ttlVersion)]]
       /\ queue = [s \in Stores |-> UNION {EntriesOf(k, hold[s][k]) : k \in Keys}]
       /\ deadline = [s \in Stores |->
                        [k \in {k \in Keys : hold[s][k] # Null} |-> hold[s][k].expiry]]
  /\ pending = Stores
  /\ unreachable = {}
  /\ answer = [s \in Stores |-> Null]
  /\ merged = <<>>
  /\ result = Null
  /\ parsed = Null
  /\ done = FALSE

Next ==
  \/ \E s \in Stores : Respond(s) \/ Fail(s)
  \/ Finish
  \/ Tick
  \/ \E s \in Stores : \E e \in queue[s] : ExpireTtl(s, e)

Spec == Init /\ [][Next]_vars

-----------------------------------------------------------------------------
(* Properties.                                                             *)

Answers == {s \in Stores : answer[s] # Null}

TypeOK ==
  /\ now \in 0..MaxTime
  /\ pending \cup unreachable \subseteq Stores /\ pending \cap unreachable = {}
  /\ Answers \cap (pending \cup unreachable) = {}
  /\ \A s \in Stores : DOMAIN kv[s] \subseteq DOMAIN deadline[s]
  /\ \A s \in Answers : DOMAIN answer[s].pub \subseteq DOMAIN answer[s].dump
  /\ done \in BOOLEAN /\ (result = Null \/ DOMAIN result \subseteq Keys)
  /\ parsed = Null \/ DOMAIN parsed = DOMAIN result

\* dumpAllWithThriftClientFromMultiple returns null exactly when every
\* address failed, and otherwise, whatever order the answers arrived in,
\* holds every key any store answered with a value at least as good (by
\* compareValues) as every store's value for it.
ResultIsBestOfAnswers ==
  done =>
    /\ result = Null <=> Answers = {}
    /\ result # Null =>
         \A s \in Answers : \A k \in DOMAIN answer[s].pub :
           /\ k \in DOMAIN result
           /\ CompareValues(result[k], answer[s].pub[k]) \in {0, 1}

\* A key that some answering store held under the prefix with at least
\* kTtlThreshold left to its live deadline (or no deadline) when it
\* answered is in the result: updatePublicationTtl erases it only by the
\* deadline of the value's own ttlVersion, not an older one still queued.
LiveKeysReturned ==
  done /\ result # Null =>
    \A s \in Answers : \A k \in DOMAIN answer[s].dump :
      \/ deadline[s][k] = TtlInfinity
      \/ deadline[s][k] - answer[s].at < TtlThreshold
      \/ k \in DOMAIN result

\* Every value a store sends after updatePublicationTtl has a ttl the
\* receiver's mergeKeyValues accepts, and a finite one is strictly less
\* than the time the value has left at the store (ttlDecr), so a value
\* bounced between stores never gains lifetime.
PublishedTtlsAccepted ==
  \A s \in Answers : \A k \in DOMAIN answer[s].pub :
    /\ ValidTtl(answer[s].pub[k])
    /\ deadline[s][k] # TtlInfinity =>
         answer[s].pub[k].ttl < deadline[s][k] - answer[s].at

=============================================================================
