----------------------------- MODULE KvStoreUtil -----------------------------
(***************************************************************************)
(* The value algebra of KvStore (openr/kvstore/KvStoreUtil.h): the        *)
(* thrift::Value record, compareValues, the KvStoreFilters matcher,        *)
(* mergeKeyValues with its KvStoreNoMergeReasonStats, and the dump          *)
(* helpers.  Everything here is a pure operator; the modules that own      *)
(* state (KvStore, KvStoreFlood) apply them.                               *)
(*                                                                         *)
(* Data abstraction: a key is a sequence of symbols, and a key regex is    *)
(* a start-anchored literal, so it matches exactly the keys it is a prefix *)
(* of ("key3" matches "key33" in the handler tests).  A payload is a       *)
(* number and byte-wise comparison of payloads is comparison of numbers.   *)
(* An originator id is a number, so lexicographic order of ids is order  *)
(* of numbers.  The hash is the triple it digests, so two hashes are      *)
(* equal exactly when they digest the same (version, originator,          *)
(* payload).                                                               *)
(***************************************************************************)
EXTENDS Integers, Sequences, FiniteSets, SequencesExt

CONSTANTS
  NoValue,      \* the absent payload of a hash-only (or TTL-only) value
  TtlInfinity,  \* Constants::kTtlInfinity, the "never expires" sentinel
  TtlFloor      \* smallest finite ttl the merge accepts (1 ms)

ASSUME TtlInfinity \in Int /\ TtlFloor \in Int /\ TtlInfinity < TtlFloor

-----------------------------------------------------------------------------
(* Values and hashes.                                                      *)

\* generateHash(version, originatorId, value)
GenerateHash(version, originatorId, value) == <<version, originatorId, value>>

HasValue(v) == v.value # NoValue

\* A copy of v with its payload stripped and its hash kept (hash dump,
\* doNotPublishValue, TTL-only announcements).
StripValue(v) == [v EXCEPT !.value = NoValue]

\* Mutant: the store keeps the value as received, hash missing or not.
WithHashNotFilled(v) == v

\* The entry a store keeps for a value: a missing hash is filled in.
WithHash(v) ==
  IF v.hash = NoValue
  THEN [v EXCEPT !.hash = GenerateHash(v.version, v.originatorId, v.value)]
  ELSE v

\* Erase a key from a partial map key -> value (thrift KeyVals).
Drop(f, k) == Restrict(f, DOMAIN f \ {k})

-----------------------------------------------------------------------------
(* compareValues(v1, v2): 1 if v1 is better, -1 if v2 is better, 0 if     *)
(* equal, -2 if unknown.  Attributes in order: version, originatorId,     *)
(* payload identity, ttlVersion; the first one that differs decides.      *)

Sign(a, b) == IF a > b THEN 1 ELSE IF a < b THEN -1 ELSE 0

\* Comparator (c): 0 when the payloads are the same, +-1 when both are
\* present and differ, -2 when identity can only be judged by hashes and
\* the hashes differ.
ComparePayload(v1, v2) ==
  IF HasValue(v1) /\ HasValue(v2) THEN Sign(v1.value, v2.value)
  ELSE IF v1.hash = v2.hash THEN 0
  ELSE -2

CompareValues(v1, v2) ==
  IF v1.version # v2.version THEN Sign(v1.version, v2.version)
  ELSE IF v1.originatorId # v2.originatorId THEN Sign(v1.originatorId, v2.originatorId)
  ELSE IF ComparePayload(v1, v2) # 0 THEN ComparePayload(v1, v2)
  ELSE Sign(v1.ttlVersion, v2.ttlVersion)

\* The two values agree on attributes (a)-(c): only ttlVersion may differ.
SameIdentity(v1, v2) ==
  /\ v1.version = v2.version
  /\ v1.originatorId = v2.originatorId
  /\ ComparePayload(v1, v2) = 0

-----------------------------------------------------------------------------
(* KvStoreFilters: a list of key regexes, a set of originator ids and an  *)
(* operator.  An empty list matches every key, an empty set every node.   *)

\* KeyDumpParams as the handler receives them; the same record is the
\* filter passed to mergeKeyValues (its ignoreTtl/doNotPublishValue unused).
KvStoreFilters(keys, originatorIds, oper) ==
  [keys |-> keys, originatorIds |-> originatorIds, oper |-> oper]

KeyRegexMatch(f, key) == \E p \in f.keys : IsPrefix(p, key)

\* Mutant: an OR filter with keys matches on the keys alone.
KeyMatchAnyKeysOnly(f, key, value) ==
  IF f.keys # {} THEN KeyRegexMatch(f, key)
  ELSE f.originatorIds = {} \/ value.originatorId \in f.originatorIds

KeyMatchAny(f, key, value) ==
  \/ f.keys = {} /\ f.originatorIds = {}
  \/ f.keys # {} /\ KeyRegexMatch(f, key)
  \/ f.originatorIds # {} /\ value.originatorId \in f.originatorIds

KeyMatchAll(f, key, value) ==
  /\ f.keys = {} \/ KeyRegexMatch(f, key)
  /\ f.originatorIds = {} \/ value.originatorId \in f.originatorIds

\* Mutant: the filter operator is ignored and every filter is OR.
KeyMatchOperIgnored(f, key, value) == KeyMatchAny(f, key, value)

KeyMatch(f, key, value) ==
  IF f.oper = "AND" THEN KeyMatchAll(f, key, value) ELSE KeyMatchAny(f, key, value)

-----------------------------------------------------------------------------
(* mergeKeyValues(kvStore, keyVals, filters).                              *)

NoMergeReasons == {"NO_MATCHED_KEY", "INVALID_TTL", "OLD_VERSION", "NO_NEED_TO_UPDATE"}

NoFilter == [keys |-> {}, originatorIds |-> {}, oper |-> "NONE"]

ValidTtl(v) == v.ttl = TtlInfinity \/ v.ttl >= TtlFloor

\* Mutant: an incoming value equal to the stored one is applied again.
MergeOutcomeRepublishEqual(kvStore, key, value, filters) ==
  IF filters # NoFilter /\ ~KeyMatch(filters, key, value) THEN "NO_MATCHED_KEY"
  ELSE IF ~ValidTtl(value) THEN "INVALID_TTL"
  ELSE IF key \notin DOMAIN kvStore THEN "FULL"
  ELSE LET rc == CompareValues(kvStore[key], value) IN
       CASE rc = -1 /\ SameIdentity(kvStore[key], value) -> "TTL"
         [] rc \in {-1, 0} -> "FULL"
         [] rc = 1  -> "OLD_VERSION"
         [] OTHER   -> "UNKNOWN"

\* Mutant: the newer version wins, and on equal versions the incoming
\* value, without the originator, payload and ttlVersion tie-breaks.
MergeOutcomeVersionOnly(kvStore, key, value, filters) ==
  IF filters # NoFilter /\ ~KeyMatch(filters, key, value) THEN "NO_MATCHED_KEY"
  ELSE IF ~ValidTtl(value) THEN "INVALID_TTL"
  ELSE IF key \notin DOMAIN kvStore THEN "FULL"
  ELSE CASE value.version < kvStore[key].version -> "OLD_VERSION"
         [] SameIdentity(kvStore[key], value) -> "TTL"
         [] OTHER -> "FULL"

\* Mutant: a comparison the merge cannot decide (-2) is applied as new.
MergeOutcomeUnknownAccepted(kvStore, key, value, filters) ==
  IF filters # NoFilter /\ ~KeyMatch(filters, key, value) THEN "NO_MATCHED_KEY"
  ELSE IF ~ValidTtl(value) THEN "INVALID_TTL"
  ELSE IF key \notin DOMAIN kvStore THEN "FULL"
  ELSE LET rc == CompareValues(kvStore[key], value) IN
       CASE rc = -1 /\ SameIdentity(kvStore[key], value) -> "TTL"
         [] rc \in {-1, -2} -> "FULL"
         [] rc = 1  -> "OLD_VERSION"
         [] OTHER   -> "NO_NEED_TO_UPDATE"

\* The outcome for one incoming (key, value): "FULL", "TTL" (ttl-only
\* refresh), "UNKNOWN" (comparison refused), or a no-merge reason.
\* Spec 4.1: a key absent from the store is accepted unconditionally
\* (step 3), and an unknown comparison (-2) is refused and only counted
\* as a diagnostic (step 4), which is the unknownKeys entry of the stats.
MergeOutcome(kvStore, key, value, filters) ==
  IF filters # NoFilter /\ ~KeyMatch(filters, key, value) THEN "NO_MATCHED_KEY"
  ELSE IF ~ValidTtl(value) THEN "INVALID_TTL"
  ELSE IF key \notin DOMAIN kvStore THEN "FULL"
  ELSE LET rc == CompareValues(kvStore[key], value) IN
       CASE rc = -1 /\ SameIdentity(kvStore[key], value) -> "TTL"
         [] rc = -1 -> "FULL"
         [] rc = 1  -> "OLD_VERSION"
         [] rc = 0  -> "NO_NEED_TO_UPDATE"
         [] OTHER   -> "UNKNOWN"

\* What the store keeps after an accepted outcome.
MergedValue(kvStore, key, value, outcome) ==
  IF outcome = "FULL" THEN WithHash(value)
  ELSE [kvStore[key] EXCEPT !.ttl = value.ttl, !.ttlVersion = value.ttlVersion]

\* The announced update: the new value, or for a ttl-only refresh the
\* stored value without payload, marked ttlOnly.
Announced(kvStore, key, value, outcome) ==
  IF outcome = "FULL"
  THEN [value |-> WithHash(value), ttlOnly |-> FALSE]
  ELSE [value |-> StripValue(MergedValue(kvStore, key, value, outcome)),
        ttlOnly |-> TRUE]

\* Returns the new store, the publication of updated values (key ->
\* [value, ttlOnly]) and the KvStoreNoMergeReasonStats of the batch.
MergeKeyValues(kvStore, keyVals, filters) ==
  LET out == [k \in DOMAIN keyVals |-> MergeOutcome(kvStore, k, keyVals[k], filters)]
      acc == {k \in DOMAIN keyVals : out[k] \in {"FULL", "TTL"}}
      why(r) == {k \in DOMAIN keyVals : out[k] = r}
  IN [kvStore |-> [k \in DOMAIN kvStore \cup acc |->
                     IF k \in acc THEN MergedValue(kvStore, k, keyVals[k], out[k])
                     ELSE kvStore[k]],
      updates |-> [k \in acc |-> Announced(kvStore, k, keyVals[k], out[k])],
      stats |-> [noMergeReasons |-> [k \in {k \in DOMAIN keyVals : out[k] \in NoMergeReasons}
                                       |-> out[k]],
                 numberOfNoMatchedKeys |-> Cardinality(why("NO_MATCHED_KEY")),
                 listInvalidTtls |-> {keyVals[k].ttl : k \in why("INVALID_TTL")},
                 listOldVersions |-> {keyVals[k].version : k \in why("OLD_VERSION")},
                 numberOfNoNeedToUpdates |-> Cardinality(why("NO_NEED_TO_UPDATE")),
                 unknownKeys |-> why("UNKNOWN")]]

-----------------------------------------------------------------------------
(* Order independence of the merge, over bounded inputs.                  *)

\* Full values of key1 a flood or a local set can bring: a base identity
\* and one larger in each of version, originator and payload, each at two
\* ttlVersions, all with the same ttl.  Payload-less entries and values
\* that differ only in ttl are left out: for them the order of arrival is
\* known to matter (a ttl refresh before its value; the first-arrival ttl
\* of a tie).
RefValues ==
  {[version |-> i[1], originatorId |-> i[2], value |-> i[3], ttl |-> TtlInfinity,
    ttlVersion |-> t, hash |-> NoValue] :
     i \in {<<1, 1, 1>>, <<1, 1, 2>>, <<1, 2, 1>>, <<2, 1, 1>>}, t \in {0, 1}}

\* The stores of key1 such a merge can start from.
RefStores == {<<>>} \cup {<<1>> :> WithHash(v) : v \in RefValues}

\* The store after mergeKeyValues of one value of key1, without filters.
MergeOne(store, v) == MergeKeyValues(store, <<1>> :> v, NoFilter).kvStore

\* mergeKeyValues is order-independent and idempotent on full values: two
\* values merged in either order leave the same store, and a value merged
\* again changes nothing.  This is what lets every replica settle on the
\* same value of a key whatever order floods and syncs deliver it in
\* (compareValues' version, originator, payload and ttlVersion order).
MergeOrderIndependent ==
  \A s \in RefStores, a, b \in RefValues :
    /\ MergeOne(MergeOne(s, a), b) = MergeOne(MergeOne(s, b), a)
    /\ MergeOne(MergeOne(s, a), a) = MergeOne(s, a)

-----------------------------------------------------------------------------
(* Dumps.                                                                  *)

\* Mutant: doNotPublishValue is not honoured by the dump.
DumpAllWithFiltersKeepsValue(kvStore, f, doNotPublishValue) ==
  [k \in {k \in DOMAIN kvStore : KeyMatch(f, k, kvStore[k])} |-> kvStore[k]]

\* dumpAllWithFilters(area, kvStore, kvFilters, doNotPublishValue)
DumpAllWithFilters(kvStore, f, doNotPublishValue) ==
  [k \in {k \in DOMAIN kvStore : KeyMatch(f, k, kvStore[k])} |->
     IF doNotPublishValue THEN StripValue(kvStore[k]) ELSE kvStore[k]]

\* dumpHashWithFilters(area, kvStore, kvFilters)
DumpHashWithFilters(kvStore, f) == DumpAllWithFilters(kvStore, f, TRUE)

\* dumpDifference(area, myKeyVal, reqKeyVal): my keys the requester lacks
\* or holds with another hash, except those where it holds the better one.
DumpDifference(myKeyVal, reqKeyVal) ==
  [k \in {k \in DOMAIN myKeyVal :
            \/ k \notin DOMAIN reqKeyVal
            \/ /\ myKeyVal[k].hash # reqKeyVal[k].hash
               /\ CompareValues(myKeyVal[k], reqKeyVal[k]) # -1} |-> myKeyVal[k]]

=============================================================================
