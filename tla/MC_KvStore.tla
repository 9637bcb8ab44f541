------------------------------ MODULE MC_KvStore ------------------------------
(***************************************************************************)
(* Model of one area with two keys where one is a prefix of the other,    *)
(* two originators, two versions, two payloads and one stream client      *)
(* that may subscribe with three different KeyDumpParams.                 *)
(***************************************************************************)
EXTENDS KvStore

\* Constants::kTtlInfinity (INT32_MIN)
MCTtlInfinity == -2147483647 - 1

MCKeys == {<<1>>, <<1, 1>>}

\* (version, originator, payload) triples: a base value, a larger payload of
\* the same version and originator, a larger originator of the same
\* version, and a larger version; enough for each comparator to decide.
Identities == {<<1, 1, 1>>, <<1, 1, 2>>, <<1, 2, 1>>, <<2, 1, 1>>}

\* Values a local caller sets: full values at ttlVersion 0 (the hash left
\* for the store to generate) with an infinite or a finite ttl; ttl
\* refreshes at ttlVersion 1 that carry only a hash, as KvStoreWrapper::
\* setKey does in the TTL tests; a value with a ttl below the floor.
MCValues ==
  {[version |-> i[1], originatorId |-> i[2], value |-> i[3], ttl |-> t,
    ttlVersion |-> 0, hash |-> NoValue] : i \in Identities, t \in {TtlInfinity, 1}}
  \cup
  {[version |-> i[1], originatorId |-> i[2], value |-> NoValue, ttl |-> 1,
    ttlVersion |-> 1, hash |-> GenerateHash(i[1], i[2], i[3])] :
      i \in {<<1, 1, 1>>, <<1, 1, 2>>, <<2, 1, 1>>}}
  \cup
  {[version |-> 1, originatorId |-> 1, value |-> 1, ttl |-> 0, ttlVersion |-> 0,
    hash |-> NoValue]}

MCParams ==
  { [keys |-> {}, originatorIds |-> {}, oper |-> "OR",
     ignoreTtl |-> FALSE, doNotPublishValue |-> FALSE],
    [keys |-> {<<1, 1>>}, originatorIds |-> {1}, oper |-> "AND",
     ignoreTtl |-> TRUE, doNotPublishValue |-> FALSE],
    [keys |-> {<<1, 1>>}, originatorIds |-> {1}, oper |-> "OR",
     ignoreTtl |-> FALSE, doNotPublishValue |-> TRUE] }

=============================================================================
