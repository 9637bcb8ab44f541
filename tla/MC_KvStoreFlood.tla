---------------------------- MODULE MC_KvStoreFlood ----------------------------
(* Model values for KvStoreFlood.                                          *)
EXTENDS KvStoreFlood

\* Constants::kTtlInfinity, INT32_MIN.
MCTtlInfinity == -2147483647 - 1

\* Three nodes on a line: node 2 relays between 1 and 3, so a delta of an
\* end node reaches the other end only by a re-flood, and node 2 syncs
\* with two peers at once.
MCLinks == {{1, 2}, {2, 3}}

\* Faults hit the peering of 1 and 2 only.  With a single set there is a
\* single originated value, so no originatorIds are ever compared, and
\* exchanging nodes 1 and 3 maps every behaviour to one with its faults
\* on the peering of 2 and 3: that link needs no faults of its own.
MCFaultyLinks == {{1, 2}}

=============================================================================
