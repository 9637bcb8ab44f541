------------------------- MODULE MC_KvStoreMultiDump -------------------------
(***************************************************************************)
(* Two stores, a key under the dumped prefix and one outside it, two      *)
(* identities of the same version (a base, and a larger originator with    *)
(* another payload), deadlines at and above kTtlThreshold, and a clock     *)
(* that passes both.                                                       *)
(***************************************************************************)
EXTENDS KvStoreMultiDump

\* Constants::kTtlInfinity (INT32_MIN)
MCTtlInfinity == -2147483647 - 1

MCKeys == {<<1>>, <<2>>}

MCPrefix == <<1>>

MCIds == {<<1, 1, 1>>, <<1, 2, 2>>}

=============================================================================
