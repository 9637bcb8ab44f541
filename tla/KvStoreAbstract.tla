--------------------------- MODULE KvStoreAbstract ---------------------------
(***************************************************************************)
(* What the replicated KvStore promises each replica, whatever the peering *)
(* and the network do: a replica's value of a key is one some node         *)
(* originated, and it only ever moves to a better value in compareValues   *)
(* order (spec 4.1: the conflict-resolution rule is a total order, and a   *)
(* merge accepts only a strictly better value).  A replica may learn       *)
(* several keys in one step (a batch merge), and may never learn a value.  *)
(***************************************************************************)
EXTENDS KvStoreUtil

CONSTANTS Nodes, Keys, Values  \* Values: the values a node may originate

VARIABLES
  view,     \* node -> key -> value the replica holds
  written   \* every <<key, value>> a node originated

avars == <<view, written>>

\* new is strictly better than old in compareValues order.
Better(old, new) == CompareValues(old, new) = -1

\* The replica n holds key k, with a value worse than v.
Improves(n, k, v) == k \notin DOMAIN view[n] \/ Better(view[n][k], v)

AInit ==
  /\ view = [n \in Nodes |-> <<>>]
  /\ written = {}

\* Node n originates value v of key k and holds it at once.
Originate(n, k, v) ==
  /\ Improves(n, k, v)
  /\ written' = written \cup {<<k, v>>}
  /\ view' = [view EXCEPT ![n] = (k :> v) @@ view[n]]

\* Replica n learns a batch upd of originated values, one per key, each
\* better than the one it holds.
Learn(n, upd) ==
  /\ upd # {}
  /\ upd \subseteq written
  /\ \A p, q \in upd : p[1] = q[1] => p = q
  /\ \A p \in upd : Improves(n, p[1], p[2])
  /\ view' = [view EXCEPT ![n] =
                [k \in {p[1] : p \in upd} |-> (CHOOSE p \in upd : p[1] = k)[2]]
                  @@ view[n]]
  /\ UNCHANGED written

ANext ==
  \/ \E n \in Nodes, k \in Keys, v \in Values : Originate(n, k, v)
  \/ \E n \in Nodes, upd \in SUBSET written : Learn(n, upd)

ASpec == AInit /\ [][ANext]_avars

=============================================================================
