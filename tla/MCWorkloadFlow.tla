--------------------------- MODULE MCWorkloadFlow ---------------------------
(* Three clocks, faults and requests for TLC.                              *)
EXTENDS WorkloadFlow

\* In step; the exchange ahead; the resource ahead or behind.
MCOffsets == {[exchange |-> 0, resource |-> r] : r \in {-3, 0, 3}} \cup {[exchange |-> 2, resource |-> 0]}

\* The whole grant, or a part of it.
SomeScope == {{}, {"read"}}
=============================================================================
