--------------------------- MODULE MCWorkloadToken ---------------------------
(* WorkloadToken on small instances.                                       *)
EXTENDS WorkloadToken, TLC

CONSTANTS c1, c2

\* A token that lives as long as the answer says, one whose exp claim comes
\* first and whose nbf is ahead of this host, and one inside the margin.
Answers == {[skew |-> 0, ends |-> 4, life |-> 4], [skew |-> 1, ends |-> 3, life |-> 4],
            [skew |-> 0, ends |-> 1, life |-> 1]}

OneAnswer == {[skew |-> 0, ends |-> 4, life |-> 4]}

Symmetric == Permutations(Caller)
=============================================================================
