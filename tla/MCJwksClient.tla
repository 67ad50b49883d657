----------------------------- MODULE MCJwksClient -----------------------------
(* JwksClient on a small instance.                                         *)
EXTENDS JwksClient

CONSTANTS c1, c2, k1, k2, p, q

Key(kid, public) == [kid |-> kid, public |-> public, fits |-> TRUE, retire |-> "absent", again |-> {}]

Doc(keys) == [keys |-> keys, trailing |-> FALSE]

\* The key, its withdrawal, a key that does not fit beside it, and documents
\* that repeat the kid and the member x.
Documents == {
    Doc(<<Key(k1, p)>>),
    Doc(<<Key(k2, p)>>),
    Doc(<<Key(k1, p), [Key(k2, q) EXCEPT !.fits = FALSE]>>),
    Doc(<<Key(k1, p), [Key(k1, q) EXCEPT !.retire = "valid"]>>),
    Doc(<<[Key(k1, p) EXCEPT !.again = {q}]>>)}

FirstDocuments == {Doc(<<Key(k1, p)>>)}
===============================================================================
