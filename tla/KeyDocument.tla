------------------------------ MODULE KeyDocument ------------------------------
(***************************************************************************)
(* authverify/jwks.go: the strict parser of JWKS documents that the file   *)
(* reader Ed25519JWKSVerifier and the HTTP client JWKSClient share.        *)
(*                                                                         *)
(* A document is [keys, trailing]: its keys in order, and whether more     *)
(* than one JSON value stands in the bytes.  A key is [kid, public, fits,  *)
(* retire, again]: fits says that its type, curve, algorithm, use, key id  *)
(* and size are right and that no unknown member stands in it; retire is   *)
(* retire_after, "absent", "valid" or "malformed"; again is the set of     *)
(* public keys that a repeated member x names besides.                     *)
(***************************************************************************)
EXTENDS Integers, Sequences, FiniteSets

Invalid == [x \in {"invalid"} |-> "invalid"]  \* ErrInvalidJWKS

\* Mutant: a repeated member name overwrites the first.
singleDocumentLastWins(doc) == ~doc.trailing

\* One JSON value in which no object repeats a member name.
singleDocumentWithoutDuplicateMembers(doc) ==
    ~doc.trailing /\ \A i \in DOMAIN doc.keys : doc.keys[i].again = {}

\* retire_after must be well formed and is admitted on the file path only.
retireAfterFits(retire, admitRetireAfter) ==
    retire = "absent" \/ (retire = "valid" /\ admitRetireAfter)

\* Mutant: a kid may come twice.
KeysFitRepeated(doc, admitRetireAfter) ==
    \A i \in DOMAIN doc.keys : doc.keys[i].fits /\ retireAfterFits(doc.keys[i].retire, admitRetireAfter)

\* Every key is right and no kid comes twice.
KeysFit(doc, admitRetireAfter) ==
    /\ \A i \in DOMAIN doc.keys : doc.keys[i].fits /\ retireAfterFits(doc.keys[i].retire, admitRetireAfter)
    /\ \A i, j \in DOMAIN doc.keys : doc.keys[i].kid = doc.keys[j].kid => i = j

\* The public key of each kid, of the last key that has it.
PublicKeys(keys) ==
    [kid \in {keys[i].kid : i \in DOMAIN keys} |->
        keys[CHOOSE i \in DOMAIN keys : keys[i].kid = kid /\ \A j \in DOMAIN keys : keys[j].kid = kid => j <= i].public]

\* Mutant: a key that does not fit is left out instead of refusing the document.
parseJWKSDocumentPartly(doc, admitRetireAfter) ==
    LET fitting == SelectSeq(doc.keys, LAMBDA k : k.fits /\ k.retire # "malformed")
    IN IF ~singleDocumentWithoutDuplicateMembers(doc) \/ fitting = <<>> THEN Invalid ELSE PublicKeys(fitting)

\* parseJWKSDocument: all of the document or nothing.
parseJWKSDocument(doc, admitRetireAfter) ==
    IF ~singleDocumentWithoutDuplicateMembers(doc) \/ doc.keys = <<>> \/ ~KeysFit(doc, admitRetireAfter)
    THEN Invalid ELSE PublicKeys(doc.keys)

Keys(doc) == parseJWKSDocument(doc, TRUE)       \* Ed25519JWKSVerifier
parseJWKS(doc) == parseJWKSDocument(doc, FALSE) \* JWKSClient

-----------------------------------------------------------------------------

\* What readers of JSON that differ in the member, the key or the value they
\* prefer among repeated ones, or in the keys they pass over, make of it.
Readings(doc) ==
    LET kids == {doc.keys[i].kid : i \in DOMAIN doc.keys}
        Says(kid) == UNION {{doc.keys[i].public} \cup doc.keys[i].again : i \in {j \in DOMAIN doc.keys : doc.keys[j].kid = kid}}
        unfit == {doc.keys[i].kid : i \in {j \in DOMAIN doc.keys : ~doc.keys[j].fits}}
        Over(ks) == {f \in [ks -> UNION {Says(kid) : kid \in ks}] : \A kid \in ks : f[kid] \in Says(kid)}
    IN UNION {Over(ks) : ks \in {kids, kids \ unfit} \cup (IF doc.trailing THEN {{}} ELSE {})}
================================================================================
