---------------------------- MODULE MCLlmComplete ----------------------------
(* LlmComplete on small instances.  Caps are in units of a quarter of the   *)
(* limit: 1 and 3 are raised by a cut answer, 5 is above the limit already. *)
EXTENDS LlmSchema

Obj(members) == [object |-> members]
Arr(items) == [array |-> items]
Str(x) == [string |-> x]
Num(halves) == [number |-> halves]
Bool(b) == [boolean |-> b]
Nil == [null |-> TRUE]
Words == [words |-> "w", limits |-> <<>>]

Text == Obj([type |-> Str("string")])
Whole == Obj([type |-> Str("integer"), minimum |-> Num(1), maximum |-> Num(4)])
Nullable == Obj([type |-> Arr(<<Str("string"), Str("null")>>)])
Band == Obj([type |-> Arr(<<Str("integer"), Str("null")>>), enum |-> Arr(<<Num(2), Num(3), Str("x"), Nil>>)])
Either == Obj([anyOf |-> Arr(<<Text, Whole>>)])
List(least) == Obj([type |-> Str("array"), minItems |-> Num(least), items |-> Text, description |-> Words])

\* The kinds of nodes: the ones that fit, and one for each limit of a node.
Fitting == {Text, Whole, Nullable, Band, Either, List(2), List(4),
            Obj([const |-> Obj([maximum |-> Num(2)])]),
            Obj([type |-> Str("array"), uniqueItems |-> Bool(TRUE), default |-> Obj([minimum |-> Num(2)])]),
            Obj([type |-> Str("array"), uniqueItems |-> Bool(FALSE)]),
            Obj(("$ref" :> Str("inside"))), Obj([type |-> Str("string"), format |-> Str("date")])}
Breaking == {Obj([description |-> Words]), Obj([not |-> Text]),
             Obj([type |-> Str("string"), pattern |-> Str("lookaround")]),
             Obj([type |-> Str("string"), format |-> Str("binary")]), Obj(("$ref" :> Str("elsewhere"))),
             Obj([enum |-> Arr(<<Obj([x |-> Nil]), Nil>>)]),
             Obj([type |-> Str("object"), additionalProperties |-> Text]),
             Obj([properties |-> Obj([x |-> Text])]),
             Obj([type |-> Str("array"), items |-> Obj([properties |-> Obj([x |-> Text])])])}

Object(properties, required) ==
    Obj([type |-> Str("object"), additionalProperties |-> Bool(FALSE), properties |-> Obj(properties),
         required |-> Arr(required)])

\* A property may have the name of a keyword.
Schemas ==
    {Object([maximum |-> s], required) : s \in Fitting \cup Breaking, required \in {<<>>, <<Str("maximum")>>}}
    \cup {Object([a |-> s, maximum |-> t], required) :
             s \in {Text, Nullable}, t \in {Whole, Either}, required \in {<<>>, <<Str("a")>>, <<Str("a"), Str("maximum")>>}}
    \cup {Object([a |-> Obj([type |-> Str("array"), items |-> Object([maximum |-> s], <<>>)])], <<Str("a")>>) :
             s \in {Whole, Band, Text}}
    \cup {Object([a |-> Object([maximum |-> Object([a |-> s], <<>>)], <<Str("maximum")>>)], <<Str("a")>>) :
             s \in {Text, Object([a |-> Text], <<>>), Obj([type |-> Str("array"), items |-> Text])}}
    \cup {Obj([type |-> Str("object"), additionalProperties |-> Bool(FALSE), maxProperties |-> Num(2),
               definitions |-> Obj([maximum |-> s])]) : s \in {Whole, Obj([not |-> Text])}}

Scalars == {Nil, Str("x"), Str("y"), Bool(TRUE), Num(1), Num(2), Num(3), Num(6)}
Inner == Scalars \cup {Arr(<<>>), Arr(<<Str("x")>>), Arr(<<Num(2)>>), Obj(<<>>), Obj([maximum |-> Num(2)]),
                       Arr(<<Obj([maximum |-> Num(2)])>>), Arr(<<Obj([maximum |-> Num(3)])>>), Arr(<<Obj([x |-> Nil])>>)}
Values == Inner \cup {Obj([a |-> x]) : x \in Inner} \cup {Obj([maximum |-> x]) : x \in Inner}
          \cup {Obj([a |-> x, maximum |-> y]) : x, y \in {Nil, Str("x"), Num(2), Num(3)}}

AllConf ==
    LET base == [kind : Kind, format : Format, budgeted : BOOLEAN, seed : {FALSE}, cap : {1, 3, 5},
                 schema : {Object([a |-> Text], <<>>)}]
    IN  {c \in base : c.kind \in {"gemini", "local"} => c.cap = 1}
        \cup [kind : Kind, format : {"schema"}, budgeted : {FALSE}, seed : {TRUE}, cap : {1}, schema : {Text}]
        \cup [kind : {"anthropic"}, format : {"schema"}, budgeted : {FALSE}, seed : {FALSE}, cap : {5}, schema : Schemas]

AllReplies ==
    [text : {"", "json", "loose", "prose"}, stop : {"end", "cut"}, refusal : BOOLEAN, choices : {TRUE}]
       \cup {[text |-> "", stop |-> "end", refusal |-> FALSE, choices |-> FALSE]}
=============================================================================
