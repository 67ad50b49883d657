---------------------------- MODULE OutputSchema ----------------------------
(* How the Anthropic client asks for a Format's schema: anthropicSchema      *)
(* rewrites it for structured outputs (anthropic.go), anthropicSchemaFit     *)
(* decides whether the rewritten schema keeps their limits                   *)
(* (anthropic_schema_fit.go).  A JSON value is a record whose one field      *)
(* names its type; numbers are counted in halves, so 3 is 1.5.  A            *)
(* description is the caller's words and the limits written after them.      *)
EXTENDS Integers, Sequences, FiniteSets, SequencesExt, TLC

CONSTANTS
    MaxOptionalParameters,  \* anthropicMaxOptionalParameters
    MaxUnionParameters,     \* anthropicMaxUnionParameters
    MaxDepth                \* the deepest node fitNode looks at

Is(kind, v) == kind \in DOMAIN v
Has(kind, schema, key) == key \in DOMAIN schema /\ Is(kind, schema[key])

UnsupportedKeywords ==
    {"minimum", "maximum", "exclusiveMinimum", "exclusiveMaximum", "multipleOf", "minLength",
     "maxLength", "maxItems", "uniqueItems", "minContains", "maxContains", "minProperties",
     "maxProperties"}
Bounds == UnsupportedKeywords \cup {"minItems"}
DataKeywords == {"default", "const", "enum", "examples"}
NamedSchemas == {"properties", "$defs", "definitions"}
StructuredKeywords ==
    DataKeywords \cup NamedSchemas \cup
    {"type", "required", "additionalProperties", "items", "anyOf", "allOf", "$ref", "description",
     "title", "format", "minItems", "pattern", "$schema", "$id", "$comment"}

-----------------------------------------------------------------------------
(* anthropicSchema                                                         *)

jsonTypeAllows(name, value) ==
    CASE name = "integer" -> Is("number", value) /\ value.number % 2 = 0
      [] name \in {"null", "string", "boolean", "number"} -> Is(name, value)
      [] OTHER -> FALSE

\* Mutant: the type list goes and every value of the enum stays.
enumWithoutTypes(schema) ==
    IF Has("array", schema, "type") /\ Has("array", schema, "enum")
    THEN [k \in DOMAIN schema \ {"type"} |-> schema[k]] ELSE schema

\* An enum under a type list keeps the values the list allows, without it.
enumWithoutTypeList(schema) ==
    IF Has("array", schema, "type") /\ Has("array", schema, "enum")
    THEN LET Allowed(value) == \E i \in DOMAIN schema.type.array : jsonTypeAllows(schema.type.array[i].string, value)
         IN [k \in DOMAIN schema \ {"type"} |->
                IF k = "enum" THEN [array |-> SelectSeq(schema.enum.array, Allowed)] ELSE schema[k]]
    ELSE schema

\* Mutant: a bound that stays in some schemas is never worded.
describeUnsupported(original, stripped) ==
    LET limits == {k \in DOMAIN original \cap UnsupportedKeywords : k = "uniqueItems" => original[k] = [boolean |-> TRUE]}
    IN IF limits = {} THEN stripped
       ELSE [k \in DOMAIN stripped \cup {"description"} |->
                IF k # "description" THEN stripped[k]
                ELSE [words |-> IF k \in DOMAIN stripped THEN stripped[k].words ELSE "",
                      limits |-> [l \in limits |-> original[l]]]]

\* Every bound that was dropped is worded after the node's description.
describeDroppedBounds(original, stripped) ==
    LET limits == {k \in (DOMAIN original \cap Bounds) \ DOMAIN stripped :
                     k = "uniqueItems" => original[k] = [boolean |-> TRUE]}
    IN IF limits = {} THEN stripped
       ELSE [k \in DOMAIN stripped \cup {"description"} |->
                IF k # "description" THEN stripped[k]
                ELSE [words |-> IF k \in DOMAIN stripped THEN stripped[k].words ELSE "",
                      limits |-> [l \in limits |-> original[l]]]]

Kept(schema) ==
    {k \in DOMAIN schema \ UnsupportedKeywords :
       k = "minItems" => schema[k] \in {[number |-> 0], [number |-> 2]}}

RECURSIVE stripSchema(_)

\* Mutant: the names of properties are taken for keywords.
stripNames(v) ==
    IF Is("object", v)
    THEN LET schema == v.object
             Inner(k) == IF k \in DataKeywords THEN schema[k] ELSE stripSchema(schema[k])
         IN [object |-> enumWithoutTypeList(describeDroppedBounds(schema, [k \in Kept(schema) |-> Inner(k)]))]
    ELSE IF Is("array", v) THEN [array |-> [i \in DOMAIN v.array |-> stripSchema(v.array[i])]]
    ELSE v

\* Mutant: data is stripped like a schema.
stripData(v) ==
    IF Is("object", v)
    THEN LET schema == v.object
             Inner(k) == IF k \in NamedSchemas /\ Is("object", schema[k])
                         THEN [object |-> [name \in DOMAIN schema[k].object |-> stripSchema(schema[k].object[name])]]
                         ELSE stripSchema(schema[k])
         IN [object |-> enumWithoutTypeList(describeDroppedBounds(schema, [k \in Kept(schema) |-> Inner(k)]))]
    ELSE IF Is("array", v) THEN [array |-> [i \in DOMAIN v.array |-> stripSchema(v.array[i])]]
    ELSE v

\* The schema without the bounds the API refuses; names and data stay as given.
stripSchema(v) ==
    IF Is("object", v)
    THEN LET schema == v.object
             Inner(k) ==
                CASE k \in DataKeywords -> schema[k]
                  [] k \in NamedSchemas /\ Is("object", schema[k]) ->
                       [object |-> [name \in DOMAIN schema[k].object |-> stripSchema(schema[k].object[name])]]
                  [] OTHER -> stripSchema(schema[k])
         IN [object |-> enumWithoutTypeList(describeDroppedBounds(schema, [k \in Kept(schema) |-> Inner(k)]))]
    ELSE IF Is("array", v) THEN [array |-> [i \in DOMAIN v.array |-> stripSchema(v.array[i])]]
    ELSE v

-----------------------------------------------------------------------------
(* anthropicSchemaFit                                                      *)

KnownFormats == {"date-time", "time", "date", "duration", "email", "hostname", "uri", "ipv4", "ipv6", "uuid"}

\* A $ref that does not begin with "#", and a pattern with a backreference,
\* lookaround or word boundary.
External(ref) == ref = "elsewhere"
UnsupportedPattern(pattern) == pattern = "lookaround"

typed(schema) == DOMAIN schema \cap {"type", "anyOf", "allOf", "enum", "const", "$ref"} # {}
isUnion(schema) == "anyOf" \in DOMAIN schema \/ Has("array", schema, "type")

\* Mutant: an object is only what says so.
isObjectTyped(schema) == "type" \in DOMAIN schema /\ schema["type"] = [string |-> "object"]

isObject(schema) ==
    "properties" \in DOMAIN schema \/ ("type" \in DOMAIN schema /\ schema["type"] = [string |-> "object"])

\* The checks of one node, the first that fails.
nodeFault(schema) ==
    LET faults == <<
            <<DOMAIN schema \ StructuredKeywords # {}, "unsupported_keyword">>,
            <<Has("string", schema, "$ref") /\ External(schema["$ref"].string), "external_ref">>,
            <<Has("string", schema, "format") /\ schema["format"].string \notin KnownFormats, "string_format">>,
            <<Has("string", schema, "pattern") /\ UnsupportedPattern(schema["pattern"].string), "pattern">>,
            <<Has("array", schema, "enum") /\ \E i \in DOMAIN schema["enum"].array :
                  Is("object", schema["enum"].array[i]) \/ Is("array", schema["enum"].array[i]), "complex_enum">>,
            <<isObject(schema) /\ ("additionalProperties" \notin DOMAIN schema
                                   \/ schema["additionalProperties"] # [boolean |-> FALSE]), "additional_properties_not_false">>,
            <<TRUE, "">> >>
    IN faults[SelectInSeq(faults, LAMBDA fault : fault[1])][2]

\* The nodes below a node, in the order they are visited; the order of names is
\* one and the same for every visit.
Properties(schema) ==
    IF ~Has("object", schema, "properties") THEN <<>>
    ELSE LET names == SetToSeq(DOMAIN schema["properties"].object)
             required == IF Has("array", schema, "required") THEN ToSet(schema["required"].array) ELSE {}
         IN [i \in DOMAIN names |-> [node |-> schema["properties"].object[names[i]], property |-> TRUE,
                                     optional |-> [string |-> names[i]] \notin required]]

Below(schema) ==
    LET Plain(nodes) == [i \in DOMAIN nodes |-> [node |-> nodes[i], property |-> FALSE, optional |-> FALSE]]
        Single(k) == IF Has("object", schema, k) THEN Plain(<<schema[k]>>) ELSE <<>>
        List(k) == IF Has("array", schema, k) THEN Plain(schema[k].array) ELSE <<>>
        Defs(k) == IF ~Has("object", schema, k) THEN <<>>
                   ELSE LET names == SetToSeq(DOMAIN schema[k].object)
                        IN Plain([i \in DOMAIN names |-> schema[k].object[names[i]]])
    IN Properties(schema) \o Single("items") \o Single("additionalProperties")
       \o List("anyOf") \o List("allOf") \o Defs("$defs") \o Defs("definitions")

RECURSIVE fitNode(_, _, _)

\* counts and the reason, "" while there is none, after a node is visited.
fitNode(node, counts, depth) ==
    LET Fault(reason) == [counts EXCEPT !.reason = reason]
        Visit(acc, child) ==
            LET bad == IF ~child.property THEN ""
                       ELSE IF ~Is("object", child.node) THEN "property_not_a_schema"
                       ELSE IF ~typed(child.node.object) THEN "property_without_type" ELSE ""
                counted == [acc EXCEPT !.optional = IF child.optional THEN @ + 1 ELSE @,
                                       !.unions = IF child.property /\ isUnion(child.node.object) THEN @ + 1 ELSE @]
            IN CASE acc.reason # "" -> acc
                 [] acc.reason = "" /\ bad # "" -> [acc EXCEPT !.reason = bad]
                 [] OTHER -> fitNode(child.node, counted, depth + 1)
    IN CASE depth > MaxDepth -> Fault("depth")
         [] depth <= MaxDepth /\ ~Is("object", node) -> counts
         [] depth <= MaxDepth /\ Is("object", node) /\ nodeFault(node.object) # "" -> Fault(nodeFault(node.object))
         [] OTHER -> FoldLeft(Visit, counts, Below(node.object))

\* Mutant: the limit itself is over the limit.
anthropicSchemaFitExclusive(schema) ==
    LET counts == fitNode(schema, [reason |-> "", optional |-> 0, unions |-> 0], 0)
    IN CASE counts.reason # "" -> counts.reason
         [] counts.reason = "" /\ counts.optional >= MaxOptionalParameters -> "optional_parameters"
         [] counts.reason = "" /\ counts.optional < MaxOptionalParameters
            /\ counts.unions >= MaxUnionParameters -> "union_parameters"
         [] OTHER -> ""

\* The first limit the schema breaks, "" when it fits.
anthropicSchemaFit(schema) ==
    LET counts == fitNode(schema, [reason |-> "", optional |-> 0, unions |-> 0], 0)
    IN CASE counts.reason # "" -> counts.reason
         [] counts.reason = "" /\ counts.optional > MaxOptionalParameters -> "optional_parameters"
         [] counts.reason = "" /\ counts.optional <= MaxOptionalParameters
            /\ counts.unions > MaxUnionParameters -> "union_parameters"
         [] OTHER -> ""

-----------------------------------------------------------------------------
(* What a schema means, and the limits as the documentation states them.   *)

\* The schemas inside a schema, with the places they have in it.
RECURSIVE Places(_, _, _)
Places(v, place, depth) ==
    IF depth = 0 \/ ~Is("object", v) THEN {}
    ELSE LET schema == v.object
             Named(k) == IF Has("object", schema, k)
                         THEN UNION {Places(schema[k].object[n], place \o <<k, n>>, depth - 1) : n \in DOMAIN schema[k].object} ELSE {}
             Listed(k) == IF Has("array", schema, k)
                          THEN UNION {Places(schema[k].array[i], place \o <<k, ToString(i)>>, depth - 1) : i \in DOMAIN schema[k].array}
                          ELSE {}
             Inside(k) == IF k \in DOMAIN schema THEN Places(schema[k], place \o <<k>>, depth - 1) ELSE {}
         IN {<<place, schema>>}
            \cup UNION {Named(k) : k \in NamedSchemas} \cup UNION {Listed(k) : k \in {"anyOf", "allOf"}}
            \cup Inside("items") \cup Inside("additionalProperties")

\* doc.go:74-83, over every schema inside the one that is sent.
KeepsLimits(root) ==
    LET all == Places(root, <<>>, MaxDepth + 2)
        parameters == {q \in all : Len(q[1]) >= 2 /\ q[1][Len(q[1]) - 1] = "properties"}
        Required(q) == \E p \in all : /\ p[1] = SubSeq(q[1], 1, Len(q[1]) - 2)
                                      /\ "required" \in DOMAIN p[2]
                                      /\ \E i \in DOMAIN p[2]["required"].array : p[2]["required"].array[i].string = Last(q[1])
    IN /\ \A p \in all :
            LET schema == p[2] IN
            /\ DOMAIN schema \subseteq StructuredKeywords
            /\ "properties" \in DOMAIN schema \/ (Has("string", schema, "type") /\ schema["type"].string = "object") =>
                 Has("boolean", schema, "additionalProperties") /\ ~schema["additionalProperties"].boolean
            /\ "minItems" \in DOMAIN schema => schema["minItems"].number \in {0, 2}
            /\ "enum" \in DOMAIN schema => \A i \in DOMAIN schema["enum"].array :
                 DOMAIN schema["enum"].array[i] \cap {"object", "array"} = {}
            /\ "$ref" \in DOMAIN schema => ~External(schema["$ref"].string)
            /\ "format" \in DOMAIN schema => schema["format"].string \in KnownFormats
            /\ "pattern" \in DOMAIN schema => ~UnsupportedPattern(schema["pattern"].string)
       /\ \A q \in parameters : typed(q[2])
       /\ Cardinality({q \in parameters : ~Required(q)}) <= MaxOptionalParameters
       /\ Cardinality({q \in parameters : "anyOf" \in DOMAIN q[2] \/ Has("array", q[2], "type")}) <= MaxUnionParameters

IsOf(name, v) ==
    IF name = "integer" THEN Is("number", v) /\ v.number % 2 = 0 ELSE Is(name, v)

\* The values a schema accepts, its bounds left to the caller.
RECURSIVE Accepts(_, _)
Accepts(s, v) ==
    LET schema == s.object
        Names(k) == IF k \in DOMAIN schema THEN DOMAIN schema[k].object ELSE {}
    IN /\ Has("string", schema, "type") => IsOf(schema["type"].string, v)
       /\ Has("array", schema, "type") => \E i \in DOMAIN schema["type"].array : IsOf(schema["type"].array[i].string, v)
       /\ "enum" \in DOMAIN schema => \E i \in DOMAIN schema["enum"].array : schema["enum"].array[i] = v
       /\ "const" \in DOMAIN schema => schema["const"] = v
       /\ "anyOf" \in DOMAIN schema => \E i \in DOMAIN schema["anyOf"].array : Accepts(schema["anyOf"].array[i], v)
       /\ "allOf" \in DOMAIN schema => \A i \in DOMAIN schema["allOf"].array : Accepts(schema["allOf"].array[i], v)
       /\ Is("array", v) =>
            /\ "minItems" \in DOMAIN schema /\ schema["minItems"].number \in {0, 2} => 2 * Len(v.array) >= schema["minItems"].number
            /\ "items" \in DOMAIN schema => \A i \in DOMAIN v.array : Accepts(schema["items"], v.array[i])
       /\ Is("object", v) =>
            /\ "required" \in DOMAIN schema =>
                 \A i \in DOMAIN schema["required"].array : schema["required"].array[i].string \in DOMAIN v.object
            /\ \A n \in Names("properties") \cap DOMAIN v.object : Accepts(schema["properties"].object[n], v.object[n])
            /\ Has("boolean", schema, "additionalProperties") /\ ~schema["additionalProperties"].boolean =>
                 DOMAIN v.object \subseteq Names("properties")
            /\ Has("object", schema, "additionalProperties") =>
                 \A n \in DOMAIN v.object \ Names("properties") : Accepts(schema["additionalProperties"], v.object[n])

\* Each schema inside has its counterpart, with every bound kept or worded,
\* the caller's own words and data unchanged.
BoundsWorded(root, asked) ==
    LET given == Places(root, <<>>, MaxDepth + 2)
        kept == Places(asked, <<>>, MaxDepth + 2)
    IN /\ {p[1] : p \in given} = {p[1] : p \in kept}
       /\ \A p \in given, q \in kept : p[1] = q[1] =>
            /\ \A k \in DOMAIN p[2] \cap Bounds :
                 \/ k \in DOMAIN q[2] /\ q[2][k] = p[2][k]
                 \/ "description" \in DOMAIN q[2] /\ k \in DOMAIN q[2]["description"].limits
                    /\ q[2]["description"].limits[k] = p[2][k]
                 \/ k = "uniqueItems" /\ ~p[2][k].boolean
            /\ "description" \in DOMAIN p[2] => q[2]["description"].words = p[2]["description"].words
            /\ \A k \in DOMAIN p[2] \cap {"default", "const", "examples"} : k \in DOMAIN q[2] /\ q[2][k] = p[2][k]
=============================================================================
