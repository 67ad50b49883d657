------------------------------ MODULE LlmSchema ------------------------------
(* Complete over Anthropic with the schema it sends: LlmComplete asks only   *)
(* why structured outputs cannot be used, OutputSchema works it out of the   *)
(* caller's schema.                                                          *)
EXTENDS LlmComplete, OutputSchema

CONSTANT Value  \* JSON values the schemas are compared on

ASSUME SchemaAssumption ==
    /\ \A c \in Conf : Is("object", c.schema)
    /\ MaxOptionalParameters \in Nat /\ MaxUnionParameters \in Nat /\ MaxDepth \in Nat

\* Mutant: the schema is judged as the caller wrote it.
MisfitUnstripped(schema) == anthropicSchemaFit(schema)

\* Complete judges the schema that would be sent.
Misfit(schema) == anthropicSchemaFit(stripSchema(schema))

\* What an Anthropic request asks for is what the caller's schema describes.
\* Structured outputs are used exactly when the schema they are sent keeps
\* their documented limits, everywhere inside it ("the client picks one mode
\* and never pays for a refusal"), unless it nests too deep to be looked at.
\* That schema accepts exactly the values the caller's accepts, bounds aside,
\* when its enums are scalars, and every bound is kept or worded in a
\* description (stripSchema, describeDroppedBounds, enumWithoutTypeList,
\* fitNode).
SchemaAsGiven ==
    pc = "send" /\ n = 1 /\ conf.kind = "anthropic" /\ conf.format = "schema" =>
        LET asked == stripSchema(conf.schema)
            scalar == \A p \in Places(conf.schema, <<>>, MaxDepth + 2) : Has("array", p[2], "enum") =>
                         \A i \in DOMAIN p[2]["enum"].array : DOMAIN p[2]["enum"].array[i] \cap {"object", "array"} = {}
        IN  /\ KeepsLimits(asked) => mode.asks = "json_schema" \/ mode.why = "depth"
            /\ mode.asks = "json_schema" =>
                  /\ KeepsLimits(asked)
                  /\ scalar => \A v \in Value : Accepts(asked, v) <=> Accepts(conf.schema, v)
                  /\ BoundsWorded(conf.schema, asked)
=============================================================================
