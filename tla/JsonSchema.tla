------------------------------ MODULE JsonSchema ------------------------------
(***************************************************************************)
(* The validators of @marblejs/middleware-io and the JSON schemas that they  *)
(* publish in the metadata of a request: ioTypeToJsonSchema, mergeJsonObjects *)
(* and the chain of requestValidator$ middlewares of a route.                 *)
(*                                                                          *)
(* Values are bodies as in Payload. A codec of io-ts is a record with its tag  *)
(* and its parts; a JSON schema is a record of its keywords, where the two      *)
(* forms of items and of additionalProperties have names of their own           *)
(* (items / tuple, additional / codomain).                                     *)
(***************************************************************************)
EXTENDS Payload, Sequences, SequencesExt

Falsies == {<<"boolean", "false">>, <<"number", "0">>, <<"string", Nothing>>}
Fractions == {<<"number", "1.5">>}
UndefinedSchema == [type |-> "undefined"]

------------------------------------------------------------------------------
(* io-ts: which values a codec decodes, and to what.                          *)

Field(value, key) == IF key \in DOMAIN value[2] THEN value[2][key] ELSE Undefined

RECURSIVE Accepts(_, _)
Accepts(codec, value) ==
    CASE codec.tag = "Boolean" -> value[1] = "boolean"
      [] codec.tag = "Number" -> value[1] = "number"
      [] codec.tag = "String" -> value[1] = "string"
      [] codec.tag = "Undefined" -> value = Undefined
      [] codec.tag = "Null" -> value = Null
      [] codec.tag = "Unknown" -> TRUE
      [] codec.tag = "Literal" -> value = codec.value
      [] codec.tag = "Keyof" -> value[1] = "string" /\ value[2] \in codec.keys
      [] codec.tag = "Union" -> \E i \in DOMAIN codec.types : Accepts(codec.types[i], value)
      [] codec.tag = "Intersection" -> \A i \in DOMAIN codec.types : Accepts(codec.types[i], value)
      [] codec.tag = "Array" ->
            value[1] = "array" /\ \A i \in DOMAIN value[2] : Accepts(codec.type, value[2][i])
      [] codec.tag = "Tuple" ->
            /\ value[1] = "array" /\ Len(value[2]) = Len(codec.types)
            /\ \A i \in DOMAIN codec.types : Accepts(codec.types[i], value[2][i])
      [] codec.tag = "Interface" ->
            /\ value[1] = "object"
            /\ \A k \in DOMAIN codec.props : Accepts(codec.props[k], Field(value, k))
      [] codec.tag = "Partial" ->
            /\ value[1] = "object"
            /\ \A k \in DOMAIN codec.props :
                  Field(value, k) = Undefined \/ Accepts(codec.props[k], Field(value, k))
      [] codec.tag = "Dictionary" ->
            /\ value[1] = "object"
            /\ \A k \in DOMAIN value[2] : Accepts(codec.codomain, value[2][k])
      [] codec.tag = "Exact" -> Accepts(codec.type, value)
      [] codec.tag = "Refinement" -> Accepts(codec.type, value) /\ value \notin codec.refuses
      [] codec.tag = "Custom" -> value \in codec.values

\* An exact codec strips what it does not name.
Decoded(codec, value) ==
    IF codec.tag # "Exact" THEN value
    ELSE <<"object", [k \in DOMAIN value[2] \intersect DOMAIN codec.type.props |-> value[2][k]]>>

------------------------------------------------------------------------------
(* io.json-schema.ts                                                          *)

\* filterTree on a list of literals: it keeps those that are truthy.
Listed(values, filtered) == values \ (IF filtered THEN Falsies ELSE {})

\* Mutant: unions with undefined stay required.
HadUndefined_Never(schema) == FALSE

\* removeUndefinedValuesFromUnion
HadUndefined(schema) ==
    "anyOf" \in DOMAIN schema /\ \E i \in DOMAIN schema.anyOf : schema.anyOf[i] = UndefinedSchema
WithoutUndefined(schema) ==
    IF HadUndefined(schema)
    THEN [schema EXCEPT !.anyOf = SelectSeq(@, LAMBDA s : s # UndefinedSchema)]
    ELSE schema

\* convert and filterTree in one: marks says what is around the codec (an Int, an
\* exact type), filtered whether filterTree gets there, which stops inside lists.
RECURSIVE Convert(_, _, _)
Convert(codec, marks, filtered) ==
    LET keyed(k) == Convert(codec.props[k], {}, filtered)
        kept == {k \in DOMAIN codec.props : filtered => keyed(k) # UndefinedSchema}
        all == [i \in DOMAIN codec.types |-> Convert(codec.types[i], {}, FALSE)]
        only(part, field) ==
            IF filtered /\ part = UndefinedSchema THEN <<>> ELSE field :> part
    IN
    CASE codec.tag = "Boolean" -> [type |-> "boolean"]
      [] codec.tag = "Number" -> [type |-> IF "Int" \in marks THEN "integer" ELSE "number"]
      [] codec.tag = "String" -> [type |-> "string"]
      [] codec.tag = "Undefined" -> UndefinedSchema
      [] codec.tag = "Null" -> [type |-> "null"]
      [] codec.tag = "Unknown" -> [type |-> "object"]
      [] codec.tag = "Literal" -> [enum |-> Listed({codec.value}, filtered)]
      [] codec.tag = "Keyof" -> [enum |-> Listed({<<"string", k>> : k \in codec.keys}, filtered)]
      [] codec.tag = "Union" ->
            IF \A i \in DOMAIN codec.types : codec.types[i].tag = "Literal"
            THEN [enum |-> Listed({codec.types[i].value : i \in DOMAIN codec.types}, filtered)]
            ELSE [anyOf |-> all]
      [] codec.tag = "Intersection" -> [allOf |-> all]
      [] codec.tag = "Array" ->
            [type |-> "array"] @@ only(Convert(codec.type, {}, filtered), "items")
      [] codec.tag = "Tuple" -> [type |-> "array", tuple |-> all]
      [] codec.tag = "Interface" ->
            [type |-> "object",
             properties |-> [k \in kept |-> WithoutUndefined(keyed(k))],
             required |-> {k \in DOMAIN codec.props : ~HadUndefined(keyed(k))},
             additional |-> "Exact" \notin marks]
      [] codec.tag = "Partial" ->
            [type |-> "object", properties |-> [k \in kept |-> keyed(k)], additional |-> TRUE]
      [] codec.tag = "Dictionary" ->
            [type |-> "object"] @@ only(Convert(codec.codomain, {}, filtered), "codomain")
      [] codec.tag = "Exact" -> Convert(codec.type, marks \union {"Exact"}, filtered)
      [] codec.tag = "Refinement" ->
            Convert(codec.type, marks \union (IF codec.name = "Int" THEN {"Int"} ELSE {}), filtered)
      [] codec.tag = "Custom" -> codec.schema

IoTypeToJsonSchema(codec) == Convert(codec, {}, TRUE)

KeywordOf(schema, keyword, none) == IF keyword \in DOMAIN schema THEN schema[keyword] ELSE none

\* mergeJsonObjects: of the second schema only what it says of properties.
MergeJsonObjects(first, second) ==
    [properties |-> KeywordOf(second, "properties", <<>>) @@ KeywordOf(first, "properties", <<>>),
     required |-> KeywordOf(first, "required", {}) \union KeywordOf(second, "required", {})]
    @@ first

------------------------------------------------------------------------------
(* The requestValidator$ middlewares of a route, in their order.              *)

IoValidate(codecs, body) ==
    FoldLeft(LAMBDA value, codec :
                IF value = Error \/ ~Accepts(codec, value) THEN Error ELSE Decoded(codec, value),
             body, codecs)

\* addMetadata: a validator adds its schema before it validates, so those that are
\* reached have added theirs.
IoMeta(codecs, body) ==
    LET reached == {i \in DOMAIN codecs : IoValidate(SubSeq(codecs, 1, i - 1), body) # Error}
        schemas == [i \in reached |-> IoTypeToJsonSchema(codecs[i])]
    IN  IF codecs = <<>> THEN <<>> ELSE FoldLeft(MergeJsonObjects, Head(schemas), Tail(schemas))

------------------------------------------------------------------------------
(* What a JSON schema means, and when it should mean what its codec does.     *)

TypeAdmits(type, value) ==
    \/ value[1] = type
    \/ type = "integer" /\ value[1] = "number" /\ value \notin Fractions

RECURSIVE Valid(_, _)
Valid(schema, value) ==
    /\ "type" \in DOMAIN schema => TypeAdmits(schema.type, value)
    /\ "enum" \in DOMAIN schema => value \in schema.enum
    /\ "anyOf" \in DOMAIN schema => \E i \in DOMAIN schema.anyOf : Valid(schema.anyOf[i], value)
    /\ "allOf" \in DOMAIN schema => \A i \in DOMAIN schema.allOf : Valid(schema.allOf[i], value)
    /\ value[1] = "array" =>
          /\ "items" \in DOMAIN schema => \A i \in DOMAIN value[2] : Valid(schema.items, value[2][i])
          /\ "tuple" \in DOMAIN schema =>
                /\ Len(value[2]) = Len(schema.tuple)
                /\ \A i \in DOMAIN value[2] : Valid(schema.tuple[i], value[2][i])
    /\ value[1] = "object" =>
          LET properties == KeywordOf(schema, "properties", <<>>)
          IN  /\ KeywordOf(schema, "required", {}) \subseteq DOMAIN value[2]
              /\ \A k \in DOMAIN value[2] \intersect DOMAIN properties :
                    Valid(properties[k], value[2][k])
              /\ KeywordOf(schema, "additional", TRUE)
                    \/ DOMAIN value[2] \subseteq DOMAIN properties
              /\ "codomain" \in DOMAIN schema =>
                    \A k \in DOMAIN value[2] : Valid(schema.codomain, value[2][k])

RECURSIVE Parts(_)
Parts(codec) ==
    {codec} \union
    CASE codec.tag \in {"Union", "Intersection", "Tuple"} ->
            UNION {Parts(codec.types[i]) : i \in DOMAIN codec.types}
      [] codec.tag \in {"Interface", "Partial"} ->
            UNION {Parts(codec.props[k]) : k \in DOMAIN codec.props}
      [] codec.tag \in {"Array", "Exact", "Refinement"} -> Parts(codec.type)
      [] codec.tag = "Dictionary" -> Parts(codec.codomain)
      [] OTHER -> {}

\* A codec that decodes an absent value says so where the schema looks for it.
MayBeAbsent(codec) == Accepts(codec, Undefined)

\* Literals that filterTree leaves in the schema wherever they are.
Truthful(part) ==
    /\ part.tag = "Literal" => part.value \notin Falsies
    /\ part.tag = "Keyof" => Nothing \notin part.keys

\* What a value is made of.
RECURSIVE Atoms(_)
Atoms(value) ==
    IF value[1] \in {"array", "object"}
    THEN UNION {Atoms(value[2][k]) : k \in DOMAIN value[2]} ELSE {value}

\* Codecs whose schemas say what they say: JSON schema has no undefined and no
\* unknown, and an undefined that is not directly in a union, itself directly a
\* property of an interface, is not noticed.
Expressible(codec) ==
    \A part \in Parts(codec) :
        /\ part.tag # "Unknown"
        /\ part.tag = "Intersection" => \A inner \in Parts(part) : inner.tag # "Exact"
        /\ part.tag = "Interface" => \A k \in DOMAIN part.props :
              MayBeAbsent(part.props[k]) =>
                  /\ part.props[k].tag = "Union"
                  /\ \E i \in DOMAIN part.props[k].types : part.props[k].types[i].tag = "Undefined"
        /\ part.tag = "Partial" => \A k \in DOMAIN part.props : part.props[k].tag # "Undefined"
        /\ part.tag = "Array" => part.type.tag # "Undefined"
        /\ part.tag = "Dictionary" => part.codomain.tag # "Undefined"
==============================================================================
