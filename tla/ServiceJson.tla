----------------------------- MODULE ServiceJson -----------------------------
(***************************************************************************)
(* The parameters of a service: JSON values, the schema in the service's   *)
(* Alterator Entry, passwords, the cells of the table shown to the user,   *)
(* and the resources that parameters stand for.  Everything here is a      *)
(* function of its arguments; what follows the nesting of the values is in *)
(* ServiceParams.                                                          *)
(*                                                                         *)
(* A JSON value is a record with one field, named after its kind.  A       *)
(* pointer is <<>> or <<what it points to>>.                               *)
(***************************************************************************)
EXTENDS Integers, Sequences, FiniteSets, SequencesExt, TLC

CONSTANTS
    Parameters,   \* the parameters of the service, a sequence of schema records
    Resources,    \* its resources: [name, value (pointer), parameter ("" if none)]
    ValidateInside(_, _, _, _, _)   \* validation below a parameter: ServiceParams!validate_inside

\* An entry lists finitely many resources.
ASSUME ResourcesAreListed == Resources \in Seq({Resources[i] : i \in DOMAIN Resources})

Obj(f) == [obj |-> f]
Arr(s) == [arr |-> s]
Num(i) == [int |-> i]
Double(i) == [double |-> i]
Str(s) == [str |-> s]
Bool(b) == [bool |-> b]
Null == [null |-> 0]
Unset == [unset |-> 0]     \* a value node that was created and never given a value

Is(kind, node) == kind \in DOMAIN node

EmptyObject == Obj(<<>>)

\* What json-glib gives for a node of another kind: nothing, with a warning.
Members(node) == IF Is("obj", node) THEN node.obj ELSE <<>>
Items(node)   == IF Is("arr", node) THEN node.arr ELSE <<>>
IntOf(node)   == CASE Is("int", node)    -> node.int
                   [] Is("double", node) -> node.double
                   [] Is("bool", node)   -> IF node.bool THEN 1 ELSE 0
                   [] OTHER              -> 0
StrOf(node)   == IF Is("str", node) THEN node.str ELSE ""

Member(node, name) ==
    IF name \in DOMAIN Members(node) THEN <<Members(node)[name]>> ELSE <<>>

SetMember(node, name, value) ==
    IF Is("obj", node)
      THEN Obj([n \in {name} \cup DOMAIN node.obj |-> IF n = name THEN value ELSE node.obj[n]])
      ELSE node

RemoveMember(node, name) ==
    IF Is("obj", node)
      THEN Obj([n \in DOMAIN node.obj \ {name} |-> node.obj[n]]) ELSE node

-----------------------------------------------------------------------------
(* The schema.  "context" points to the set of commands a parameter belongs *)
(* to; "required" is the set of those in which it must be given, {"*"} when *)
(* it is the word true.  A variant of an enum has no type.                  *)

Param(name, type) ==
    [name |-> name, type |-> type, array_type |-> "", context |-> <<>>, required |-> {},
     constant |-> FALSE, password |-> FALSE, default |-> <<>>, prototype |-> "",
     min |-> <<>>, max |-> <<>>, pattern |-> <<>>, array_min |-> <<>>, array_max |-> <<>>,
     properties |-> <<>>, values |-> <<>>]

Names(params) == {params[i].name : i \in DOMAIN params}

Named(params, name) == params[CHOOSE i \in DOMAIN params : params[i].name = name]

\* The properties of an object or variant: its own or those of its prototype.
WithPrototype(p) == IF p.prototype = "" THEN p ELSE Named(Parameters, p.prototype)

Properties(p) == IF p.properties = <<>> THEN <<>> ELSE p.properties[1]

schema_param_in_context(p, context) ==
    p.context \in {<<>>, <<{}>>} \/ context \in p.context[1]

schema_param_required_in_context(p, context) == p.required \cap {context, "*"} # {}

schema_property_required(p, context) == p.required \cap {context, "*"} # {}

schema_param_matches_contexts(p, contexts) ==
    \E c \in contexts : schema_param_in_context(p, c)

\* Mutant: with diagnostics a parameter must be required there as well.
RequiredInAllContexts(p, contexts) ==
    \A c \in contexts : schema_param_required_in_context(p, c)

schema_param_required_in_contexts(p, contexts) ==
    \E c \in contexts : schema_param_required_in_context(p, c)

schema_property_required_in_contexts(p, contexts) ==
    \E c \in contexts : schema_property_required(p, c)

schema_is_constant(p) == p.constant

schema_is_password_string(p) == p.type = "string" /\ p.password

is_special_param(name) == name \in {"force_deploy", "deployed", "started"}

-----------------------------------------------------------------------------
(* Validation of one parameter.  A node of another kind than the schema     *)
(* says is read as json-glib reads it.                                      *)

validate_integer(p, node) ==
    /\ p.min = <<>> \/ IntOf(node) >= p.min[1]
    /\ p.max = <<>> \/ IntOf(node) <= p.max[1]

\* A pattern is the set of the strings that match it.
validate_string(p, node) ==
    StrOf(node) # "" /\ (p.pattern = <<>> \/ StrOf(node) \in p.pattern[1])

\* One level, given the answer for what is inside the node.
validate_json_recursive(p, node, type, contexts, skip, inside) ==
    LET match == schema_param_matches_contexts(p, contexts)
    IN \/ schema_is_constant(p)
       \/ /\ node = <<>>
          /\ match /\ schema_param_required_in_contexts(p, contexts)
               => schema_is_password_string(p) /\ skip
       \/ /\ node # <<>> /\ match /\ node[1] # Null
          /\ CASE type = "integer" -> validate_integer(p, node[1])
               [] type = "string"  -> validate_string(p, node[1])
               [] OTHER            -> inside

validate_json(json, contexts, skip) ==
    \A i \in DOMAIN Parameters :
        LET p    == Parameters[i]
            node == Member(json, p.name)
        IN validate_json_recursive(p, node, p.type, contexts, skip,
                                   ValidateInside(p, node[1], p.type, contexts, skip))

-----------------------------------------------------------------------------
(* Passwords that must be given and are not there are asked for on the     *)
(* terminal: "secret" points to the answer, and is <<>> when there is none.*)
(* The result is <<>> when a question remained without an answer.          *)

prompt_and_set_password(object, key, secret) ==
    IF Member(object, key) # <<>> /\ StrOf(Member(object, key)[1]) # "" THEN <<object>>
    ELSE IF secret = <<>> THEN <<>>
    ELSE <<SetMember(object, key, Str(secret[1]))>>

\* Only the object's own properties, not those of its prototype.
fill_object_passwords(p, object, contexts, secret) ==
    FoldLeft(LAMBDA o, child :
                IF o = <<>> \/ schema_is_constant(child)
                   \/ ~schema_property_required_in_contexts(child, contexts)
                   \/ ~schema_is_password_string(child)
                  THEN o ELSE prompt_and_set_password(o[1], child.name, secret),
             <<object>>, Properties(p))

\* Of a node with several variants the first one is taken.
fill_enum_passwords(p, node, contexts, secret) ==
    LET known == {v \in DOMAIN Members(node) \cap Names(p.values) : Is("obj", Members(node)[v])}
    IN IF known = {} THEN <<node>>
       ELSE LET v == CHOOSE v \in known : TRUE
                filled == fill_object_passwords(Named(p.values, v), Members(node)[v],
                                                contexts, secret)
            IN IF filled = <<>> THEN <<>> ELSE <<SetMember(node, v, filled[1])>>

services_fill_missing_passwords(json, contexts, secret) ==
    LET fill(o, p) ==
          LET node == Member(o, p.name)
              inside(filled) == IF filled = <<>> THEN <<>>
                                ELSE <<SetMember(o, p.name, filled[1])>>
          IN IF schema_is_constant(p) \/ ~schema_param_matches_contexts(p, contexts) THEN <<o>>
             ELSE CASE p.type = "string" ->
                    IF schema_is_password_string(p) /\ schema_param_required_in_contexts(p, contexts)
                      THEN prompt_and_set_password(o, p.name, secret) ELSE <<o>>
               [] p.type = "object" /\ node # <<>> /\ Is("obj", node[1]) ->
                    inside(fill_object_passwords(p, node[1], contexts, secret))
               [] p.type = "enum" /\ node # <<>> /\ Is("obj", node[1]) ->
                    inside(fill_enum_passwords(p, node[1], contexts, secret))
               [] OTHER -> <<o>>
    IN FoldLeft(LAMBDA o, p : IF o = <<>> THEN <<>> ELSE fill(o[1], p), <<json>>, Parameters)

-----------------------------------------------------------------------------
(* The table of parameters: a set of <<path, value>>.  "error" marks what   *)
(* makes the program refuse to go on.                                       *)

Failed == [error |-> 0]
Masked == [masked |-> 0]
Chosen(variants) == [chosen |-> variants]

status_value_to_str(node) ==
    IF Is("null", node) \/ Is("unset", node) \/ Is("arr", node) THEN Failed ELSE node

\* The required paths that the table does not show.
create_params_table(table, paths) == paths \ {row[1] : row \in table}

-----------------------------------------------------------------------------
(* Resources: what a service occupies, by a fixed value or through a        *)
(* parameter.  0: there is a value or no such resource; 1: no value; -1: an *)
(* error; 2: the value is read through a null pointer.                      *)

\* A value of an entry as it is written into the JSON: numbers as doubles.
Written(value) == IF Is("int", value) THEN Double(value.int) ELSE value

\* Mutant: the value of the resource replaces that of the parameter.
ResourceOverParameter(resources, json, name) ==
    LET r == Named(resources, name)
    IN CASE name \notin Names(resources) -> [ret |-> 0, value |-> <<>>, json |-> json]
         [] name \in Names(resources) /\ r.value = <<>> ->
              [ret |-> 1, value |-> <<Null>>, json |-> json]
         [] OTHER -> [ret |-> 0, value |-> r.value,
                      json |-> IF r.parameter = "" THEN json
                               ELSE SetMember(json, r.parameter, r.value[1])]

\* A parameter that is not in the JSON is written into it.
get_actual_resourse_value(resources, json, name) ==
    LET r == Named(resources, name)
        node == Members(json)[r.parameter]
        answer(code, value) == [ret |-> code, value |-> value, json |-> json]
    IN IF name \notin Names(resources) THEN answer(0, <<>>)
       ELSE IF r.parameter = "" THEN answer(IF r.value = <<>> THEN 1 ELSE 0, r.value)
       ELSE IF r.parameter \notin DOMAIN Members(json)
         THEN IF r.value = <<>> THEN answer(2, <<>>)
              ELSE [answer(0, r.value) EXCEPT
                       !.json = SetMember(json, r.parameter, Written(r.value[1]))]
       ELSE CASE Is("double", node) -> answer(0, <<Num(node.double)>>)
              [] DOMAIN node \subseteq {"int", "str", "bool"} -> answer(0, <<node>>)
              [] OTHER -> answer(-1, r.value)

\* One resource among those before it; a resource without a value has no text
\* that could be looked up.
LookUpResource(acc, r) ==
    LET got == get_actual_resourse_value(Resources, acc.json, r.name)
    IN IF acc.is = "crash" \/ got.ret = 2 \/ got.value = <<>>
         THEN [acc EXCEPT !.is = "crash"]
         ELSE [is |-> IF got.value[1] \in acc.seen THEN "error" ELSE acc.is,
               json |-> got.json, seen |-> acc.seen \cup {got.value[1]}]

\* Two resources of the service with one value.
find_conflicting_resources_within_current_service(json) ==
    LET acc[i \in 0..Len(Resources)] ==
          IF i = 0 THEN [is |-> "ok", json |-> json, seen |-> {}]
          ELSE LookUpResource(acc[i - 1], Resources[i])
    IN acc[Len(Resources)]

\* The value of one resource against that of the deployed service's resource of
\* the same name.
CompareResource(acc, r, other) ==
    LET mine   == get_actual_resourse_value(Resources, acc.json, r.name)
        theirs == get_actual_resourse_value(other.resources, other.json, r.name)
    IN IF acc.is \in {"crash", "stop"} THEN acc
       ELSE IF mine.ret = 2 \/ (mine.ret = 0 /\ theirs.ret = 2) THEN [acc EXCEPT !.is = "crash"]
       ELSE IF mine.ret = -1 \/ (mine.ret = 0 /\ theirs.ret = -1) THEN [acc EXCEPT !.is = "stop"]
       ELSE [is |-> IF mine.ret = 0 /\ theirs.ret = 0 /\ mine.value # <<>>
                       /\ mine.value = theirs.value THEN "error" ELSE acc.is,
             json |-> mine.json]

check_resources_conflicts(json, other) ==
    LET acc[i \in 0..Len(Resources)] ==
          IF i = 0 THEN [is |-> "ok", json |-> json]
          ELSE CompareResource(acc[i - 1], Resources[i], other)
    IN acc[Len(Resources)]

=============================================================================
