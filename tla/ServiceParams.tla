---------------------------- MODULE ServiceParams ----------------------------
(***************************************************************************)
(* What alteratorctl does with the parameters of a service at every depth  *)
(* of the schema and of the JSON: validation, initial values, merging,     *)
(* filtering, reading options, the rows of the table and the paths that    *)
(* must be in it.                                                          *)
(***************************************************************************)
EXTENDS ServiceJson

CONSTANT Numerals      \* the words that are numbers, and the numbers they are

-----------------------------------------------------------------------------
(* Validation of what is inside a parameter, each part of it again as in    *)
(* ServiceJson.                                                             *)

RECURSIVE validate_inside(_, _, _, _, _)

\* A node, read at its own level and then inside.
validate_node(p, node, type, contexts, skip) ==
    validate_json_recursive(p, node, type, contexts, skip,
                            validate_inside(p, node[1], type, contexts, skip))

\* Properties that the schema does not know are not looked at.
validate_object(p, node, contexts, skip) ==
    IF WithPrototype(p).properties = <<>> THEN DOMAIN Members(node) = {}
    ELSE \A i \in DOMAIN Properties(WithPrototype(p)) :
           LET child == Properties(WithPrototype(p))[i]
           IN validate_node(child, Member(node, child.name), child.type, contexts, skip)

validate_array(p, node, contexts, skip) ==
    LET items == Items(node)
    IN /\ p.array_min = <<>> \/ Len(items) >= p.array_min[1]
       /\ p.array_max = <<>> \/ Len(items) <= p.array_max[1]
       /\ \A i \in DOMAIN items :
            validate_node(p, <<items[i]>>, p.array_type, contexts, skip)

validate_enum(p, node, contexts, skip) ==
    /\ Cardinality(DOMAIN Members(node)) = 1
    /\ \E variant \in DOMAIN Members(node) \cap Names(p.values) :
         /\ Is("obj", Members(node)[variant])
         /\ validate_node(Named(p.values, variant), Member(node, variant), "",
                          contexts, skip)

validate_inside(p, node, type, contexts, skip) ==
    CASE type \in {"", "object"} -> validate_object(p, node, contexts, skip)
      [] type = "array"          -> validate_array(p, node, contexts, skip)
      [] type = "enum"           -> validate_enum(p, node, contexts, skip)
      [] OTHER                   -> TRUE

-----------------------------------------------------------------------------
(* Initial values, merging and filtering. *)

\* params_to_resources: the resource whose parameter has this name.
get_param_to_resource_table(name) ==
    {i \in DOMAIN Resources : Resources[i].parameter = name}

\* Optional parameters are skipped, variants and constants never are.
initial_skipped(p, required_only, context, constant) ==
    /\ p.type # "" /\ ~constant /\ required_only
    /\ p.required \cap {context, "*"} = {}

\* A simple value: the default, or the value of the linked resource.
initial_value(p, target, links, exclude_unset) ==
    LET linked == IF links THEN get_param_to_resource_table(p.name) ELSE {}
        value  == IF p.default = <<>> /\ linked # {}
                    THEN Resources[CHOOSE i \in linked : TRUE].value ELSE p.default
    IN IF value # <<>>
         THEN SetMember(target, p.name, IF p.type = "" THEN EmptyObject ELSE value[1])
       ELSE IF p.default = <<>> /\ linked # {} THEN target
       ELSE IF p.type = "" /\ (p.properties = <<>> \/ ~exclude_unset)
         THEN SetMember(target, p.name, EmptyObject)
       ELSE IF p.type # "" /\ ~exclude_unset THEN SetMember(target, p.name, Null)
       ELSE target

RECURSIVE recursive_get_initial_params(_, _, _, _, _, _, _)
recursive_get_initial_params(p, target, required_only, context, links, exclude_unset, parent) ==
    LET constant == p.constant \/ parent
        properties == Properties(WithPrototype(p))
        inside(params, exclude) ==
            FoldLeft(LAMBDA o, q : recursive_get_initial_params(q, o, required_only, context,
                                                                links, exclude, constant),
                     EmptyObject, params)
        variant(name) == inside(SelectSeq(p.values, LAMBDA q : q.name = name), FALSE)
    IN IF initial_skipped(p, required_only, context, constant) THEN target
       ELSE
         CASE p.type = "enum" /\ p.default # <<>> ->
              SetMember(target, p.name, variant(p.default[1].str))
         [] p.type \in {"", "object"} /\ properties # <<>> ->
              SetMember(target, p.name, inside(properties, exclude_unset))
         [] p.type = "array" /\ p.array_type = "object" /\ properties # <<>> ->
              SetMember(target, p.name,
                        Arr([i \in 1..(IF p.array_min = <<>> THEN 0 ELSE p.array_min[1]) |->
                                inside(properties, exclude_unset)]))
         [] p.type = "array" /\ p.array_type = "enum" /\ p.default # <<>> ->
              SetMember(target, p.name,
                        Arr([i \in DOMAIN p.default[1].arr |-> variant(p.default[1].arr[i].str)]))
         [] OTHER -> initial_value(p, target, links, exclude_unset)

get_initial_params(required_only, context, exclude_unset) ==
    FoldLeft(LAMBDA o, p : recursive_get_initial_params(p, o, required_only, context, TRUE,
                                                        exclude_unset, FALSE),
             EmptyObject, Parameters)

\* Members of the source win; objects are merged, whatever they stand for.
RECURSIVE recursive_merge_json_data(_, _)
recursive_merge_json_data(target, source) ==
    Obj([n \in DOMAIN target.obj \cup DOMAIN source.obj |->
           CASE n \notin DOMAIN source.obj -> target.obj[n]
             [] n \in DOMAIN source.obj \cap DOMAIN target.obj
                  /\ Is("obj", target.obj[n]) /\ Is("obj", source.obj[n]) ->
                    recursive_merge_json_data(target.obj[n], source.obj[n])
             [] OTHER -> source.obj[n]])

merge_json_data(first, second) ==
    IF Is("obj", first) /\ Is("obj", second)
      THEN <<recursive_merge_json_data(first, second)>> ELSE <<>>

\* What get_params_context records of a parameter: the contexts that are listed.
get_params_context(p) ==
    [usage |-> IF p.context = <<>> THEN {} ELSE p.context[1],
     required |-> p.required \ {"*"}, constant |-> p.constant]

\* Members are compared with the top-level parameters by name, at every depth.
RECURSIVE recursive_filter_params_by_context(_, _, _)
recursive_filter_params_by_context(node, context, constants_only) ==
    LET allowed(name) ==
          name \in Names(Parameters) =>
            LET info == get_params_context(Named(Parameters, name))
            IN /\ constants_only => info.constant
               /\ context \in info.usage
               /\ context = "status" \/ info.required = {} \/ context \in info.required
    IN CASE Is("obj", node) ->
              Obj([n \in {m \in DOMAIN node.obj : allowed(m)} |->
                     recursive_filter_params_by_context(node.obj[n], context, FALSE)])
         [] Is("arr", node) ->
              Arr([i \in DOMAIN node.arr |->
                     recursive_filter_params_by_context(node.arr[i], context, FALSE)])
         [] OTHER -> node

filter_params_by_context(node, context, constants_only) ==
    recursive_filter_params_by_context(
        RemoveMember(RemoveMember(node, "deployed"), "started"), context, constants_only)

-----------------------------------------------------------------------------
(* Options "--a.b.c=value" on the command line. *)

atoi(word) == IF word \in DOMAIN Numerals THEN Numerals[word] ELSE 0

\* The paths that the help of a command lists; "<i>" is the place of an index.
RECURSIVE build_contextual_arguments_recursive(_, _, _, _)
build_contextual_arguments_recursive(p, prefix, type, contexts) ==
    LET path == IF type # p.type THEN prefix ELSE Append(prefix, p.name)
        children(params) == UNION {build_contextual_arguments_recursive(params[i], path,
                                        params[i].type, contexts) : i \in DOMAIN params}
    IN IF prefix = <<>> /\ (p.context = <<>> \/ p.context[1] \cap contexts = {}) THEN {}
       ELSE
         CASE type \in {"", "object"} -> children(Properties(WithPrototype(p)))
         [] type = "array" ->
              build_contextual_arguments_recursive(p, Append(path, "<i>"), p.array_type, contexts)
         [] type = "enum" -> {path} \cup children(p.values)
         [] OTHER -> {path}

build_param_options(contexts) ==
    UNION {build_contextual_arguments_recursive(Parameters[i], <<>>, Parameters[i].type, contexts) :
             i \in DOMAIN Parameters}

\* "node" is the pointer the C code changes in place: a failure may leave it
\* changed, and below a variant a failure is not reported at all.
RECURSIVE fill_node_recursive(_, _, _, _, _)

\* The last word of a path whose parameter is an enum: the variant is chosen,
\* with its own defaults, and every other one is dropped.
fill_enum(p, node, value) ==
    LET object == IF node = <<>> THEN EmptyObject ELSE node[1]
        kept   == IF Is("obj", object)
                    THEN Obj([n \in DOMAIN object.obj \cap {value} |-> object.obj[n]]) ELSE object
    IN IF DOMAIN Members(kept) # {} THEN [ok |-> TRUE, node |-> <<kept>>]
       ELSE IF value \in Names(p.values)
         THEN [ok |-> TRUE,
               node |-> <<recursive_get_initial_params(Named(p.values, value), kept, TRUE, "",
                                                       FALSE, FALSE, FALSE)>>]
         ELSE [ok |-> FALSE, node |-> <<SetMember(kept, value, EmptyObject)>>]

fill_value(type, node, value) ==
    LET created == IF node = <<>> THEN <<Unset>> ELSE node
    IN CASE type = "integer" -> [ok |-> TRUE, node |-> <<Num(atoi(value))>>]
         [] type = "string"  -> [ok |-> TRUE, node |-> <<Str(value)>>]
         [] type = "boolean" /\ value \in {"true", "false"} ->
                                [ok |-> TRUE, node |-> <<Bool(value = "true")>>]
         [] OTHER            -> [ok |-> FALSE, node |-> created]

\* A child that the object's schema does not know is looked for among the
\* top-level parameters.
fill_object(p, type, node, path, value) ==
    LET object == IF node = <<>> THEN EmptyObject ELSE node[1]
        known  == SelectSeq(Properties(WithPrototype(p)), LAMBDA q : q.name = path[2])
        old    == IF Member(object, path[2]) = <<Null>> THEN <<>> ELSE Member(object, path[2])
        new    == fill_node_recursive(old, Tail(path), value, known, FALSE)
        base   == IF Member(object, path[2]) = <<Null>> THEN RemoveMember(object, path[2]) ELSE object
    IN [ok |-> new.ok,
        node |-> IF new.node = <<>> THEN <<base>> ELSE <<SetMember(base, path[2], new.node[1])>>]

fill_variant(p, node, path, value) ==
    LET object == IF node = <<>> THEN EmptyObject ELSE node[1]
        known  == SelectSeq(p.values, LAMBDA q : q.name = path[2])
        old    == IF Member(object, path[2]) = <<>> THEN <<EmptyObject>> ELSE Member(object, path[2])
    IN IF Member(object, path[2]) = <<>> /\ DOMAIN Members(object) # {}
         THEN [ok |-> FALSE, node |-> <<object>>]
         ELSE [ok |-> TRUE,
               node |-> <<SetMember(object, path[2],
                            fill_node_recursive(old, Tail(path), value, known, FALSE).node[1])>>]

fill_array(p, node, path, value) ==
    LET array  == IF node = <<>> THEN Arr(<<>>) ELSE node[1]
        index  == atoi(path[2]) + 1
        exists == index <= Len(Items(array))
        new    == fill_node_recursive(IF exists THEN <<Items(array)[index]>> ELSE <<>>,
                                      Tail(path), value, <<p>>, TRUE)
    IN IF path[2] \notin DOMAIN Numerals \/ index < 1 \/ ~new.ok
         THEN [ok |-> FALSE, node |-> <<array>>]
         ELSE [ok |-> TRUE,
               node |-> <<IF ~Is("arr", array) THEN array
                          ELSE Arr(IF exists THEN [array.arr EXCEPT ![index] = new.node[1]]
                                   ELSE Append(array.arr, new.node[1]))>>]

fill_node_recursive(node, path, value, parameter, is_array_member) ==
    LET top == SelectSeq(Parameters, LAMBDA q : q.name = path[1])
        found == IF parameter = <<>> THEN top ELSE parameter
        p == found[1]
        type == IF is_array_member THEN p.array_type ELSE p.type
    IN IF found = <<>> THEN [ok |-> FALSE, node |-> node]
       ELSE
         CASE Len(path) = 1 /\ type = "enum"          -> fill_enum(p, node, value)
         [] Len(path) = 1 /\ type # "enum"          -> fill_value(type, node, value)
         [] Len(path) > 1 /\ type \in {"", "object"} -> fill_object(p, type, node, path, value)
         [] Len(path) > 1 /\ type = "enum"          -> fill_variant(p, node, path, value)
         [] Len(path) > 1 /\ type = "array"         -> fill_array(p, node, path, value)
         [] OTHER                                   -> [ok |-> FALSE, node |-> node]

RECURSIVE RemovePath(_, _)
RemovePath(node, path) ==
    IF Len(path) = 1 THEN RemoveMember(node, path[1])
    ELSE IF Member(node, path[1]) = <<>> THEN node
    ELSE SetMember(node, path[1], RemovePath(Member(node, path[1])[1], Tail(path)))

\* An empty value in "configure" unsets the parameter, after filling it in.
parse_parameter_argument(json, path, value, unset) ==
    LET old == Member(json, path[1])
        new == fill_node_recursive(old, path, value, <<>>, FALSE)
    IN IF ~new.ok THEN [ok |-> FALSE, json |-> json]
       ELSE [ok |-> TRUE,
             json |-> IF ~unset THEN SetMember(json, path[1], new.node[1])
                      ELSE IF old = <<>> THEN json
                      ELSE RemovePath(SetMember(json, path[1], new.node[1]), path)]

-----------------------------------------------------------------------------
(* The rows of the table. *)

\* The own properties first, then those of the prototype.
resolve_parameter_properties(p) ==
    IF p.properties # <<>> THEN p.properties ELSE WithPrototype(p).properties

RECURSIVE status_params_build_path(_, _, _)

status_params_build_output(node, params, prefix) ==
    UNION {status_params_build_path(Named(params, n), Members(node)[n], prefix) :
             n \in {m \in DOMAIN Members(node) \cap Names(params) :
                      /\ ~is_special_param(m) /\ ~Named(params, m).constant
                      /\ Named(params, m).context # <<{}>>}}

array_build_path(p, items, path) ==
    LET children == IF resolve_parameter_properties(p) # <<>>
                      THEN resolve_parameter_properties(p)[1] ELSE p.values
        at(i) == Append(path, ToString(i - 1))
    IN IF items = <<>> THEN {<<Append(path, p.name), Str("empty array")>>}
       ELSE UNION {IF Is("obj", items[i]) THEN status_params_build_output(items[i], children, at(i))
                   ELSE {<<at(i), status_value_to_str(items[i])>>} : i \in DOMAIN items}

\* The chosen variant, and its properties below it.
enum_build_path(p, node, path) ==
    LET known == DOMAIN Members(node) \cap Names(p.values)
    IN UNION {status_params_build_output(Members(node)[v], Properties(Named(p.values, v)),
                                         Append(path, v)) : v \in known}
         \cup (IF known = {} THEN {} ELSE {<<path, Chosen(known)>>})

status_params_build_path(p, node, prefix) ==
    LET path == IF p.type = "" THEN prefix ELSE Append(prefix, p.name)
    IN CASE Is("arr", node)                      -> array_build_path(p, node.arr, path)
         [] Is("obj", node) /\ p.values # <<>>   -> enum_build_path(p, node, path)
         [] Is("obj", node) /\ p.values = <<>> /\ p.type = "" -> {<<path, Chosen({p.name})>>}
         [] Is("obj", node) /\ p.type # "" /\ p.values = <<>> ->
              IF resolve_parameter_properties(p) = <<>> THEN {<<path, Failed>>}
              ELSE status_params_build_output(node, resolve_parameter_properties(p)[1], path)
         [] Is("null", node)                     -> {}
         [] OTHER -> {<<path, IF schema_is_password_string(p) /\ status_value_to_str(node) # Failed
                                THEN Masked ELSE status_value_to_str(node)>>}

\* The paths that must be in the table, looking at "required" only.  Properties
\* of an optional object are not required; a variant that the schema does not
\* know is read through a null pointer (the path is then <<"crash">>).
RECURSIVE get_required_parameters_paths_recursive(_, _, _, _, _)
get_required_parameters_paths_recursive(p, node, prefix, type, context) ==
    LET path == IF type # p.type THEN prefix ELSE Append(prefix, p.name)
        required == p.required \cap {context, "*"} # {}
        member(q) == IF node = <<>> THEN <<>> ELSE Member(node[1], q.name)
        properties == Properties(WithPrototype(p))
        missing == IF p.array_min = <<>> THEN 0
                   ELSE p.array_min[1] - (IF node = <<>> THEN 0 ELSE Len(Items(node[1])))
    IN CASE p.constant \/ (~required /\ type # "") -> {}
         [] ~p.constant /\ (required \/ type = "") ->
            CASE type \in {"", "object"} ->
                   UNION {get_required_parameters_paths_recursive(properties[i],
                             member(properties[i]), path, properties[i].type, context) :
                             i \in DOMAIN properties}
              [] type = "enum" ->
                   {path} \cup
                     (IF node = <<>> \/ DOMAIN Members(node[1]) = {} THEN {}
                      ELSE LET v == CHOOSE v \in DOMAIN Members(node[1]) : TRUE
                           IN IF v \notin Names(p.values) THEN {<<"crash">>}
                              ELSE get_required_parameters_paths_recursive(Named(p.values, v),
                                     Member(node[1], v), path, "", context))
              [] type = "array" ->
                   IF missing <= 0 THEN {}
                   ELSE get_required_parameters_paths_recursive(p, <<>>,
                          Append(path, IF missing = 1 THEN ToString(p.array_min[1] - 1) ELSE "<...>"),
                          p.array_type, context)
              [] OTHER -> {path}

get_required_parameters_paths(json, context) ==
    UNION {get_required_parameters_paths_recursive(Parameters[i],
              Member(json, Parameters[i].name), <<>>, Parameters[i].type, context) :
              i \in DOMAIN Parameters}

=============================================================================
