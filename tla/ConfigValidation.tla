--------------------------- MODULE ConfigValidation ---------------------------
(***************************************************************************)
(* The validation of the configuration against its schemas                 *)
(* (packages/frontend/src/kernel/ConfigurationSystem.ts).  A schema has     *)
(* schemas below it, so this is recursive: the manager (Configuration) is   *)
(* stated, and proved about, without it.                                   *)
(***************************************************************************)
EXTENDS ConfigSchemas

RECURSIVE Leaves(_)

\* The schemas below a schema that are no groups.
Leaves(schema) ==
    IF DOMAIN schema.properties = {} THEN {schema}
    ELSE UNION {Leaves(schema.properties[p]) : p \in DOMAIN schema.properties}

BuiltinLeaves == UNION {Leaves(BuiltinSchemas[s]) : s \in DOMAIN BuiltinSchemas}
-----------------------------------------------------------------------------
(* Validation. *)

RECURSIVE NestedSchema(_, _)

\* getNestedSchema, as the set of at most one schema.
NestedSchema(schema, path) ==
    IF path = <<>> THEN {schema}
    ELSE IF Head(path) \in DOMAIN schema.properties
           THEN NestedSchema(schema.properties[Head(path)], Tail(path))
    ELSE IF Head(path) = "*" THEN UNION {NestedSchema(i, Tail(path)) : i \in schema.items}
    ELSE {}

\* getSchemaForPath: only sections, which are paths of one name, are registered.
SchemaForPath(schemas, path) ==
    IF Head(path) \in DOMAIN schemas THEN NestedSchema(schemas[Head(path)], Tail(path)) ELSE {}

RECURSIVE Valid(_, _)

\* validateValue reports no error.  (Against a group it throws for a value that
\* is no object, where set() would reject the value anyway.)
Valid(value, schema) ==
    /\ CheckType(value, schema.type)
    /\ InEnum(value, schema)
    /\ InRange(value, schema)
    /\ schema.type = "object" =>
          \A p \in DOMAIN schema.properties \intersect DOMAIN value[2] :
              Valid(value[2][p], schema.properties[p])
    /\ schema.type = "array" =>
          \A s \in schema.items : \A i \in DOMAIN value[2] : Valid(value[2][i], s)

\* validateValue of one setting of a section: without a schema it is accepted.
SettingIsValid(path, value) ==
    \A s \in SchemaForPath(BuiltinSchemas, path) : Valid(value, s)
-----------------------------------------------------------------------------
\* The default of every built-in setting is a value its own schema accepts.
DefaultsAreAccepted ==
    \A schema \in BuiltinLeaves : \A d \in schema.default : Valid(d, schema)

\* What the widget of a built-in setting hands to set() can be accepted: some
\* of it for free text and JSON, all of it for a widget that offers a choice.
WidgetsFit ==
    \A schema \in BuiltinLeaves :
        LET widget == DefaultWidget(schema)
            fits == {v \in Produces(widget, schema) : Valid(v, schema)}
        IN /\ fits # {}
           /\ widget \notin {"input", "code-editor", "json-editor"} =>
                 fits = Produces(widget, schema)

\* The built-in schemas accept what the program itself gives them, at the ends of
\* their ranges too.
SchemasFit == DefaultsAreAccepted /\ WidgetsFit
=============================================================================
