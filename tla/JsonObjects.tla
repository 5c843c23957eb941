---------------------------- MODULE JsonObjects ----------------------------
(***************************************************************************)
(* Json/JsonSchema.h and JsonSerializer.h: C++ objects to JSON and back,   *)
(* by the descriptions of their classes, and the schemas that validate it. *)
(*                                                                         *)
(* The kind of a C++ value is a tuple of its type and the options of its   *)
(* schema; options that may be unset are sequences of at most one value.   *)
(* JSON is a tuple of its type and content, <<"empty">> an empty pointer.  *)
(* Numbers are integers, of types that hold every number of an instance.   *)
(***************************************************************************)
EXTENDS Integers, SequencesExt, FiniteSetsExt

CONSTANTS
  Classes,      \* names of the described classes
  Described,    \* of each: base (<<>> or the class), name (<<>> or the name), discriminator (<<>> or its own),
                \* properties of its own (a sequence of name, kind and is_required) and the members' initial values
  TypeKeys,     \* the enumeration a type registry names its classes with
  Precision,    \* bits of a double: integers up to 2^Precision are doubles, of twice as many the even ones
  Width,        \* bits of the type of an enumeration
  Lower,        \* of names that are not in lower case, the name that is
  Spelled,      \* of strings that are not a single name, their trimmed parts as NamedEnum takes them
  Joined        \* of parts that are not a single name, the string they are written as

Enum == INSTANCE NamedEnum

Null == <<"null">>
Empty == <<"empty">>
Object(pairs) == <<"object", pairs>>
String(s) == <<"string", s>>

\* What is written from or read into a name that is a null pointer.
Undefined == <<"undefined">>

\* Arithmetic values travel as doubles, to the nearest even one when there are two.
AsDouble(n) == IF n \in -(2 ^ Precision)..(2 ^ Precision) THEN n ELSE n + <<0, -1, 0, 1>>[(n % 4) + 1]

\* The text of an enumeration's value and back.
PartsOf(text) == IF text \in DOMAIN Spelled THEN Spelled[text] ELSE <<<<"name", text>>>>
TextOf(parts) == IF Len(parts) = 1 /\ parts[1][1] = "name" THEN parts[1][2] ELSE Joined[parts]

\* Whether a limit that may be unset is kept.
AtLeast(n, min) == \A m \in Range(min) : n >= m
AtMost(n, max) == \A m \in Range(max) : n <= m

-----------------------------------------------------------------------------
\* Descriptors: a class has the properties of its base before its own, and its base's discriminator.
RECURSIVE Bases(_), properties(_), type_discriminator(_)
Bases(class) == {class} \cup UNION {Bases(b) : b \in Range(Described[class].base)}
properties(class) == FlattenSeq([i \in DOMAIN Described[class].base |-> properties(Described[class].base[i])])
                       \o Described[class].properties
type_discriminator(class) ==
  LET own == Described[class].discriminator
      base == Described[class].base
  IN CASE own # <<>> -> own[1]
       [] own = <<>> /\ base # <<>> -> type_discriminator(base[1])
       [] OTHER -> "$type"

derived_descriptors(class) == {d \in Classes : class \in Bases(d) /\ d # class}

\* add_derived compares the names of a class's derived classes, so that all of several need one, and throws when
\* two are the same.
Registrable ==
  \A class \in Classes :
    /\ Cardinality(derived_descriptors(class)) > 1 => \A d \in derived_descriptors(class) : Described[d].name # <<>>
    /\ IsInjective([d \in derived_descriptors(class) |-> Described[d].name])

find_property(class, name) == SelectSeq(properties(class), LAMBDA p : p.name = name)
Property(class, name) == find_property(class, name)[1]

\* An object as its class makes it.
instantiate(class) ==
  [class |-> class,
   fields |-> [name \in {p.name : p \in Range(properties(class))} |->
                 Described[CHOOSE c \in Bases(class) : name \in DOMAIN Described[c].initial].initial[name]]]

-----------------------------------------------------------------------------
\* The value a kind has when nothing is said, value_t{}.
DefaultOf(kind) ==
  CASE kind[1] = "boolean" -> FALSE
    [] kind[1] \in {"number", "numeric_enum", "named_enum"} -> 0
    [] kind[1] = "string" -> ""
    [] kind[1] \in {"array", "optional"} -> <<>>
    [] kind[1] = "any" -> Empty
    [] kind[1] = "json_object" -> Object(<<>>)
    [] kind[1] = "json_array" -> <<"array", <<>>>>
    [] kind[1] \in {"object", "dto"} -> instantiate(kind[2])

\* is_default: which values need not be written.
any_is_default(value) == value \in {Empty, Null, <<"boolean", FALSE>>, <<"number", 0>>, String(""), <<"array", <<>>>>, Object(<<>>)}
dto_is_default(class) == properties(class) = <<>>

RECURSIVE is_default(_, _)

\* Mutant of the next: what no one requires is left out.
IsOmittedUnlessRequired(property, object) ==
  property.is_required # <<TRUE>> /\ is_default(property.kind, object.fields[property.name])

is_property_omitted(property, object) ==
  property.is_required = <<FALSE>> /\ is_default(property.kind, object.fields[property.name])

object_is_default(object) == \A p \in Range(properties(object.class)) : is_property_omitted(p, object)

is_default(kind, value) ==
  CASE kind[1] = "object" -> object_is_default(value)
    [] kind[1] = "dto" -> dto_is_default(kind[2])
    [] kind[1] \in {"any", "json_object", "json_array"} -> any_is_default(value)
    [] OTHER -> value = DefaultOf(kind)

-----------------------------------------------------------------------------
\* json_serializer<...>::to_json. An enum travels as its name when it has names.
RECURSIVE to_json(_, _)
number_to_json(value) == <<"number", AsDouble(value)>>
enum_to_json(kind, value) ==
  IF kind[1] = "named_enum" THEN String(TextOf(Enum!to_string(kind[2], Enum!ToBits(value)))) ELSE number_to_json(value)
array_to_json(kind, value) == <<"array", [i \in DOMAIN value |-> to_json(kind[2], value[i])]>>
optional_to_json(kind, value) == IF value = <<>> THEN Null ELSE to_json(kind[2], value[1])
object_to_json(object) ==
  LET written == {p.name : p \in {q \in Range(properties(object.class)) : ~is_property_omitted(q, object)}}
  IN [name \in written |-> to_json(Property(object.class, name).kind, object.fields[name])]
dto_to_json(object) == [name \in DOMAIN object.fields |-> to_json(Property(object.class, name).kind, object.fields[name])]

to_json(kind, value) ==
  CASE kind[1] \in {"boolean", "string"} -> <<kind[1], value>>
    [] kind[1] = "number" -> number_to_json(value)
    [] kind[1] \in {"numeric_enum", "named_enum"} -> enum_to_json(kind, value)
    [] kind[1] = "array" -> array_to_json(kind, value)
    [] kind[1] = "optional" -> optional_to_json(kind, value)
    [] kind[1] \in {"any", "json_object", "json_array"} -> value
    [] kind[1] = "object" -> Object(object_to_json(value))
    [] kind[1] = "dto" -> Object(dto_to_json(value))

\* json_object_descriptor::to_json of a pointer, which is <<>> or an object: the discriminator, then the
\* properties; of a class without a name the discriminator is a string made of a null pointer. json_serializer
\* dereferences the pointer to find its description before this looks at it.
descriptor_to_json(pointer) ==
  IF pointer = <<>> THEN Null
  ELSE LET class == pointer[1].class
           Named(name) == Object(object_to_json(pointer[1]) @@ (type_discriminator(class) :> String(name)))
       IN IF Described[class].name = <<>> THEN Undefined ELSE Named(Described[class].name[1])

pointer_to_json(pointer) == IF pointer = <<>> THEN Undefined ELSE descriptor_to_json(pointer)

\* A pointer to a json_object_base whose classes are named by the keys of a type registry.
type_key(class) == Enum!try_parse(TypeKeys, <<<<"name", Described[class].name[1]>>>>)
dto_pointer_to_json(pointer) ==
  IF pointer = <<>> THEN Null
  ELSE Object(dto_to_json(pointer[1])
                @@ ("$type" :> String(TextOf(Enum!to_string(TypeKeys, type_key(pointer[1].class)[1])))))

-----------------------------------------------------------------------------
\* json_serializer<...>::from_json into a value: whether it succeeded, and the value it left.
Parsed(value) == [ok |-> TRUE, value |-> value]
Failed(old) == [ok |-> FALSE, value |-> old]

RECURSIVE from_json(_, _, _)

\* Mutant of the next: a property may be missing only where that is said.
ObjectFromJsonStrict(object, json) ==
  LET read(state, p) ==
        IF ~state.ok THEN state
        ELSE IF p.name \notin DOMAIN json[2] THEN [state EXCEPT !.ok = p.is_required = <<FALSE>>]
        ELSE LET result == from_json(p.kind, json[2][p.name], state.value.fields[p.name])
             IN [ok |-> result.ok, value |-> [state.value EXCEPT !.fields[p.name] = result.value]]
  IN IF json[1] # "object" THEN Failed(object) ELSE FoldLeft(read, Parsed(object), properties(object.class))

\* The properties in their order, up to the first that is missing or cannot be parsed.
object_from_json(object, json) ==
  LET read(state, p) ==
        IF ~state.ok THEN state
        ELSE IF p.name \notin DOMAIN json[2] THEN [state EXCEPT !.ok = p.is_required # <<TRUE>>]
        ELSE LET result == from_json(p.kind, json[2][p.name], state.value.fields[p.name])
             IN [ok |-> result.ok, value |-> [state.value EXCEPT !.fields[p.name] = result.value]]
  IN IF json[1] # "object" THEN Failed(object) ELSE FoldLeft(read, Parsed(object), properties(object.class))

\* A json_object_base reads what it can and reports no property that failed.
dto_from_json(object, json) ==
  LET read(state, p) ==
        IF p.name \notin DOMAIN json[2] THEN state
        ELSE [state EXCEPT !.fields[p.name] = from_json(p.kind, json[2][p.name], @).value]
  IN IF json[1] # "object" THEN Failed(object) ELSE Parsed(FoldLeft(read, object, properties(object.class)))

\* The value a string is read as, a name in any case, a number, or a combination of flags; an enum that is not
\* named has no names.
NoNames == [items |-> <<>>, is_flags |-> FALSE]
enum_parse(kind, text) == Enum!try_parse(IF kind[1] = "named_enum" THEN kind[2] ELSE NoNames, PartsOf(text))

\* A number is taken for any enum, named or not.
EnumRead(parsed, old) == IF parsed = Enum!Absent THEN Failed(old) ELSE Parsed(Enum!Number(parsed[1]))
enum_from_json(kind, json, old) ==
  CASE json[1] = "number" -> Parsed(json[2])
    [] json[1] = "string" -> EnumRead(enum_parse(kind, json[2]), old)
    [] OTHER -> Failed(old)

\* Elements that cannot be read are left out of the array.
array_from_json(kind, json, old) ==
  LET results == [i \in DOMAIN json[2] |-> from_json(kind[2], json[2][i], DefaultOf(kind[2]))]
      read == SelectSeq(results, LAMBDA r : r.ok)
  IN IF json[1] # "array" THEN Failed(old) ELSE Parsed([i \in DOMAIN read |-> read[i].value])

optional_from_json(kind, json, old) ==
  LET inner == from_json(kind[2], json, DefaultOf(kind[2]))
  IN CASE json = Empty -> Failed(old)
       [] json = Null -> Parsed(<<>>)
       [] OTHER -> IF inner.ok THEN Parsed(<<inner.value>>) ELSE Failed(old)

any_from_json(json, old) == IF json = Empty THEN Failed(old) ELSE Parsed(json)
container_from_json(type, json, old) == IF json[1] = type THEN Parsed(json) ELSE Failed(old)

from_json(kind, json, old) ==
  CASE kind[1] \in {"number", "boolean", "string"} -> IF json[1] = kind[1] THEN Parsed(json[2]) ELSE Failed(old)
    [] kind[1] \in {"numeric_enum", "named_enum"} -> enum_from_json(kind, json, old)
    [] kind[1] = "array" -> array_from_json(kind, json, old)
    [] kind[1] = "optional" -> optional_from_json(kind, json, old)
    [] kind[1] = "any" -> any_from_json(json, old)
    [] kind[1] = "json_object" -> container_from_json("object", json, old)
    [] kind[1] = "json_array" -> container_from_json("array", json, old)
    [] kind[1] = "object" -> object_from_json(old, json)
    [] kind[1] = "dto" -> dto_from_json(old, json)

\* Reading through a pointer to a class makes an object of the class the discriminator names; text that is
\* not a string leaves the name empty. The name is compared with that of the class, then of the derived ones.
PointedAt(read) == [read EXCEPT !.value = <<@>>]
pointer_from_json(class, json, old) ==
  LET key == type_discriminator(class)
      type == IF json[2][key][1] = "string" THEN json[2][key][2] ELSE ""
      named == {d \in derived_descriptors(class) : Described[d].name = <<type>>}
      nameless(classes) == \E d \in classes : Described[d].name = <<>>
      read(d) == PointedAt(object_from_json(instantiate(d), json))
  IN CASE json[1] = "null" -> Parsed(<<>>)
       [] json[1] = "object" ->
            IF key \notin DOMAIN json[2] \/ <<type>> = Described[class].name THEN read(class)
            ELSE IF nameless({class} \cup derived_descriptors(class)) THEN Failed(Undefined)
            ELSE IF named = {} THEN Failed(old) ELSE read(CHOOSE d \in named : TRUE)
       [] OTHER -> Failed(old)

\* By a type registry the key is needed, in any spelling; null leaves the pointer as it was, and a key that no
\* class is registered for empties it.
ReadKeyed(named, json) ==
  IF named = {} THEN Failed(<<>>) ELSE PointedAt(dto_from_json(instantiate(CHOOSE d \in named : TRUE), json))
dto_pointer_from_json(class, json, old) ==
  CASE json = Null -> Parsed(old)
    [] json[1] = "object" ->
         IF "$type" \notin DOMAIN json[2] \/ json[2]["$type"][1] # "string" THEN Failed(old)
         ELSE LET key == Enum!try_parse(TypeKeys, PartsOf(json[2]["$type"][2]))
              IN IF key = Enum!Absent THEN Failed(old)
                 ELSE ReadKeyed({d \in derived_descriptors(class) : type_key(d) = key}, json)
    [] OTHER -> Failed(old)

-----------------------------------------------------------------------------
\* validate_value of the schema of each kind. String schemas have a pattern, here the strings it matches.
RECURSIVE validate(_, _)
number_validate_value(kind, n) == AtLeast(n, kind[2]) /\ AtMost(n, kind[3])
string_validate_value(kind, s) == \A pattern \in Range(kind[2]) : s \in pattern
named_enum_validate_value(kind, s) == enum_parse(kind, s) # Enum!Absent
array_validate_value(kind, items) ==
  /\ AtLeast(Len(items), kind[3]) /\ AtMost(Len(items), kind[4])
  /\ \A i \in DOMAIN items : items[i] # Empty /\ validate(kind[2], items[i])
optional_validate_value(kind, json) == json = Null \/ validate(kind[2], json)
object_validate_value(class, pairs) ==
  \A p \in Range(properties(class)) :
    IF p.name \notin DOMAIN pairs \/ pairs[p.name] = Empty THEN p.is_required # <<TRUE>>
    ELSE \/ pairs[p.name] = Null /\ p.is_required # <<TRUE>>
         \/ validate(p.kind, pairs[p.name])

\* A json_array has the schema of an array of any values.
Items(kind) == <<"array", <<"any">>, <<>>, kind[2]>>

\* The JSON type a kind has in its schema, null when the schema leaves it open.
SchemaType(kind) ==
  CASE kind[1] = "numeric_enum" -> "number"
    [] kind[1] = "named_enum" -> "string"
    [] kind[1] \in {"dto", "json_object"} -> "object"
    [] kind[1] = "json_array" -> "array"
    [] kind[1] \in {"any", "optional"} -> "null"
    [] OTHER -> kind[1]

validate(kind, json) ==
  /\ SchemaType(kind) \in {"null", json[1]}
  /\ CASE kind[1] = "number" -> number_validate_value(kind, json[2])
       [] kind[1] = "string" -> string_validate_value(kind, json[2])
       [] kind[1] = "named_enum" -> named_enum_validate_value(kind, json[2])
       [] kind[1] = "array" -> array_validate_value(kind, json[2])
       [] kind[1] = "json_array" -> array_validate_value(Items(kind), json[2])
       [] kind[1] = "optional" -> optional_validate_value(kind, json)
       [] kind[1] = "object" -> object_validate_value(kind[2], json[2])
       [] OTHER -> TRUE

-----------------------------------------------------------------------------
\* populate_schema of each kind: the keywords of its JSON Schema, mapped to their values.
Keyword(key, option) == [k \in {key : o \in Range(option)} |-> option[1]]

RECURSIVE schema_to_json(_)
number_populate_schema(kind) == Keyword("minimum", kind[2]) @@ Keyword("maximum", kind[3])
string_populate_schema(kind) == Keyword("pattern", kind[2])
named_enum_populate_schema(kind) == "enum" :> [i \in DOMAIN kind[2].items |-> kind[2].items[i].name]
array_populate_schema(kind) ==
  Keyword("minItems", kind[3]) @@ Keyword("maxItems", kind[4]) @@ "items" :> schema_to_json(kind[2])
\* An optional takes the schema of its value and adds null to its type.
optional_populate_schema(kind) ==
  LET schema == schema_to_json(kind[2])
  IN IF "type" \in DOMAIN schema THEN [schema EXCEPT !["type"] = @ \cup {"null"}] ELSE schema
object_populate_schema(class) ==
  LET required == {p \in Range(properties(class)) : p.is_required = <<TRUE>>}
  IN "properties" :> [name \in {p.name : p \in Range(properties(class))} |-> schema_to_json(Property(class, name).kind)]
       @@ Keyword("required", IF required = {} THEN <<>> ELSE <<{p.name : p \in required}>>)

schema_to_json(kind) ==
  LET populated == CASE kind[1] = "number" -> number_populate_schema(kind)
                     [] kind[1] = "string" -> string_populate_schema(kind)
                     [] kind[1] = "named_enum" -> named_enum_populate_schema(kind)
                     [] kind[1] = "array" -> array_populate_schema(kind)
                     [] kind[1] = "json_array" -> array_populate_schema(Items(kind))
                     [] kind[1] = "optional" -> optional_populate_schema(kind)
                     [] kind[1] = "object" -> object_populate_schema(kind[2])
                     [] OTHER -> <<>>
  IN populated @@ IF SchemaType(kind) = "null" THEN <<>> ELSE "type" :> {SchemaType(kind)}

\* What JSON Schema says of the keywords, for any reader of the schema.
RECURSIVE Accepts(_, _)
Accepts(schema, json) ==
  \A key \in DOMAIN schema :
    CASE key = "type" -> json[1] \in schema[key]
      [] key = "minimum" -> json[1] = "number" => json[2] >= schema[key]
      [] key = "maximum" -> json[1] = "number" => json[2] <= schema[key]
      [] key = "pattern" -> json[1] = "string" => json[2] \in schema[key]
      [] key = "enum" -> json[1] = "string" /\ Contains(schema[key], json[2])
      [] key = "minItems" -> json[1] = "array" => Len(json[2]) >= schema[key]
      [] key = "maxItems" -> json[1] = "array" => Len(json[2]) <= schema[key]
      [] key = "items" -> json[1] = "array" => \A i \in DOMAIN json[2] : Accepts(schema[key], json[2][i])
      [] key = "required" -> json[1] = "object" => schema[key] \subseteq DOMAIN json[2]
      [] key = "properties" -> json[1] = "object" =>
           \A name \in DOMAIN json[2] \cap DOMAIN schema[key] : Accepts(schema[key][name], json[2][name])

-----------------------------------------------------------------------------
RECURSIVE HasNull(_)
HasNull(json) == \/ json[1] \in {"null", "empty"}
                 \/ json[1] \in {"array", "object"} /\ \E i \in DOMAIN json[2] : HasNull(json[2][i])

RECURSIVE HasOtherSpelling(_)
HasOtherSpelling(json) == \/ json[1] = "string" /\ json[2] \in DOMAIN Lower \cup DOMAIN Spelled
                          \/ json[1] \in {"array", "object"} /\ \E i \in DOMAIN json[2] : HasOtherSpelling(json[2][i])

\* What JSON keeps of a value: of a number, the double nearest to it.
RECURSIVE Kept(_, _)
KeptObject(object) ==
  [object EXCEPT !.fields = [name \in DOMAIN @ |-> Kept(Property(object.class, name).kind, @[name])]]
Kept(kind, value) ==
  CASE kind[1] \in {"number", "numeric_enum"} -> AsDouble(value)
    [] kind[1] \in {"array", "optional"} -> [i \in DOMAIN value |-> Kept(kind[2], value[i])]
    [] kind[1] \in {"object", "dto"} -> KeptObject(value)
    [] OTHER -> value

(* An object that is written and read into a new one is the same object, the  *)
(* properties left out because they are default included, and 64-bit integers  *)
(* up to the precision of a double; what is written passes the validation of   *)
(* its class.                                                                  *)
ObjectReadsBack(object) ==
  LET json == Object(object_to_json(object))
  IN /\ object_from_json(instantiate(object.class), json) = Parsed(KeptObject(object))
     /\ validate(<<"object", object.class>>, json)

(* An object serializes to an empty object exactly when it is default, so an   *)
(* object nested in it is left out exactly when nothing of it would be written.*)
DefaultIsEmpty(object) == object_is_default(object) <=> DOMAIN object_to_json(object) = {}

(* An object written through a pointer to a base is read back through such a   *)
(* pointer as what it was, class and all, when the base finds the discriminator*)
(* it was written with and its classes are described with names: without one,  *)
(* nothing is promised, for the name is a null pointer where it is written and *)
(* compared.                                                                   *)
PointerReadsBack(class, object) ==
  /\ type_discriminator(class) = type_discriminator(object.class)
  /\ \A d \in {class} \cup derived_descriptors(class) : Described[d].name # <<>>
  => pointer_from_json(class, pointer_to_json(<<object>>), <<>>) = Parsed(<<KeptObject(object)>>)

(* So is one whose class a type registry names; a null pointer is read as what *)
(* the pointer held before, which is null in a new one.                        *)
DtoReadsBack(class, object) ==
  /\ dto_from_json(instantiate(object.class), Object(dto_to_json(object))) = Parsed(KeptObject(object))
  /\ dto_pointer_from_json(class, dto_pointer_to_json(<<>>), <<>>) = Parsed(<<>>)
  /\ object.class # class => dto_pointer_from_json(class, dto_pointer_to_json(<<object>>), <<>>) = Parsed(<<KeptObject(object)>>)

(* What passes validation can be read, when no property is null.               *)
ValidIsRead(class, json) ==
  validate(<<"object", class>>, json) /\ ~HasNull(json) => object_from_json(instantiate(class), json).ok

(* The schema a class publishes and the validation the program runs accept the *)
(* same documents, but for null, which validation accepts in more places, and  *)
(* values of enums: the schema lists their names, whereas validation takes them*)
(* in any case, with blanks around them, as numbers and, of flags, combined.   *)
SchemaAgrees(class, json) ==
  LET published == Accepts(schema_to_json(<<"object", class>>), json)
      validated == validate(<<"object", class>>, json)
  IN (published => validated) /\ (validated /\ ~HasNull(json) /\ ~HasOtherSpelling(json) => published)

(* "Properties which are not required may also be null" (JsonSchema.h): a      *)
(* document that passes validation is one the class can read.                  *)
ValidIsAlwaysRead(class, json) ==
  validate(<<"object", class>>, json) => object_from_json(instantiate(class), json).ok

(* "An empty pointer serializes to null" (JsonSchema.h).                       *)
EmptyPointerIsNull == pointer_to_json(<<>>) = Null
=============================================================================
