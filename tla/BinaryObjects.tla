---------------------------- MODULE BinaryObjects ----------------------------
(***************************************************************************)
(* Storage/BinarySchema.h and Serializer.h: objects to binary streams and  *)
(* back, by the descriptions of their classes or by their own serialize(). *)
(*                                                                         *)
(* A stream is the sequence of the fields in it, a string being one field. *)
(* Reading returns the value and the rest, or nothing when it threw; what  *)
(* is undefined in C++ is "undefined".                                     *)
(***************************************************************************)
EXTENDS Integers, SequencesExt, FiniteSetsExt

CONSTANTS
  Classes,      \* names of the described classes
  Described,    \* of each: base, id and version (each a sequence of at most one), its own properties (name,
                \* kind, min_version, max_version), the members' initial values and whether it has a default
                \* constructor
  Registry      \* pairs of type key and class, in the order a type registry was given them

Absent == <<>>
NullId == 65535         \* type_id_t(~0u), also the id of a class that was given none

\* What an option is when it is not given.
Given(option, default) == IF option = <<>> THEN default ELSE option[1]

-----------------------------------------------------------------------------
\* binary_serializer of each kind of value: containers are their size and their items.
ItemsOf(kind, value) ==
  CASE kind[1] = "sequence" -> value
    [] kind[1] = "set" -> SetToSeq(value)
    [] kind[1] = "map" -> LET keys == SetToSeq(DOMAIN value) IN [i \in DOMAIN keys |-> <<keys[i], value[keys[i]]>>]
ItemKind(kind) == IF kind[1] = "map" THEN <<"pair", kind[2], kind[3]>> ELSE kind[2]
\* emplace() and insert() keep the first of equal keys.
Container(kind, items) ==
  CASE kind[1] = "sequence" -> items
    [] kind[1] = "set" -> Range(items)
    [] kind[1] = "map" -> [k \in {item[1] : item \in Range(items)} |->
                             items[SelectInSeq(items, LAMBDA item : item[1] = k)][2]]

RECURSIVE serialize_value(_, _)
serialize_items(kind, value) ==
  LET items == ItemsOf(kind, value)
  IN <<Len(items)>> \o FlattenSeq([i \in DOMAIN items |-> serialize_value(ItemKind(kind), items[i])])
serialize_value(kind, value) ==
  CASE kind[1] = "value" -> <<value>>
    [] kind[1] = "pair" -> serialize_value(kind[2], value[1]) \o serialize_value(kind[3], value[2])
    [] OTHER -> serialize_items(kind, value)

\* Reads one thing after another, up to the first that throws.
ReadAll(count, stream, ReadNext(_, _)) ==
  LET step(state, i) ==
        LET next == ReadNext(i, state[1].rest)
        IN IF state = Absent \/ next = Absent THEN Absent
           ELSE <<[value |-> Append(state[1].value, next[1].value), rest |-> next[1].rest]>>
  IN FoldLeft(step, <<[value |-> <<>>, rest |-> stream]>>, [i \in 1..count |-> i])

Contained(kind, items) == [i \in DOMAIN items |-> [items[i] EXCEPT !.value = Container(kind, @)]]

RECURSIVE deserialize_value(_, _)
deserialize_items(kind, stream) ==
  LET item(i, rest) == deserialize_value(ItemKind(kind), rest)
  IN Contained(kind, ReadAll(Head(stream), Tail(stream), item))
deserialize_value(kind, stream) ==
  LET part(i, rest) == deserialize_value(kind[i + 1], rest)
  IN CASE kind[1] = "pair" -> ReadAll(2, stream, part)
       [] kind[1] # "pair" /\ stream = <<>> -> Absent
       [] kind[1] = "value" /\ stream # <<>> -> <<[value |-> Head(stream), rest |-> Tail(stream)]>>
       [] OTHER -> deserialize_items(kind, stream)

-----------------------------------------------------------------------------
\* binary_object_descriptor: the properties of the base come first.
RECURSIVE Bases(_), properties(_)
Bases(class) == {class} \cup UNION {Bases(b) : b \in Range(Described[class].base)}
properties(class) == FlattenSeq([i \in DOMAIN Described[class].base |-> properties(Described[class].base[i])])
                       \o Described[class].properties

id(class) == Given(Described[class].id, NullId)
version(class) == Given(Described[class].version, 0)

derived_descriptors(class) == {d \in Classes : class \in Bases(d) /\ d # class}

\* add_derived throws when a class gets a second derived class of one id.
Registrable == \A class \in Classes : IsInjective([d \in derived_descriptors(class) |-> id(d)])

instantiate(class) ==
  [class |-> class,
   fields |-> [name \in {p.name : p \in Range(properties(class))} |->
                 Described[CHOOSE c \in Bases(class) : name \in DOMAIN Described[c].initial].initial[name]]]

InVersion(property, v) == property.min_version <= v /\ v <= property.max_version
PropertiesAt(class, v) == SelectSeq(properties(class), LAMBDA p : InVersion(p, v))

\* What a program whose description has version v writes, which this program did when v was its version.
serialize_at(object, v) ==
  LET written == PropertiesAt(object.class, v)
  IN <<v>> \o FlattenSeq([i \in DOMAIN written |-> serialize_value(written[i].kind, object.fields[written[i].name])])

serialize(object) == serialize_at(object, version(object.class))

\* The properties of the version in the stream; the others stay what they are.
Filled(object, names, read) ==
  [i \in DOMAIN read |->
     [rest |-> read[i].rest,
      value |-> [object EXCEPT !.fields = [n \in DOMAIN @ |->
        IF Contains(names, n) THEN read[i].value[SelectInSeq(names, LAMBDA m : m = n)] ELSE @[n]]]]]
deserialize(stream, object) ==
  LET present == PropertiesAt(object.class, Head(stream))
      property(i, rest) == deserialize_value(present[i].kind, rest)
  IN IF stream = <<>> THEN Absent
     ELSE Filled(object, [i \in DOMAIN present |-> present[i].name], ReadAll(Len(present), Tail(stream), property))

\* Through a pointer, <<>> or an object, the id of the class comes first.
pointer_serialize(pointer) == IF pointer = <<>> THEN <<NullId>> ELSE <<id(pointer[1].class)>> \o serialize(pointer[1])

PointedAt(object) == [i \in DOMAIN object |-> [object[i] EXCEPT !.value = <<@>>]]

\* Mutant of the next: whatever was written, the object is one of the pointer's own class.
PointerDeserializeSliced(class, stream) ==
  CASE stream = <<>> -> Absent
    [] stream # <<>> /\ Head(stream) = NullId -> <<[value |-> <<>>, rest |-> Tail(stream)]>>
    [] OTHER -> PointedAt(deserialize(Tail(stream), instantiate(class)))

\* Reading throws when the description has no way to make an object of its class.
pointer_deserialize(class, stream) ==
  LET named == {d \in derived_descriptors(class) : id(d) = Head(stream)}
      read(c) == IF Described[c].is_constructible THEN PointedAt(deserialize(Tail(stream), instantiate(c))) ELSE Absent
  IN CASE stream = <<>> -> Absent
       [] stream # <<>> /\ Head(stream) = NullId -> <<[value |-> <<>>, rest |-> Tail(stream)]>>
       [] OTHER -> IF Head(stream) = id(class) THEN read(class)
                   ELSE IF named = {} THEN Absent ELSE read(CHOOSE d \in named : TRUE)

-----------------------------------------------------------------------------
\* type_registry: of two classes with one key the later is registered.
Registered(key) == SelectSeq(Registry, LAMBDA pair : pair[1] = key)
create(key) == IF Registered(key) = <<>> THEN Absent ELSE <<Last(Registered(key))[2]>>

\* Serializer.h: values, pointers to objects that serialize themselves (here one field), vectors and maps; a
\* <<"wide", size>> is a trivially copyable value of more bytes than one. A pointer writes the key of its object's
\* type; a null pointer throws.
RECURSIVE HasNull(_, _)
HasNull(kind, value) ==
  \/ kind[1] = "pointer" /\ value = <<>>
  \/ kind[1] = "sequence" /\ \E i \in DOMAIN value : HasNull(kind[2], value[i])
  \/ kind[1] = "map" /\ \E k \in DOMAIN value : HasNull(kind[3], value[k])

serialize_pointer(pointer) == <<pointer[1].key, pointer[1].content>>

RECURSIVE WriteValue(_, _)
\* A vector of trivially copyable items is written and read as a span of its size in bytes, counted in items: it
\* ends behind the vector unless an item is one byte.
Span(kind, count) == count * IF kind[1] = "wide" THEN kind[2] ELSE 1
WriteVector(kind, values) ==
  <<Len(values)>> \o FlattenSeq([i \in 1..Span(kind[2], Len(values)) |->
                                  IF i > Len(values) THEN <<"undefined">> ELSE WriteValue(kind[2], values[i])])
WriteMap(kind, values) ==
  <<Cardinality(DOMAIN values)>>
    \o FlattenSeq([i \in DOMAIN SetToSeq(DOMAIN values) |->
         LET k == SetToSeq(DOMAIN values)[i] IN WriteValue(kind[2], k) \o WriteValue(kind[3], values[k])])
WriteValue(kind, value) ==
  CASE kind[1] \in {"value", "wide"} -> <<value>>
    [] kind[1] = "pointer" -> serialize_pointer(value)
    [] kind[1] = "sequence" -> WriteVector(kind, value)
    [] kind[1] = "map" -> WriteMap(kind, value)

\* serialize() of a whole value, behind its version.
serialize_versioned(kind, value, v) == IF HasNull(kind, value) THEN Absent ELSE <<<<v>> \o WriteValue(kind, value)>>

\* A pointer gets the object of the registered type, which reads itself; of an unknown key there is none and
\* the call on it is undefined.
deserialize_pointer(stream) ==
  CASE create(Head(stream)) = Absent -> <<[value |-> "undefined", rest |-> <<>>]>>
    [] create(Head(stream)) # Absent /\ Len(stream) < 2 -> Absent
    [] OTHER -> <<[value |-> <<[key |-> Head(stream), class |-> create(Head(stream))[1], content |-> stream[2]]>>,
                   rest |-> SubSeq(stream, 3, Len(stream))]>>

RECURSIVE ReadValue(_, _)
ReadVector(kind, stream) ==
  LET item(i, rest) == ReadValue(kind[2], rest)
  IN IF Span(kind[2], Head(stream)) > Head(stream) THEN <<[value |-> "undefined", rest |-> <<>>]>>
     ELSE ReadAll(Head(stream), Tail(stream), item)
ReadMap(kind, stream) ==
  LET part(i, rest) == ReadValue(kind[i + 1], rest)
      item(i, rest) == ReadAll(2, rest, part)
  IN Contained(kind, ReadAll(Head(stream), Tail(stream), item))
ReadValue(kind, stream) ==
  CASE stream = <<>> -> Absent
    [] stream # <<>> /\ kind[1] \in {"value", "wide"} -> <<[value |-> Head(stream), rest |-> Tail(stream)]>>
    [] stream # <<>> /\ kind[1] = "pointer" -> deserialize_pointer(stream)
    [] stream # <<>> /\ kind[1] = "sequence" -> ReadVector(kind, stream)
    [] stream # <<>> /\ kind[1] = "map" -> ReadMap(kind, stream)

deserialize_versioned(kind, stream) == IF stream = <<>> THEN Absent ELSE ReadValue(kind, Tail(stream))

-----------------------------------------------------------------------------
\* The object a reader of the version ends up with.
AtVersion(object, v) ==
  [object EXCEPT !.fields = [n \in DOMAIN @ |->
     IF \E p \in Range(PropertiesAt(object.class, v)) : p.name = n THEN @[n]
     ELSE instantiate(object.class).fields[n]]]

(* An object written by this version of a program or an older one is read as   *)
(* it was, the properties its version did not have as they are by default, and *)
(* nothing of what follows it in the stream is read.                           *)
VersionsReadBack(object, rest) ==
  \A v \in 0..version(object.class) :
    deserialize(serialize_at(object, v) \o rest, instantiate(object.class))
      = <<[value |-> AtVersion(object, v), rest |-> rest]>>

(* A stream that ends too early throws: half an object is never returned.      *)
CutShortThrows(object) ==
  \A n \in 0..(Len(serialize(object)) - 1) :
    deserialize(SubSeq(serialize(object), 1, n), instantiate(object.class)) = Absent

(* An object written through a pointer to a base is read back as what it was,  *)
(* class and all, and a null pointer as one. A class without an id is taken for*)
(* a null pointer, and one with the id of the base for the base; of a class    *)
(* without a default constructor reading throws.                               *)
PointersReadBack(class, object, rest) ==
  /\ pointer_deserialize(class, pointer_serialize(<<>>) \o rest) = <<[value |-> <<>>, rest |-> rest]>>
  /\ id(object.class) # NullId /\ (object.class # class => id(object.class) # id(class)) =>
       pointer_deserialize(class, pointer_serialize(<<object>>) \o rest)
         = IF ~Described[object.class].is_constructible THEN Absent
           ELSE <<[value |-> <<AtVersion(object, version(object.class))>>, rest |-> rest]>>

\* Whether the span of a vector in the value ends behind that vector.
RECURSIVE Overruns(_, _)
Overruns(kind, value) ==
  \/ kind[1] = "sequence" /\ (Span(kind[2], Len(value)) > Len(value) \/ \E i \in DOMAIN value : Overruns(kind[2], value[i]))
  \/ kind[1] = "map" /\ \E k \in DOMAIN value : Overruns(kind[3], value[k])

(* What clone() makes of a value without null pointers is the value: what is    *)
(* written of it is read back with nothing left, the version included. Of a    *)
(* vector of values that are larger than a byte and trivially copyable nothing *)
(* is promised unless it is empty: more is written than the vector has.        *)
ClonesAreEqual(kind, value, v) ==
  LET written == serialize_versioned(kind, value, v)
  IN written # Absent /\ ~Overruns(kind, value) =>
       deserialize_versioned(kind, written[1]) = <<[value |-> value, rest |-> <<>>]>>
=============================================================================
