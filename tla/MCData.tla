------------------------------- MODULE MCData -------------------------------
(***************************************************************************)
(* Data that is written and read: strings, JSON documents, C++ objects as  *)
(* JSON and in binary streams, text, files and streams; and what is shown. *)
(* A behaviour picks one part at the start and one input of it; streams    *)
(* are called again and again.                                             *)
(***************************************************************************)
EXTENDS MCGraphics, StreamCalls, JsonTests

Files == INSTANCE FileIO
Tests == INSTANCE DataTests

-----------------------------------------------------------------------------
\* Strings of NUL, a control character, \n, quote, backslash, "a" and "u"; escaped text of letters, escapes,
\* high and low surrogates and an escape cut short.
Characters == BoundedSeq({0, 1, 10, 34, 92, 97, 117}, 4)
Escaped == {FlattenSeq(s) : s \in BoundedSeq(
  {<<97>>, <<92>>, <<34>>, <<92, 117, 100, 56, 51, 100>>, <<92, 117, 100, 69, 48, 48>>, <<92, 117, 48, 48, 52, 49>>,
   <<92, 117, 50, 48, 97, 99>>, <<92, 117, 48, 48, 101>>}, 3)}

\* Documents of leaves, empty pointers among them, in arrays and objects, and some of two levels.
Leaves == {<<"null">>, <<"boolean", "true">>, <<"number", "1">>, <<"number", "0.30000000000000004">>, <<"number", "inf">>, <<"string", "\"a\"">>}
Items == Leaves \cup {Documents!Empty, <<"array", <<>>>>, <<"object", <<>>>>}
Nested == {<<"array", <<<<"null">>, Documents!Empty>>>>, <<"object", "\"a\"" :> Documents!Empty>>, Documents!Empty}
Values == Leaves \cup {<<"array", s>> : s \in BoundedSeq(Items, 2) \cup [1..2 -> Nested]}
                 \cup {<<"object", f>> : f \in UNION {[names -> Items] : names \in SUBSET {"\"\"", "\"a\""}}}
TokenTexts == BoundedSeq({"[", "]", "{", "}", ",", ":", "1e0", "\"a\""}, 4)

\* Objects of every class with two values of each kind of property.
RECURSIVE ValuesOf(_)
Fill(functions, property) == {f @@ (property.name :> v) : f \in functions, v \in ValuesOf(property.kind)}
ObjectsOf(class) ==
  {[class |-> class, fields |-> f] : f \in FoldLeft(Fill, {<<>>}, Objects!properties(class))}
ValuesOf(kind) ==
  CASE kind[1] = "boolean" -> BOOLEAN
    [] kind[1] = "number" -> IF kind[2] = <<1>> THEN {1, 5} ELSE {0, IF kind[3] = <<>> THEN 513 ELSE 4}
    [] kind[1] = "numeric_enum" -> {0, 2}
    [] kind[1] = "named_enum" -> {0, IF kind[2].is_flags THEN 1 ELSE 2, 3}
    [] kind[1] = "string" -> IF kind[2] # <<>> THEN {"A"} ELSE {"", "A"}
    [] kind[1] = "array" -> {<<>>} \cup {<<v>> : v \in ValuesOf(kind[2])}
    [] kind[1] = "optional" -> {<<>>} \cup {<<v>> : v \in ValuesOf(kind[2])}
    [] kind[1] = "json_object" -> {<<"object", <<>>>>, <<"object", [k |-> Text("v")]>>}
    [] kind[1] = "any" -> {<<"null">>, <<"array", <<<<"number", 1>>>>>>}
    [] kind[1] \in {"object", "dto"} -> ObjectsOf(kind[2])

\* The JSON of a class with one or two properties left out or replaced by JSON of every type and size.
Replacements ==
  {<<"empty">>, <<"null">>, <<"boolean", TRUE>>, <<"number", 0>>, <<"number", 300>>,
   <<"string", "">>, <<"string", "A">>, <<"string", "calm">>, <<"string", "Calm">>, <<"string", " calm ">>, <<"string", "1">>,
   <<"string", "read|WRITE">>, <<"object", <<>>>>, <<"object", [sit |-> <<"null">>]>>,
   <<"array", <<>>>>, <<"array", <<<<"string", "A">>, <<"number", 0>>>>>>,
   <<"array", [i \in 1..6 |-> <<"string", "">>]>>}
Varied(pairs, names) ==
  UNION {{[k \in DOMAIN pairs \ {n} |-> pairs[k]]} \cup {(n :> r) @@ pairs : r \in Replacements} : n \in names}
JsonOf(class) ==
  LET names == {p.name : p \in Range(Objects!properties(class))}
      once == Varied(Objects!object_to_json(Objects!instantiate(class)), names)
  IN {<<"object", f>> : f \in IF Cardinality(names) > 3 THEN once ELSE UNION {Varied(g, names) : g \in once}}

\* Files that begin with a byte order mark, or with a part of one, or with none.
Marks == Prefixes(Files!Utf8Bom) \cup Prefixes(Files!Utf16Bom)
FileBytes == {mark \o bytes : mark \in Marks, bytes \in BoundedSeq({65, 239, 255}, 3)}

\* Binary objects with two values of each property.
FieldsOf(p) ==
  CASE p.kind[1] = "value" -> IF p.name = "is_friendly" THEN BOOLEAN ELSE IF p.name \in {"name", "tag"} THEN {"", "A"} ELSE {0, 7}
    [] p.kind[1] = "sequence" -> BoundedSeq({0, 7}, 2)
    [] p.kind[1] = "set" -> SUBSET {0, 7}
    [] p.kind[1] = "map" -> UNION {[keys -> {0, 7}] : keys \in SUBSET {"A", "B"}}
VersionedOf(class) ==
  LET fill(functions, p) == {f @@ (p.name :> v) : f \in functions, v \in FieldsOf(p)}
  IN {[class |-> class, fields |-> f] : f \in FoldLeft(fill, {<<>>}, Tests!Binary!properties(class))}

\* Vectors of pointers, of bytes and of numbers, maps to them, and vectors in vectors.
Pointers == {<<[key |-> 1, class |-> "request", content |-> 5]>>, <<[key |-> 2, class |-> "response", content |-> 6]>>, <<>>}
Clones ==
  [kind : {<<"sequence", <<"pointer">>>>}, value : BoundedSeq(Pointers, 2)]
  \cup [kind : {<<"sequence", <<"value">>>>, <<"sequence", <<"wide", 4>>>>}, value : BoundedSeq({7, 8}, 2)]
  \cup [kind : {<<"sequence", <<"sequence", <<"value">>>>>>, <<"sequence", <<"sequence", <<"wide", 2>>>>>>},
        value : BoundedSeq({<<>>, <<7>>}, 2)]
  \cup [kind : {<<"map", <<"value">>, <<"sequence", <<"pointer">>>>>>},
        value : UNION {[keys -> BoundedSeq(Pointers, 2)] : keys \in SUBSET {1, 2}}]

\* Parts of text, bytes, digits with padding (-1) and others (-2), and a uuid with one byte or digit changed.
Words == BoundedSeq({<<>>, <<"a">>, <<"a", " ", "a">>, <<"a", "a">>}, 4)
ByteStrings == BoundedSeq({0, 1, 127, 255}, 5)
Base64Digits == BoundedSeq({0, 1, 4, 16, 63, -1, -2}, 4) \cup [1..5 -> {4, -1}]
Uuid == [i \in 1..16 |-> 15 * i]
UuidTexts == {[Tests!Texts!uuid_to_string(Uuid) EXCEPT ![i] = d] : i \in 1..36, d \in {0, 15, -1, -2}}

\* Declarations of four bits: values that follow one another and wrap around, names that differ by case, flags,
\* flags of a negative number, and a name that is not declared.
Enums == INSTANCE NamedEnum WITH Width <- 4, Lower <- "LOW" :> "low"
Declarations ==
  [is_flags : {FALSE},
   entries : {<<Tests!Entry("low", Tests!Is(2)), Tests!Entry("high", <<>>), Tests!Entry("both", Tests!Is(6)), Tests!Entry("read", <<>>),
                Tests!Entry("all", <<<<"~", <<"number", 0>>>>>>), Tests!Entry("write", <<>>)>>,
              <<Tests!Entry("low", <<>>), Tests!Entry("LOW", <<>>)>>}]
  \cup
  [is_flags : {TRUE},
   entries : {<<Tests!Entry("none", Tests!Is(0)), Tests!Entry("read", Tests!Is(1)), Tests!Entry("write", Tests!Is(2)), Tests!Entry("high", Tests!Is(8)),
                Tests!Entry("both", <<<<"name", "read">>, <<"name", "write">>>>), Tests!Entry("all", <<<<"~", <<"number", 0>>>>>>)>>,
              <<Tests!Entry("read", Tests!Is(1)), Tests!Entry("low", <<<<"-", <<"number", 3>>>>>>)>>,
              <<Tests!Entry("read", <<<<"name", "none">>>>)>>}]

-----------------------------------------------------------------------------
DataInputs ==
  \/ part = "string" /\ input \in Characters
  \/ part = "escaped" /\ input \in Escaped
  \/ part = "document" /\ input \in Values
  \/ part = "text" /\ input \in TokenTexts
  \/ part = "object" /\ input \in UNION {ObjectsOf(class) : class \in DOMAIN AllClasses \ DOMAIN AnyClasses}
  \/ part = "json" /\ \E class \in DOMAIN TestClasses \cup DOMAIN FlagClasses : \E json \in JsonOf(class) :
                        input = [class |-> class, json |-> json]
  \/ part = "binary" /\ input \in UNION {VersionedOf(class) : class \in DOMAIN Tests!Versioned}
  \/ part = "clone" /\ input \in Clones
  \/ part = "words" /\ input \in Words
  \/ part = "bytes" /\ input \in ByteStrings
  \/ part = "base64" /\ input \in Base64Digits
  \/ part = "uuid" /\ input \in UuidTexts
  \/ part = "enum" /\ input \in [declaration : Declarations, value : SUBSET (0..3)]
  \/ part = "file" /\ input \in FileBytes
  \/ part \in {"tests", "stream"} /\ input = <<>>

\* A step of a stream changes nothing that is shown, so that GraphicsSpec holds too.
DataInit ==
  /\ part \in Parts /\ (part \in GraphicsParts \/ DataInputs) /\ GraphicsInit
  /\ Init /\ (part # "stream" => stream = NewMemory)
Stream == part = "stream" /\ Next /\ UNCHANGED graphicsVars
Showing == GraphicsNext /\ UNCHANGED callVars
DataSpec == DataInit /\ [][Stream \/ Showing]_<<graphicsVars, callVars>>

-----------------------------------------------------------------------------
(* The properties of the parts, stated and explained in their modules: of     *)
(* JSON text, its strings and its documents,                                  *)
DocumentsReadBack ==
  /\ part = "tests" => DocumentTestsPass
  /\ part = "string" => \A rest \in {<<>>, <<Documents!Quote>>, <<44>>} : Documents!EscapesReversed(input, rest)
  /\ part = "escaped" => Documents!EscapesMakeUtf8(input)
  /\ part = "document" => \A rest \in {<<>>, <<"]">>, <<",", "1">>} : Documents!ReadsBack(input, rest)
  /\ part = "text" => Documents!AcceptedIsDocument(input)
  /\ part = "text" => \A gap \in {<<"//", "]", "\n", " ">>, <<"/*", "]", "*/">>} : Documents!GapsAreFree(input, gap)

EscapesAllReversed == part = "string" => Documents!EscapesAllReversed(input)

(* of objects and the JSON they are read from,                                *)
ObjectsReadBack ==
  /\ part = "tests" => ObjectTestsPass
  /\ part = "object" =>
    IF input.class \in DOMAIN DtoClasses THEN \A class \in Objects!Bases(input.class) : Objects!DtoReadsBack(class, input)
    ELSE /\ Objects!Registrable /\ Objects!ObjectReadsBack(input) /\ Objects!DefaultIsEmpty(input)
         /\ \A class \in Objects!Bases(input.class) : Objects!PointerReadsBack(class, input)
ValidIsRead ==
  part = "json" => Objects!ValidIsRead(input.class, input.json) /\ Objects!SchemaAgrees(input.class, input.json)
ValidIsAlwaysRead == part = "json" => Objects!ValidIsAlwaysRead(input.class, input.json)

(* of objects in binary streams,                                              *)
BinaryReadsBack ==
  /\ part = "tests" => Tests!BinaryTestsPass
  /\ part = "binary" => \A rest \in {<<>>, <<1>>} :
       /\ Tests!Binary!Registrable /\ Tests!Binary!VersionsReadBack(input, rest) /\ Tests!Binary!CutShortThrows(input)
       /\ \A class \in Tests!Binary!Bases(input.class) : Tests!Binary!PointersReadBack(class, input, rest)
  /\ part = "clone" => Tests!Binary!ClonesAreEqual(input.kind, input.value, 3)

(* and of text, base64, uuids and enumerations, and of text in files.         *)
TextReadsBack ==
  /\ part = "tests" => Tests!TextTestsPass /\ Files!TestTryReadText
  /\ part = "words" => Tests!Texts!PartsReadBack(input, "|")
  /\ part = "bytes" => Tests!Texts!Base64ReadsBack(input)
  /\ part = "base64" => Tests!Texts!Base64IsCanonical(input)
  /\ part = "uuid" => Tests!Texts!UuidTextKept(input) /\ \A bytes \in Range(Tests!Texts!uuid_from_string(input)) : Tests!Texts!UuidReadsBack(bytes)
  /\ part = "enum" => \A definition \in Range(Enums!parse_definition(input.declaration.entries, input.declaration.is_flags)) :
       Enums!ValuesReadBack(definition, input.value) /\ Enums!FollowsPrevious(input.declaration.entries, definition)
  /\ part = "file" => Files!TextReadsBack(input) /\ Files!FileReadsBack(input)
EveryFileIsText == part = "file" => Files!EveryFileIsText(input)
MalformedRefused == part = "base64" => Tests!Texts!MalformedRefused(input)
NumbersAreParsed ==
  part = "enum" => \A definition \in Range(Enums!parse_definition(input.declaration.entries, input.declaration.is_flags)) :
    Enums!NumbersAreParsed(definition, input.value)
=============================================================================
