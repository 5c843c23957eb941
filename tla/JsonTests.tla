------------------------------ MODULE JsonTests ------------------------------
(***************************************************************************)
(* The classes Axodox.Common.Tests/JsonTest.cpp describes, which stand for *)
(* those of programs: hierarchies with an inherited and with an overridden *)
(* discriminator, all required states, nested and optional objects. Then   *)
(* its tests, each under its name, as what they expect of the modules.     *)
(***************************************************************************)
EXTENDS TLC, SequencesExt, FiniteSetsExt

Member(name, kind, is_required) == [name |-> name, kind |-> kind, is_required |-> is_required]
Unset == <<>>
NumberFrom(min, max) == <<"number", min, max>>
AnyNumber == NumberFrom(<<>>, <<>>)
AnyString == <<"string", <<>>>>

\* Enumerations as NamedEnum has them, by the names of their values and the bits of these; their texts besides
\* single names.
CaseLess == "Grumpy" :> "grumpy" @@ "Calm" :> "calm" @@ "WRITE" :> "write"
Texts == "" :> <<<<"", "">>>> @@ "1" :> <<<<"number", 1>>>> @@ "3" :> <<<<"number", 3>>>> @@ " calm " :> <<<<"name", "calm">>>>
           @@ "read | write" :> <<<<"name", "read">>, <<"name", "write">>>>
           @@ "read|WRITE" :> <<<<"name", "read">>, <<"name", "WRITE">>>>
Named(items, is_flags) ==
  <<"named_enum", [items |-> [i \in DOMAIN items |-> [name |-> items[i][1], key |-> items[i][1], value |-> items[i][2]]],
                   is_flags |-> is_flags]>>
Mood == Named(<<<<"calm", {}>>, <<"excited", {0}>>, <<"grumpy", {1}>>>>, FALSE)

Class(base, name, discriminator, own, initial) ==
  [base |-> base, name |-> name, discriminator |-> discriminator, properties |-> own, initial |-> initial]

TestAnimals ==
  "animal" :> Class(<<>>, <<"animal">>, <<>>,
                <<Member("name", <<"string", <<{"Rex", "Felix", "Pongo", "A"}>>>>, Unset), Member("age", NumberFrom(<<0>>, <<200>>), Unset),
                  Member("is_friendly", <<"boolean">>, Unset),
                  Member("mood", Mood, Unset),
                  Member("nicknames", <<"array", AnyString, <<0>>, <<5>>>>, Unset)>>,
                [name |-> "", age |-> 0, is_friendly |-> TRUE, mood |-> 0, nicknames |-> <<>>])
  @@ "dog_training" :> Class(<<>>, Unset, <<>>,
                <<Member("sit", <<"boolean">>, Unset), Member("paw", <<"boolean">>, Unset)>>, [sit |-> FALSE, paw |-> FALSE])
  @@ "dog" :> Class(<<"animal">>, <<"dog">>, <<>>,
                <<Member("bark_volume", NumberFrom(<<0>>, <<10>>), Unset), Member("fur_color", <<"numeric_enum">>, Unset),
                  Member("training", <<"optional", <<"object", "dog_training">>>>, Unset)>>,
                [bark_volume |-> 5, fur_color |-> 0, training |-> <<>>])
  @@ "dalmatian_dog" :> Class(<<"dog">>, <<"dalmatian_dog">>, <<>>,
                <<Member("spot_count", NumberFrom(<<0>>, <<>>), Unset)>>, [spot_count |-> 100])
  @@ "horse" :> Class(<<"animal">>, <<"horse">>, <<>>, <<Member("coat_color", AnyString, Unset)>>, [coat_color |-> "brown"])
  @@ "arabian_horse" :> Class(<<"horse">>, <<"arabian_horse">>, <<>>,
                <<Member("lineage_score", NumberFrom(<<0>>, <<100>>), Unset)>>, [lineage_score |-> 50])

TestVehicles ==
  "vehicle" :> Class(<<>>, <<"vehicle">>, <<"type">>,
                <<Member("model", AnyString, Unset), Member("wheels", NumberFrom(<<0>>, <<>>), Unset)>>,
                [model |-> "", wheels |-> 4])
  @@ "car" :> Class(<<"vehicle">>, <<"car">>, <<>>, <<Member("seats", NumberFrom(<<1>>, <<>>), Unset)>>, [seats |-> 5])
  @@ "motorcycle" :> Class(<<"vehicle">>, <<"motorcycle">>, <<>>,
                <<Member("has_sidecar", <<"boolean">>, Unset)>>, [has_sidecar |-> FALSE])
  @@ "sports_car" :> Class(<<"car">>, <<"sports_car">>, <<>>, <<Member("top_speed", AnyNumber, Unset)>>, [top_speed |-> 0])
  @@ "truck" :> Class(<<"vehicle">>, <<"truck">>, <<"kind">>, <<Member("payload", AnyNumber, Unset)>>, [payload |-> 0])

TestStates ==
  "required_states" :> Class(<<>>, Unset, <<>>,
                <<Member("always", AnyString, <<TRUE>>), Member("omitted", AnyString, <<FALSE>>),
                  Member("unspecified", AnyString, Unset)>>, [always |-> "", omitted |-> "", unspecified |-> ""])
  @@ "optional_defaults" :> Class(<<>>, Unset, <<>>,
                <<Member("optional_text", <<"optional", AnyString>>, <<FALSE>>),
                  Member("optional_number", <<"optional", AnyNumber>>, <<FALSE>>),
                  Member("plain_text", AnyString, <<FALSE>>), Member("plain_number", AnyNumber, <<FALSE>>)>>,
                [optional_text |-> <<>>, optional_number |-> <<>>, plain_text |-> "", plain_number |-> 0])
  @@ "nested_inner" :> Class(<<>>, Unset, <<>>,
                <<Member("hideable", AnyString, <<FALSE>>), Member("always", AnyString, <<FALSE>>)>>,
                [hideable |-> "", always |-> ""])
  @@ "nested_outer" :> Class(<<>>, Unset, <<>>, <<Member("inner", <<"object", "nested_inner">>, <<FALSE>>)>>,
                [inner |-> [class |-> "nested_inner", fields |-> [hideable |-> "", always |-> ""]]])

TestDefaults ==
  "labelled_object" :> Class(<<>>, Unset, <<>>, <<Member("text", AnyString, Unset)>>, [text |-> ""])
  @@ "hidden_defaults" :> Class(<<>>, Unset, <<>>,
                <<Member("flag", <<"boolean">>, <<FALSE>>), Member("number", AnyNumber, <<FALSE>>),
                  Member("text", AnyString, <<FALSE>>), Member("items", <<"array", AnyNumber, <<>>, <<>>>>, <<FALSE>>),
                  Member("object", <<"json_object">>, <<FALSE>>), Member("nullable", <<"optional", AnyString>>, <<FALSE>>)>>,
                [flag |-> FALSE, number |-> 0, text |-> "", items |-> <<>>, object |-> <<"object", <<>>>>, nullable |-> <<>>])
  @@ "unspecified_required" :> Class(<<>>, Unset, <<>>,
                <<Member("flag", <<"boolean">>, Unset), Member("number", AnyNumber, Unset), Member("text", AnyString, Unset)>>,
                [flag |-> FALSE, number |-> 0, text |-> ""])

TestClasses == TestAnimals @@ TestVehicles @@ TestStates @@ TestDefaults

\* Classes of any JSON values, whose empty pointers are written but not read without the text between.
AnyClasses ==
  "typeless" :> Class(<<>>, Unset, <<>>,
                <<Member("optional_object", <<"optional", <<"json_object">>>>, Unset), Member("any_value", <<"any">>, Unset),
                  Member("some_array", <<"json_array", <<10>>>>, Unset)>>,
                [optional_object |-> <<>>, any_value |-> <<"empty">>, some_array |-> <<"array", <<>>>>])
  @@ "any_visible_variations" :> Class(<<>>, Unset, <<>>,
                <<Member("any", <<"any">>, Unset), Member("unrequied_any", <<"any">>, <<FALSE>>),
                  Member("optional_any", <<"optional", <<"any">>>>, Unset),
                  Member("unrequired_optional_any", <<"optional", <<"any">>>>, <<FALSE>>)>>,
                [any |-> <<"empty">>, unrequied_any |-> <<"empty">>, optional_any |-> <<>>, unrequired_optional_any |-> <<>>])

\* Two classes that are named by a type registry.
DtoClasses ==
  "message" :> Class(<<>>, <<"message">>, <<>>, <<Member("id", AnyNumber, Unset)>>, [id |-> 0])
  @@ "text_message" :> Class(<<"message">>, <<"text_message">>, <<>>,
       <<Member("text", AnyString, Unset), Member("more", <<"array", <<"dto", "message">>, <<>>, <<>>>>, Unset),
         Member("body", <<"any">>, Unset)>>, [text |-> "", more |-> <<>>, body |-> <<"empty">>])

TypeKeys == Named(<<<<"message", {}>>, <<"text_message", {0}>>>>, FALSE)

\* A class with flags.
Access == Named(<<<<"none", {}>>, <<"read", {0}>>, <<"write", {1}>>>>, TRUE)
FlagClasses == "file_access" :> Class(<<>>, <<"file_access">>, <<>>, <<Member("access", Access, <<FALSE>>)>>, [access |-> 0])

AllClasses == TestClasses @@ AnyClasses @@ DtoClasses @@ FlagClasses
Objects == INSTANCE JsonObjects
             WITH Classes <- DOMAIN AllClasses, Described <- AllClasses, TypeKeys <- TypeKeys[2], Precision <- 9, Width <- 10,
                  Lower <- CaseLess, Spelled <- Texts,
                  Joined <- (<<<<"number", 3>>>> :> "3") @@ (<<<<"name", "read">>, <<"name", "write">>>> :> "read | write")
Tokens == {"\"\"", "\"a\"", "\"name\"", "\"Rex\"", "\"values\"", "\"path\"", "\"a//b/*c*/\""}
Digits == {"0", "1", "2", "3", "-1", "1.14", "3.5", "42", "0.3", "0.30000000000000004", "inf"}
Documents == INSTANCE JsonText
               WITH Doubles <- [n \in Digits |-> n] @@ "1e0" :> "1" @@ "0.1e1" :> "1", NonFinite <- {"inf", "nan"},
                    Rounded <- "0.30000000000000004" :> "0.3", Strings <- Tokens

-----------------------------------------------------------------------------
\* An object with some members changed, what is written of it, and what is read.
Make(class, changes) == [class |-> class, fields |-> changes @@ Objects!instantiate(class).fields]
Sent(class, changes) == Objects!object_to_json(Make(class, changes))
Text(s) == <<"string", s>>
Number(n) == <<"number", n>>
Reads(class, pairs) == Objects!object_from_json(Objects!instantiate(class), <<"object", pairs>>)
RoundTrips(class, changes) == Reads(class, Sent(class, changes)) = [ok |-> TRUE, value |-> Make(class, changes)]
SentBehind(object) == Objects!pointer_to_json(<<object>>)
Valid(class, pairs) == Objects!validate(<<"object", class>>, <<"object", pairs>>)
SchemaOf(class) == Objects!schema_to_json(<<"object", class>>)
Parse(text) == Documents!from_string(text)

-----------------------------------------------------------------------------
\* Descriptors and round trips.
TestDescriptorRegistration ==
  /\ Objects!derived_descriptors("animal") = {"dog", "dalmatian_dog", "horse", "arabian_horse"}
  /\ Objects!derived_descriptors("dog") = {"dalmatian_dog"}
  /\ Len(Objects!properties("dalmatian_dog")) = 9
TestRoundTripDirect ==
  /\ RoundTrips("animal", [name |-> "Felix", age |-> 7, is_friendly |-> FALSE, mood |-> 2, nicknames |-> <<"Fluffy", "Mr. Cat">>])
  /\ RoundTrips("dog", [name |-> "Rex", age |-> 3, bark_volume |-> 8, fur_color |-> 1,
                        training |-> <<Make("dog_training", [sit |-> TRUE, paw |-> FALSE])>>])
  /\ RoundTrips("dog", [name |-> "Buddy", age |-> 2])
  /\ RoundTrips("dalmatian_dog", [name |-> "Pongo", bark_volume |-> 6, fur_color |-> 2, spot_count |-> 101])
TestPolymorphicSerializeIncludesType ==
  SentBehind(Make("dog", [name |-> "Rex", bark_volume |-> 9]))[2]["$type"] = Text("dog")

\* What is read behind pointers: their class, the JSON, and the pointer that is read, if any.
Sending(base, object) == <<base, SentBehind(object), <<<<object>>>>>>
TestPolymorphicRoundTrip ==
  <<Sending("animal", Make("dog", [name |-> "Rex", age |-> 4, bark_volume |-> 7, fur_color |-> 2])),
    Sending("animal", Make("dalmatian_dog", [name |-> "Pongo", spot_count |-> 99]))>>
TestPolymorphicRejects ==
  <<<<"horse", SentBehind(Make("dog", [name |-> "Rex"])), <<>>>>,
    <<"dog", SentBehind(Make("arabian_horse", [name |-> "Bucephalus"])), <<>>>>,
    Sending("dog", Make("dalmatian_dog", [name |-> "Pongo", spot_count |-> 102]))>>
TestPointerRead ==
  <<<<"required_states", <<"object", [always |-> Number(42)]>>, <<>>>>, <<"required_states", <<"null">>, <<<<>>>>>>,
    <<"animal", <<"object", "$type" :> Text("unicorn") @@ [name |-> Text("Rex")]>>, <<>>>>>>
TestCustomTypeDiscriminatorPolymorphicRoundTrip ==
  <<Sending("vehicle", Make("motorcycle", [model |-> "Scrambler", wheels |-> 2, has_sidecar |-> TRUE]))>>
TestCustomTypeDiscriminatorIgnoresDollarType ==
  <<<<"vehicle", <<"object", "$type" :> Text("motorcycle")
                               @@ [model |-> Text("Imposter"), wheels |-> Number(4), seats |-> Number(3)]>>,
      <<<<Make("vehicle", [model |-> "Imposter"])>>>>>>>>
AsExpected(read, expected) == read.ok = (expected # <<>>) /\ \A pointer \in Range(expected) : read.value = pointer
PointersPass ==
  LET tests == TestPolymorphicRoundTrip \o TestPolymorphicRejects \o TestPointerRead
                 \o TestCustomTypeDiscriminatorPolymorphicRoundTrip \o TestCustomTypeDiscriminatorIgnoresDollarType
  IN \A i \in DOMAIN tests : AsExpected(Objects!pointer_from_json(tests[i][1], tests[i][2], <<>>), tests[i][3])

\* Text: comments, indentation, numbers without a text of their own. Some tests are tables of texts and what
\* is read of them: a value, or none.
Behind(value, rest) == <<[value |-> value, rest |-> rest]>>
TestParseIgnoresComments ==
  {<<<<"//", "]", "\n", "{", "/*", "]", "*/", "\"name\"", ":", "\"Rex\"", ",", "//", "[", "\n",
       "\"values\"", ":", "[", "1", ",", "/*", "1", "*/", " ", "2", "//", "]", "\n", ",", "3", "]", ",",
       "\"path\"", ":", "\"a//b/*c*/\"", "/*", "{", "\n", "*/", "\n", "}", "//", "}">>,
     Behind(<<"object", "\"name\"" :> Text("\"Rex\"") @@ "\"path\"" :> Text("\"a//b/*c*/\"")
                          @@ "\"values\"" :> <<"array", <<Number("1"), Number("2"), Number("3")>>>>>>, <<"//", "}">>)>>}
TestParseFailsOnLoneSlash == {<<<<"{", "/", "\"name\"", ":", "\"Rex\"", "}">>, <<>>>>}
TestNonFiniteNumber == {<<<<"{", "\"a\"", ":", "null", "}">>, Behind(<<"object", "\"a\"" :> <<"null">>>>, <<>>)>>}
TestIsDefault ==
  <<{<<"null">>, <<"boolean", "false">>, Number("0"), Text("\"\""), <<"array", <<>>>>, <<"object", <<>>>>},
    {<<"boolean", "true">>, Number("1"), Number("-1"), Text("\"a\""), <<"array", <<<<"null">>>>>>,
     <<"object", "\"a\"" :> <<"null">>>>}>>
TestIsDefaultThroughBaseReference == <<{<<"empty">>}, {Number("42"), Text("\"Rex\"")}>>
TestIsDefaultMatchesParsedValues ==
  <<{<<<<"null">>, <<"null">>>>, <<<<"false">>, <<"boolean", "false">>>>, <<<<"0">>, Number("0")>>,
     <<<<"\"\"">>, Text("\"\"")>>, <<<<"[", "]">>, <<"array", <<>>>>>>, <<<<"{", "}">>, <<"object", <<>>>>>>},
    {<<<<"true">>, <<"boolean", "true">>>>, <<<<"3.5">>, Number("3.5")>>, <<<<"\"a\"">>, Text("\"a\"")>>,
     <<<<"[", "0", "]">>, <<"array", <<Number("0")>>>>>>,
     <<<<"{", "\"a\"", ":", "0", "}">>, <<"object", "\"a\"" :> Number("0")>>>>}>>
TestTypelessValueSerialization ==
  LET list == <<"array", <<Text("\"a\""), Text("\"\"")>>>>
  IN {<<<<"1.14">>, Number("1.14")>>, <<<<"[", "\"a\"", ",", "\"\"", "]">>, list>>,
      <<<<"{", "\"a\"", ":", "[", "\"a\"", ",", "\"\"", "]", "}">>, <<"object", "\"a\"" :> list>>>>}
TestOutput ==
  LET fork == <<"object", "\"name\"" :> Text("\"Rex\"")>>
  IN <<<<"object", "\"values\"" :> <<"array", <<Number("1"), fork, <<"object", <<>>>>, <<"array", <<>>>>>>>>>>,
       <<"{", "\"values\"", ":", "[", "1", ",", "{", "\"name\"", ":", "\"Rex\"", "}", ",", "{", "}", ",", "[", "]", "]", "}">>,
       <<"{", "\n", " ", "\"values\"", ":", " ", "[", "\n", " ", " ", "1", ",", "\n", " ", " ", "{", "\n",
         " ", " ", " ", "\"name\"", ":", " ", "\"Rex\"", "\n", " ", " ", "}", ",", "\n", " ", " ", "{", "}", ",", "\n",
         " ", " ", "[", "]", "\n", " ", "]", "\n", "}">>>>
TestStringifyJsonAcceptsOptions ==
  <<<<"array", <<Number("1")>>>>, <<"[", "1", "]">>, <<"[", "\n", " ", "1", "\n", "]">>>>
ParsePasses ==
  LET kept == UNION Range(TestIsDefaultMatchesParsedValues) \cup TestTypelessValueSerialization
      read == TestParseIgnoresComments \cup TestParseFailsOnLoneSlash \cup TestNonFiniteNumber
                \cup {<<test[1], Behind(test[2], <<>>)>> : test \in kept}
      written == {TestOutput, TestStringifyJsonAcceptsOptions} \cup {<<test[2], test[1]>> : test \in kept}
                   \cup {<<<<"object", "\"a\"" :> Number(n)>>, <<"{", "\"a\"", ":", "null", "}">>>> : n \in {"inf", "nan"}}
      values(i) == TestIsDefault[i] \cup TestIsDefaultThroughBaseReference[i]
                     \cup {test[2] : test \in TestIsDefaultMatchesParsedValues[i]}
  IN /\ \A test \in read : Parse(test[1]) = test[2]
     /\ \A test \in written : \A i \in 2..Len(test) : Documents!stringify(test[1], i = 3) = test[i]
     /\ \A i \in 1..2 : \A value \in values(i) : i = 1 <=> Documents!json_value_is_default(value)

\* Escapes, as bytes: an escape of a code unit by its four digits, and text in quotes. Tables of values and
\* their escaped texts, and of texts and what is read of them.
Backslash == 92
Unit(digits) == <<Backslash, 117>> \o digits
Quoted(bytes) == <<34>> \o bytes \o <<34>>
TestEscapeString ==
  {<<<<97, 34, 98, 92, 99, 10, 1>>, <<97, 92, 34, 98, 92, 92, 99, 92, 110>> \o Unit(<<48, 48, 48, 49>>)>>,
   <<<<112, 108, 97, 105, 110>>, <<112, 108, 97, 105, 110>>>>}
TestControlCharactersAreEscaped ==
  {<<<<97, 27, 98, 8, 12, 127>>, <<97>> \o Unit(<<48, 48, 49, 98>>) \o <<98, 92, 98, 92, 102, 127>>>>}
TestPropertyNamesAreEscaped == {<<<<67, 58, 92, 97, 34, 98>>, <<67, 58, 92, 92, 97, 92, 34, 98>>>>}
TestEscapeRoundTrip ==
  {<<<<34, 32, 92, 32, 47, 32, 9, 32, 13, 10, 32, 31>>,
     <<92, 34, 32, 92, 92, 32, 47, 32, 92, 116, 32, 92, 114, 92, 110, 32>> \o Unit(<<48, 48, 49, 102>>)>>}
TestUnescapeString ==
  LET utf8 == <<195, 169, 240, 159, 152, 128>>
  IN {<<utf8, <<utf8>>>>, <<<<116, Backslash>>, <<>>>>, <<Unit(<<49, 50>>), <<>>>>}
TestParseDecodesEscapes ==
  {<<Unit(<<48, 48, 101, 57>>) \o Unit(<<52, 69, 50, 68>>) \o Unit(<<100, 56, 51, 100>>) \o Unit(<<100, 101, 48, 48>>)
       \o <<92, 98, 92, 102, 92, 47, 92, 92, 92, 34, 92, 110>>,
     <<<<195, 169, 228, 184, 173, 240, 159, 152, 128, 8, 12, 47, 92, 34, 10>>>>>>}
TestParseReplacesUnpairedSurrogates ==
  {<<Unit(<<100, 56, 51, 100>>) \o <<120>>, <<<<239, 191, 189, 120>>>>>>, <<Unit(<<100, 101, 48, 48>>), <<<<239, 191, 189>>>>>>}
TestParseFailsOnInvalidUnicodeEscape == {<<Unit(<<49, 50, 103, 52>>), <<>>>>, <<Unit(<<49, 50>>), <<>>>>}
EscapesPass ==
  LET written == TestEscapeString \cup TestControlCharactersAreEscaped \cup TestPropertyNamesAreEscaped \cup TestEscapeRoundTrip
      read == TestUnescapeString \cup TestParseDecodesEscapes \cup TestParseReplacesUnpairedSurrogates
                \cup TestParseFailsOnInvalidUnicodeEscape
  IN /\ \A test \in written : Documents!json_string_to_string(test[1]) = Quoted(test[2])
     /\ \A test \in read \cup {<<w[2], <<w[1]>>>> : w \in written} :
          /\ Documents!json_unescape_string(test[1]) = test[2]
          /\ \A value \in Range(test[2]) :
               Documents!json_string_from_string(Quoted(test[1]) \o <<32, 116>>) = Behind(value, <<32, 116>>)

-----------------------------------------------------------------------------
\* Schemas, properties by name, and what is read with members missing or of another type.
TestSchemaForAnimal ==
  LET schema == SchemaOf("animal")
      enum == "type" :> {"string"} @@ "enum" :> <<"calm", "excited", "grumpy">>
  IN /\ schema["type"] = {"object"} /\ Cardinality(DOMAIN schema["properties"]) = 5
     /\ "pattern" \in DOMAIN schema["properties"]["name"]
     /\ schema["properties"]["age"] = "type" :> {"number"} @@ "minimum" :> 0 @@ "maximum" :> 200
     /\ schema["properties"]["is_friendly"] = "type" :> {"boolean"}
     /\ schema["properties"]["mood"] = enum
     /\ schema["properties"]["nicknames"] =
          "type" :> {"array"} @@ "minItems" :> 0 @@ "maxItems" :> 5 @@ "items" :> ("type" :> {"string"})
TestSchemaForDog ==
  LET members == SchemaOf("dog")["properties"]
  IN /\ {"name", "age", "mood", "bark_volume", "fur_color", "training"} \subseteq DOMAIN members
     /\ members["bark_volume"] = "type" :> {"number"} @@ "minimum" :> 0 @@ "maximum" :> 10
     /\ members["fur_color"]["type"] = {"number"} /\ members["training"]["type"] = {"object", "null"}
     /\ DOMAIN members["training"]["properties"] = {"sit", "paw"}
TestExtendedDescriptor ==
  /\ Len(Objects!properties("labelled_object")) = 1
  /\ Sent("labelled_object", [text |-> "hello"]) = [text |-> Text("hello")]
  /\ RoundTrips("labelled_object", [text |-> "hello"])
TestFindProperty ==
  /\ Objects!find_property("required_states", "always") = <<Member("always", AnyString, <<TRUE>>)>>
  /\ \A name \in {"nonexistent", "Always"} : Objects!find_property("required_states", name) = <<>>
  /\ \A name \in {"name", "bark_volume"} : Objects!find_property("dog", name) # <<>>
TestReads ==
  /\ Reads("required_states", [always |-> Text("here")]) = [ok |-> TRUE, value |-> Make("required_states", [always |-> "here"])]
  /\ ~Reads("required_states", [omitted |-> Text("a"), unspecified |-> Text("b")]).ok
  /\ ~Reads("required_states", [always |-> Number(42)]).ok
  /\ ~Reads("required_states", [omitted |-> Text("a")]).ok

\* Discriminators.
TestTypeDiscriminators ==
  /\ \A class \in {"vehicle", "car", "motorcycle", "sports_car"} : Objects!type_discriminator(class) = "type"
  /\ \A class \in {"animal", "dog", "dalmatian_dog"} : Objects!type_discriminator(class) = "$type"
  /\ Objects!type_discriminator("truck") = "kind"
TestInheritedDiscriminatorIsUsedWhenSerializing ==
  \A class \in {"sports_car", "car"} :
    LET pairs == SentBehind(Make(class, [model |-> "Speedster"]))[2] IN pairs["type"] = Text(class) /\ "$type" \notin DOMAIN pairs
TestNumericEnumSerialization ==
  Objects!from_json(<<"numeric_enum">>, Objects!to_json(<<"numeric_enum">>, 1), 0) = [ok |-> TRUE, value |-> 1]

\* Values of any type, and defaults that are left out.
TestTypeless ==
  LET list == <<"object", [list |-> <<"array", <<Text("asd"), Text("qwe")>>>>]>>
  IN /\ \A kind \in {<<"json_object">>, <<"any">>, <<"optional", <<"json_object">>>>} :
          Objects!to_json(kind, Objects!from_json(kind, list, Objects!DefaultOf(kind)).value) = list
     /\ \A kind \in {<<"json_array", <<>>>>, <<"any">>, <<"optional", <<"json_array", <<>>>>>>} :
          Objects!to_json(kind, Objects!from_json(kind, list[2].list, Objects!DefaultOf(kind)).value) = list[2].list
TestTypelessSchema ==
  LET pairs == [optional_object |-> <<"object", [a |-> Number(5), b |-> <<"boolean", TRUE>>]>>, any_value |-> Number(1),
                some_array |-> <<"array", <<Number(1), <<"boolean", FALSE>>, Text("asd")>>>>]
      schema == SchemaOf("typeless")["properties"]
  IN /\ Objects!object_to_json(Reads("typeless", pairs).value) = pairs
     /\ schema["optional_object"]["type"] = {"object", "null"} /\ schema["any_value"] = <<>>
     /\ schema["some_array"] = "type" :> {"array"} @@ "maxItems" :> 10 @@ "items" :> <<>>
TestHiddenDefaults ==
  LET k == <<"object", [k |-> Text("v")]>>
      filled == [flag |-> TRUE, number |-> 42, text |-> "hi", items |-> <<1, 2>>, object |-> k, nullable |-> <<"set">>]
  IN /\ Sent("hidden_defaults", <<>>) = <<>>
     /\ RoundTrips("hidden_defaults", filled)
     /\ \A name \in DOMAIN filled : DOMAIN Sent("hidden_defaults", name :> filled[name]) = {name}
     /\ DOMAIN Sent("hidden_defaults", [nullable |-> <<"">>]) = {"nullable"}
TestUnspecifiedRequired ==
  /\ DOMAIN Sent("unspecified_required", <<>>) = {"flag", "number", "text"}
  /\ "required" \notin DOMAIN SchemaOf("unspecified_required")
TestAnyVisibilityVariations ==
  LET set(n) == [any |-> Number(n), unrequied_any |-> Number(n),
                 optional_any |-> <<Number(n)>>, unrequired_optional_any |-> <<Number(n)>>]
  IN /\ DOMAIN Sent("any_visible_variations", <<>>) = {"any", "optional_any"}
     /\ DOMAIN Sent("any_visible_variations", set(0)) = {"any", "optional_any", "unrequired_optional_any"}
     /\ DOMAIN Sent("any_visible_variations", set(1)) = DOMAIN set(1)
TestRequiredStates ==
  /\ DOMAIN Sent("required_states", <<>>) = {"always", "unspecified"}
  /\ DOMAIN Sent("required_states", [always |-> "a", omitted |-> "b", unspecified |-> "c"]) = {"always", "omitted", "unspecified"}
  /\ SchemaOf("required_states")["required"] = {"always"}
TestEngagedOptional ==
  /\ DOMAIN Sent("optional_defaults", [optional_text |-> <<"">>, optional_number |-> <<0>>]) = {"optional_text", "optional_number"}
  /\ Sent("optional_defaults", <<>>) = <<>>
  /\ RoundTrips("optional_defaults", [optional_text |-> <<"">>])
TestNestedObject ==
  LET set == Make("nested_inner", [hideable |-> "x"])
  IN /\ Objects!object_is_default(Make("nested_inner", <<>>)) /\ Sent("nested_outer", <<>>) = <<>>
     /\ ~Objects!object_is_default(set) /\ DOMAIN Sent("nested_outer", [inner |-> set]) = {"inner"}
TestDescriptorIsDefaultAgreesWithSerialization ==
  \A object \in {Make("nested_inner", <<>>), Make("nested_inner", [hideable |-> "x"]), Make("nested_outer", <<>>),
                 Make("nested_outer", [inner |-> Make("nested_inner", [always |-> "y"])]), Make("required_states", <<>>),
                 Make("optional_defaults", <<>>), Make("optional_defaults", [optional_text |-> <<"">>])} :
    Objects!object_is_default(object) <=> Objects!any_is_default(<<"object", Objects!object_to_json(object)>>)
\* Validation.
TestSchemaValidation ==
  LET letters(n) == <<"array", [i \in 1..n |-> Text("a")]>>
  IN /\ Valid("animal", [name |-> Text("Rex"), age |-> Number(3), mood |-> Text("Grumpy"), nicknames |-> letters(1)])
     /\ \A pairs \in {[name |-> Text("Rex 2")], [age |-> Number(300)], [mood |-> Text("sleepy")], [nicknames |-> letters(6)],
                      [nicknames |-> <<"array", <<Number(1)>>>>], [is_friendly |-> Number(1)]} : ~Valid("animal", pairs)
TestOptionalSchemaTakesNull ==
  /\ Valid("dog", [training |-> <<"null">>]) /\ Valid("dog", [training |-> <<"object", [sit |-> <<"boolean", TRUE>>]>>])
  /\ ~Valid("dog", [training |-> Text("yes")])
TestNamedEnumRejectsUnknownNames ==
  LET mood == Objects!Property("animal", "mood").kind
  IN /\ Objects!from_json(mood, Text("Grumpy"), 0) = [ok |-> TRUE, value |-> 2]
     /\ ~Objects!from_json(mood, Text("sleepy"), 0).ok
     /\ Reads("animal", [mood |-> Text("grumpy")]).ok /\ ~Reads("animal", [mood |-> Text("sleepy")]).ok

(* The tests of JsonTest.cpp hold of the modules, so what the modules say of   *)
(* descriptors, schemas, documents and escapes is what the tests expect of the *)
(* code.                                                                       *)
ObjectTestsPass ==
  /\ TestDescriptorRegistration /\ TestRoundTripDirect /\ TestPolymorphicSerializeIncludesType /\ PointersPass
  /\ TestSchemaForAnimal /\ TestSchemaForDog /\ TestExtendedDescriptor /\ TestFindProperty /\ TestReads
  /\ TestTypeDiscriminators /\ TestInheritedDiscriminatorIsUsedWhenSerializing /\ TestNumericEnumSerialization
  /\ TestTypeless /\ TestTypelessSchema /\ TestHiddenDefaults /\ TestUnspecifiedRequired
  /\ TestAnyVisibilityVariations /\ TestRequiredStates /\ TestEngagedOptional /\ TestNestedObject
  /\ TestDescriptorIsDefaultAgreesWithSerialization /\ TestSchemaValidation /\ TestOptionalSchemaTakesNull
  /\ TestNamedEnumRejectsUnknownNames
DocumentTestsPass == ParsePasses /\ EscapesPass
=============================================================================
