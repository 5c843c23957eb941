----------------------------- MODULE DataTests -----------------------------
(***************************************************************************)
(* The classes Axodox.Common.Tests/BinaryTest.cpp describes, which stand   *)
(* for those of programs: a hierarchy of ids, a class whose properties     *)
(* came and went with its versions, and one of containers. Then the tests  *)
(* of BinaryTest.cpp and of TextTest.cpp, each under its name, as what     *)
(* they expect of the modules.                                             *)
(***************************************************************************)
EXTENDS Integers, TLC, SequencesExt

Always(name, kind) == [name |-> name, kind |-> kind, min_version |-> 0, max_version |-> 65535]
Since(name, kind, v) == [Always(name, kind) EXCEPT !.min_version = v]
Until(name, kind, v) == [Always(name, kind) EXCEPT !.max_version = v]
Plain == <<"value">>

Class(base, id, version, own, initial) ==
  [base |-> base, id |-> id, version |-> version, properties |-> own, initial |-> initial, is_constructible |-> TRUE]

TestCreatures ==
  "creature" :> Class(<<>>, <<1>>, <<1>>, <<Always("name", Plain), Always("age", Plain), Always("is_friendly", Plain)>>,
                      [name |-> "", age |-> 0, is_friendly |-> TRUE])
  @@ "hound" :> Class(<<"creature">>, <<2>>, <<1>>, <<Always("bark_volume", Plain)>>, [bark_volume |-> 5])
  @@ "beagle" :> Class(<<"hound">>, <<3>>, <<1>>, <<Always("spot_count", Plain)>>, [spot_count |-> 12])
  @@ "stallion" :> Class(<<"creature">>, <<4>>, <<1>>, <<Always("gallop_speed", Plain)>>, [gallop_speed |-> 30])

TestPackages ==
  "package" :> Class(<<>>, <<10>>, <<2>>,
                     <<Always("name", Plain), Until("weight", Plain, 1), Since("tag", Plain, 2)>>,
                     [name |-> "", weight |-> 0, tag |-> ""])
  @@ "package_with_containers" :> Class(<<>>, <<100>>, <<1>>,
                     <<Always("tags", <<"sequence", Plain>>), Always("sequence", <<"sequence", Plain>>),
                       Always("labels", <<"set", Plain>>), Always("counts", <<"map", Plain, Plain>>)>>,
                     [tags |-> <<>>, sequence |-> <<>>, labels |-> {}, counts |-> <<>>])

\* Beside these a class without an id, one with the id of its base and one without a default constructor.
TestIds ==
  "unidentified" :> Class(<<"creature">>, <<>>, <<>>, <<Since("wings", Plain, 1)>>, [wings |-> 2])
  @@ "twin" :> Class(<<"creature">>, <<1>>, <<2>>, <<Always("self", Plain)>>, [self |-> 0])
  @@ "statue" :> [Class(<<"creature">>, <<5>>, <<1>>, <<Always("height", Plain)>>, [height |-> 0]) EXCEPT !.is_constructible = FALSE]

Versioned == TestCreatures @@ TestPackages @@ TestIds
Binary == INSTANCE BinaryObjects
            WITH Classes <- DOMAIN Versioned, Described <- Versioned, Registry <- <<<<1, "request">>, <<2, "response">>>>
Texts == INSTANCE Text
Enums == INSTANCE NamedEnum
           WITH Width <- 8,
                Lower <- "Medium" :> "medium" @@ "Read" :> "read" @@ "Write" :> "write" @@ "ALL" :> "all"

-----------------------------------------------------------------------------
\* An object with some members changed, its bytes, and what is read of bytes to the end.
Make(class, changes) == [class |-> class, fields |-> changes @@ Binary!instantiate(class).fields]
Whole(object) == <<[value |-> object, rest |-> <<>>]>>
FromBytes(class, bytes) == Binary!deserialize(bytes, Binary!instantiate(class))
RoundTrips(object) == FromBytes(object.class, Binary!serialize(object)) = Whole(object)
PointerTrips(base, pointer) ==
  LET read == Binary!pointer_deserialize(base, Binary!pointer_serialize(pointer)) IN read # <<>> /\ read = Whole(pointer)
ContainerTrips(kind, value) == Binary!deserialize_value(kind, Binary!serialize_value(kind, value)) = Whole(value)

TestDescriptorRegistration ==
  /\ \A pair \in {<<"creature", 1>>, <<"hound", 2>>, <<"beagle", 3>>, <<"stallion", 4>>} : Binary!id(pair[1]) = pair[2]
  /\ Binary!version("creature") = 1
  /\ {"hound", "beagle", "stallion"} \subseteq Binary!derived_descriptors("creature")
  /\ Binary!derived_descriptors("hound") = {"beagle"}
  /\ Len(Binary!properties("beagle")) = 5
TestRoundTripDirect ==
  <<Make("creature", [name |-> "Felix", age |-> 7, is_friendly |-> FALSE]),
    Make("hound", [name |-> "Rex", age |-> 3, bark_volume |-> 8]),
    Make("beagle", [name |-> "Snoopy", bark_volume |-> 6, spot_count |-> 9])>>
TestContainerInsideDescribedObject ==
  <<Make("package_with_containers",
      [tags |-> <<"alpha", "beta">>, sequence |-> <<7, 8, 9>>, labels |-> {"x", "y"}, counts |-> [a |-> 1, b |-> 2]])>>
TestPolymorphicSerializeIncludesTypeId ==
  Binary!pointer_serialize(<<Make("hound", [name |-> "Rex", bark_volume |-> 9])>>)[1] = Binary!id("hound")

\* Of pointers: the class they are read through, the pointer, and whether it is read at all.
TestPolymorphicRoundTrip ==
  <<<<"creature", <<Make("hound", [name |-> "Rex", age |-> 4, bark_volume |-> 7])>>, TRUE>>,
    <<"creature", <<Make("beagle", [name |-> "Snoopy", spot_count |-> 11])>>, TRUE>>,
    <<"hound", <<Make("beagle", [name |-> "Snoopy", spot_count |-> 14])>>, TRUE>>>>
TestPolymorphicRejectsCousinType == <<<<"hound", <<Make("stallion", [name |-> "Bucephalus"])>>, FALSE>>>>
TestPolymorphicNullRoundTrip == <<<<"creature", <<>>, TRUE>>>>
TestVersionedSerializeOmitsRetiredProperty ==
  FromBytes("package", Binary!serialize(Make("package", [name |-> "Box", weight |-> 999, tag |-> "fragile"])))
    = Whole(Make("package", [name |-> "Box", tag |-> "fragile"]))
TestVersionedReadsLegacyPayload ==
  FromBytes("package", <<1, "LegacyBox", 42>>) = Whole(Make("package", [name |-> "LegacyBox", weight |-> 42]))

\* Of containers: their kind and value.
TestSequences ==
  <<<<<<"sequence", Plain>>, <<"alpha", "beta", "gamma">>>>, <<<<"sequence", Plain>>, <<>>>>,
    <<<<"sequence", Plain>>, <<1, 2, 3, 4, 5>>>>, <<<<"sequence", <<"sequence", Plain>>>>, <<<<1, 2, 3>>, <<>>, <<7, 8>>>>>>>>
TestSets == <<<<<<"set", Plain>>, {"apple", "banana", "cherry"}>>, <<<<"set", Plain>>, {10, 20, 30, 40}>>>>
TestMaps ==
  <<<<<<"map", Plain, Plain>>, [one |-> 1, two |-> 2, three |-> 3]>>, <<<<"map", Plain, Plain>>, <<"one", "two", "three">>>>,
    <<<<"map", Plain, Plain>>, <<>>>>>>
TestMapWithVectorValues ==
  <<<<<<"map", Plain, <<"sequence", Plain>>>>, [primes |-> <<2, 3, 5, 7>>, empty |-> <<>>, single |-> <<42>>]>>>>

-----------------------------------------------------------------------------
\* The enumerations of TextTest.cpp.
Entry(name, operands) == [name |-> name, operands |-> operands]
Is(n) == <<<<"number", n>>>>
TestEnums ==
  [traffic_light |-> Enums!parse_definition(<<Entry("red", <<>>), Entry("amber", <<>>), Entry("green", <<>>)>>, FALSE)[1],
   signal_level |-> Enums!parse_definition(
     <<Entry("low", Is(2)), Entry("medium", <<>>), Entry("high", Is(16)), Entry("maximum", <<<<"~", <<"number", 0>>>>>>)>>, FALSE)[1],
   access_rights |-> Enums!parse_definition(
     <<Entry("none", Is(0)), Entry("read", Is(1)), Entry("write", Is(2)), Entry("execute", Is(4)),
       Entry("read_write", <<<<"name", "read">>, <<"name", "write">>>>), Entry("all", <<<<"~", <<"number", 0>>>>>>)>>, TRUE)[1]]
Name(name) == <<"name", name>>

\* Of each enumeration, numbers and their text, and texts with the numbers they are read as, if any.
TestNamedEnumFormatting == {<<"traffic_light", 1, <<Name("amber")>>>>, <<"traffic_light", 7, <<<<"number", 7>>>>>>}
TestNamedEnumExplicitValues ==
  [formats |-> {<<"signal_level", pair[1], <<Name(pair[2])>>>> :
                  pair \in {<<2, "low">>, <<3, "medium">>, <<16, "high">>, <<-1, "maximum">>}},
   parses |-> {<<"signal_level", <<Name("Medium")>>, <<3>>>>, <<"signal_level", <<Name("high")>>, <<16>>>>,
               <<"signal_level", <<<<"number", 16>>>>, <<16>>>>}]
TestNamedFlagsFormatting ==
  {<<"access_rights", 0, <<Name("none")>>>>, <<"access_rights", 3, <<Name("read_write")>>>>, <<"access_rights", -1, <<Name("all")>>>>,
   <<"access_rights", 5, <<Name("read"), Name("execute")>>>>, <<"access_rights", 9, <<<<"number", 9>>>>>>}
TestNamedFlagsParsing ==
  {<<"access_rights", <<Name("write")>>, <<2>>>>, <<"access_rights", <<Name("Read"), Name("Write")>>, <<3>>>>,
   <<"access_rights", <<Name("read"), Name("execute")>>, <<5>>>>, <<"access_rights", <<Name("read"), <<"number", 4>>>>, <<5>>>>,
   <<"access_rights", <<Name("read"), Name("unknown")>>, <<>>>>}
TestTryParseTellsInvalidTextApartFromAllBits ==
  {<<"access_rights", <<Name("all")>>, <<-1>>>>, <<"access_rights", <<Name("ALL")>>, <<-1>>>>,
   <<"access_rights", <<<<"", "">>>>, <<>>>>, <<"access_rights", <<Name("bogus")>>, <<>>>>}
EnumsPass ==
  LET formats == TestNamedEnumFormatting \cup TestNamedEnumExplicitValues.formats \cup TestNamedFlagsFormatting
      parses == TestNamedEnumExplicitValues.parses \cup TestNamedFlagsParsing \cup TestTryParseTellsInvalidTextApartFromAllBits
  IN /\ \A test \in formats : Enums!to_string(TestEnums[test[1]], Enums!ToBits(test[2])) = test[3]
     /\ \A test \in parses : Enums!try_parse(TestEnums[test[1]], test[2]) = [i \in DOMAIN test[3] |-> Enums!ToBits(test[3][i])]
     /\ Len(TestEnums.signal_level.items) = 4

\* Uuids, trimming and base64, "foobar" and its beginnings by their digits, padding being -1.
TestUuids ==
  LET text == <<0, 1, 2, 3, 4, 5, 6, 7, -1, 8, 9, 10, 11, -1, 12, 13, 14, 15, -1, 0, 1, 2, 3, -1, 4, 5, 6, 7, 8, 9, 10, 11, 12, 13, 14, 15>>
      id == Texts!uuid_from_string(text)
  IN /\ id # <<>> /\ Texts!uuid_to_string(id[1]) = text
     /\ Texts!uuid_from_string([text EXCEPT ![36] = 14]) # id
TestTrim ==
  /\ Texts!trim(<<" ", " ", "a", " ", "b", " ", " ">>) = <<"a", " ", "b">>
  /\ \A text \in {<<" ", " ", " ">>, <<>>} : Texts!trim(text) = <<>>
Foobar == <<102, 111, 111, 98, 97, 114>>
Encoded == <<<<25, 32, -1, -1>>, <<25, 38, 60, -1>>, <<25, 38, 61, 47>>, <<25, 38, 61, 47, 24, 32, -1, -1>>,
             <<25, 38, 61, 47, 24, 38, 4, -1>>, <<25, 38, 61, 47, 24, 38, 5, 50>>>>
TestBase64RfcVectors ==
  /\ Texts!encode_base64(<<>>) = <<>> /\ Texts!try_decode_base64(<<>>) = <<<<>>>>
  /\ \A n \in 1..6 : LET bytes == SubSeq(Foobar, 1, n)
                     IN Texts!encode_base64(bytes) = Encoded[n] /\ Texts!try_decode_base64(Encoded[n]) = <<bytes>>
TestBase64RoundTripAllByteValues ==
  LET data == [i \in 1..256 |-> i - 1] IN Texts!try_decode_base64(Texts!encode_base64(data)) = <<data>>
TestBase64RejectsMalformedInput ==
  \A text \in {Encoded[3] \o <<-2>>, Encoded[1] \o Encoded[1], <<25, 33, -1, -1>>} : Texts!try_decode_base64(text) = <<>>

(* The tests of BinaryTest.cpp and TextTest.cpp hold of the modules, so what   *)
(* the modules say of streams, enumerations and text is what the tests expect  *)
(* of the code.                                                                *)
BinaryTestsPass ==
  LET objects == TestRoundTripDirect \o TestContainerInsideDescribedObject
      pointers == TestPolymorphicRoundTrip \o TestPolymorphicRejectsCousinType \o TestPolymorphicNullRoundTrip
      containers == TestSequences \o TestSets \o TestMaps \o TestMapWithVectorValues
  IN /\ \A i \in DOMAIN objects : RoundTrips(objects[i])
     /\ \A i \in DOMAIN pointers : PointerTrips(pointers[i][1], pointers[i][2]) <=> pointers[i][3]
     /\ \A i \in DOMAIN containers : ContainerTrips(containers[i][1], containers[i][2])
     /\ TestDescriptorRegistration /\ TestPolymorphicSerializeIncludesTypeId
     /\ TestVersionedSerializeOmitsRetiredProperty /\ TestVersionedReadsLegacyPayload
TextTestsPass ==
  /\ EnumsPass /\ TestUuids /\ TestTrim
  /\ TestBase64RfcVectors /\ TestBase64RoundTripAllByteValues /\ TestBase64RejectsMalformedInput
=============================================================================
