------------------------------ MODULE JsonText ------------------------------
(***************************************************************************)
(* The JSON document model as text: json_value::to_string and              *)
(* json_value::from_string with the types they dispatch to.                *)
(*                                                                         *)
(* Text is a sequence of tokens; a string and a number are a token each. A *)
(* value is its type and its content; a number's content is the double it  *)
(* is, which is named by its shortest digits and differs from the text it  *)
(* is written as. An empty pointer, which items may be, is <<"empty">>. A  *)
(* result that may be absent is the empty sequence or a sequence of that   *)
(* one result.                                                             *)
(*                                                                         *)
(* The second part is Json/JsonString.cpp: how strings are escaped in such *)
(* text, found in it and read back. There text is a sequence of bytes.     *)
(***************************************************************************)
EXTENDS Integers, SequencesExt

CONSTANTS Doubles,      \* of each token that is read as a number, the double from_chars makes of it
          Rounded,      \* of doubles of more than 15 digits, the token of their first 15, rounded
          NonFinite,    \* doubles that are infinite or no number
          Strings       \* tokens of quoted strings

Absent == <<>>
Empty == <<"empty">>

-----------------------------------------------------------------------------
\* json_stream: indentation is written when the first token of a line is.
NewStream(isIndented) == [text |-> <<>>, indentation |-> 0, isLineStart |-> FALSE, isIndented |-> isIndented]

write(stream, tokens) ==
  [stream EXCEPT !.isLineStart = FALSE,
                 !.text = @ \o (IF stream.isLineStart THEN [i \in 1..stream.indentation |-> " "] ELSE <<>>) \o tokens]

write_line(stream, tokens) ==
  LET written == write(stream, tokens)
  IN IF ~stream.isIndented THEN written
     ELSE [written EXCEPT !.text = Append(@, "\n"), !.isLineStart = TRUE]

push_indentation(stream) == [stream EXCEPT !.indentation = @ + 1]
pop_indentation(stream) == [stream EXCEPT !.indentation = IF @ > 0 THEN @ - 1 ELSE @]

\* Items, each with the tokens before it, between brackets; WriteItem writes one.
WriteItems(stream, open, items, close, WriteItem(_, _)) ==
  LET separated(s, i) == WriteItem(IF i = 1 THEN s ELSE write_line(s, <<",">>), items[i])
      filled == FoldLeft(separated, push_indentation(write_line(stream, <<open>>)), [i \in DOMAIN items |-> i])
  IN IF items = <<>> THEN write(stream, <<open, close>>)
     ELSE write(write_line(pop_indentation(filled), <<>>), <<close>>)

\* setprecision(digits10): a finite double is written with 15 digits.
NumberText(n) == CASE n \in NonFinite -> "null"
                   [] n \in DOMAIN Rounded -> Rounded[n]
                   [] OTHER -> n

RECURSIVE to_string(_, _)
to_string(stream, value) ==
  LET item(s, v) == to_string(s, v)
      Colon == IF stream.isIndented THEN <<":", " ">> ELSE <<":">>
      property(s, key) == to_string(write(write(s, <<key>>), Colon), value[2][key])
  IN CASE value[1] \in {"null", "empty"} -> write(stream, <<"null">>)
       [] value[1] \in {"boolean", "string"} -> write(stream, <<value[2]>>)
       [] value[1] = "number" -> write(stream, <<NumberText(value[2])>>)
       [] value[1] = "array" -> WriteItems(stream, "[", value[2], "]", item)
       [] value[1] = "object" -> WriteItems(stream, "{", SetToSeq(DOMAIN value[2]), "}", property)

stringify(value, isIndented) == to_string(NewStream(isIndented), value).text

-----------------------------------------------------------------------------
\* What follows the first occurrence of a token, nothing when it does not occur.
After(text, token) ==
  LET i == SelectInSeq(text, LAMBDA t : t = token) IN IF i = 0 THEN <<>> ELSE SubSeq(text, i + 1, Len(text))

RECURSIVE json_skip_whitespace(_)
json_skip_whitespace(text) ==
  CASE text # <<>> /\ Head(text) \in {" ", "\n"} -> json_skip_whitespace(Tail(text))
    [] text # <<>> /\ Head(text) = "//" -> json_skip_whitespace(After(text, "\n"))
    [] text # <<>> /\ Head(text) = "/*" -> json_skip_whitespace(After(text, "*/"))
    [] OTHER -> text

\* A comma after an item is skipped when there is one: it may be missing, or be the last.
SkipComma(text) ==
  LET rest == json_skip_whitespace(text) IN IF rest # <<>> /\ Head(rest) = "," THEN Tail(rest) ELSE rest

\* The value at the start of a text and the text after it.
Read(type, content, rest) == <<[value |-> <<type, content>>, rest |-> rest]>>

RECURSIVE from_string(_), ArrayFrom(_, _), ObjectFrom(_, _)
from_string(text) ==
  LET start == json_skip_whitespace(text)
  IN IF start = <<>> THEN Absent
     ELSE CASE Head(start) = "null" -> <<[value |-> <<"null">>, rest |-> Tail(start)]>>
            [] Head(start) \in {"true", "false"} -> Read("boolean", Head(start), Tail(start))
            [] Head(start) \in Strings -> Read("string", Head(start), Tail(start))
            [] Head(start) = "[" -> ArrayFrom(Tail(start), <<>>)
            [] Head(start) = "{" -> ObjectFrom(Tail(start), <<>>)
            [] Head(start) \in DOMAIN Doubles -> Read("number", Doubles[Head(start)], Tail(start))
            [] OTHER -> Absent

ItemAdded(items, item) == IF item = Absent THEN Absent ELSE ArrayFrom(SkipComma(item[1].rest), Append(items, item[1].value))
ArrayFrom(text, items) ==
  LET start == json_skip_whitespace(text)
  IN CASE start = <<>> -> Absent
       [] start # <<>> /\ Head(start) = "]" -> Read("array", items, Tail(start))
       [] OTHER -> ItemAdded(items, from_string(start))

\* Of two properties with one name the later is kept.
PropertyAdded(items, name, value) ==
  IF value = Absent THEN Absent ELSE ObjectFrom(SkipComma(value[1].rest), (name :> value[1].value) @@ items)
ObjectFrom(text, items) ==
  LET start == json_skip_whitespace(text)
      colon == json_skip_whitespace(Tail(start))
  IN CASE start = <<>> -> Absent
       [] start # <<>> /\ Head(start) = "}" -> Read("object", items, Tail(start))
       [] OTHER -> IF Head(start) \notin Strings \/ colon = <<>> \/ Head(colon) # ":" THEN Absent
                   ELSE PropertyAdded(items, Head(start), from_string(Tail(colon)))

-----------------------------------------------------------------------------
\* is_default of each type of value; a missing value counts as default.
json_value_is_default(value) ==
  CASE value[1] \in {"null", "empty"} -> TRUE
    [] value[1] = "boolean" -> value[2] = "false"
    [] value[1] = "number" -> value[2] = "0"
    [] value[1] = "string" -> value[2] = "\"\""
    [] value[1] = "array" -> value[2] = <<>>
    [] value[1] = "object" -> DOMAIN value[2] = {}

-----------------------------------------------------------------------------
\* What a document keeps when it is written: an empty pointer and a number that is not finite become null, and
\* of a number 15 digits are kept.
RECURSIVE Written(_)
Written(value) ==
  CASE value[1] \in {"null", "empty"} -> <<"null">>
    [] value[1] = "number" -> IF value[2] \in NonFinite THEN <<"null">> ELSE <<"number", Doubles[NumberText(value[2])]>>
    [] value[1] \in {"array", "object"} -> <<value[1], [i \in DOMAIN value[2] |-> Written(value[2][i])]>>
    [] OTHER -> value

(* Every document that is written, in one line or indented, is read back as   *)
(* it was, up to the pointers and numbers JSON has no text for and the digits  *)
(* of a number behind the fifteenth; reading ends where the document ends, and *)
(* what was read is written as the same text: nothing more is lost.            *)
ReadsBack(value, rest) ==
  \A isIndented \in BOOLEAN :
    LET text == stringify(value, isIndented)
        read == from_string(text \o rest)
    IN read = <<[value |-> Written(value), rest |-> rest]>> /\ stringify(read[1].value, isIndented) = text

(* Space and comments between any two tokens change nothing of what is read.   *)
ValueOf(read) == [i \in DOMAIN read |-> read[i].value]
GapsAreFree(text, gap) ==
  \A i \in 0..Len(text) :
    ValueOf(from_string(SubSeq(text, 1, i) \o gap \o SubSeq(text, i + 1, Len(text)))) = ValueOf(from_string(text))

(* Whatever text is accepted, with commas missing or to spare, what was read   *)
(* is a document that is written and read back: the lenient reader accepts     *)
(* nothing the writer cannot state.                                            *)
AcceptedIsDocument(text) ==
  from_string(text) # Absent => ReadsBack(from_string(text)[1].value, <<"]">>)

-----------------------------------------------------------------------------
Quote == 34
Backslash == 92

\* The characters escaped by a letter: quote, backslash, \b \t \n \f \r.
EscapeLetter == 34 :> 34 @@ 92 :> 92 @@ 8 :> 98 @@ 9 :> 116 @@ 10 :> 110 @@ 12 :> 102 @@ 13 :> 114

HexDigit(d) == IF d < 10 THEN 48 + d ELSE 87 + d
write_unicode_escape(c) == <<Backslash, 117, 48, 48, HexDigit(c \div 16), HexDigit(c % 16)>>

\* A NUL ends the string, whatever follows it.
EscapedPart(value) == IF Contains(value, 0) THEN SubSeq(value, 1, SelectInSeq(value, LAMBDA c : c = 0) - 1) ELSE value

\* Mutant of the next: a backslash is written as it is.
EscapeByteBare(c) == IF c \in DOMAIN EscapeLetter \ {Backslash} THEN <<Backslash, EscapeLetter[c]>> ELSE <<c>>

EscapeByte(c) == CASE c \in DOMAIN EscapeLetter -> <<Backslash, EscapeLetter[c]>>
                   [] c \in 1..31 \ DOMAIN EscapeLetter -> write_unicode_escape(c)
                   [] OTHER -> <<c>>

json_escape_string(value) == FlattenSeq([i \in DOMAIN EscapedPart(value) |-> EscapeByte(value[i])])

json_string_to_string(value) == <<Quote>> \o json_escape_string(value) \o <<Quote>>

-----------------------------------------------------------------------------
write_utf8(c) ==
  CASE c < 128 -> <<c>>
    [] c \in 128..2047 -> <<192 + (c \div 64), 128 + (c % 64)>>
    [] c \in 2048..65535 -> <<224 + (c \div 4096), 128 + ((c \div 64) % 64), 128 + (c % 64)>>
    [] OTHER -> <<240 + (c \div 262144), 128 + ((c \div 4096) % 64), 128 + ((c \div 64) % 64), 128 + (c % 64)>>

HexValue(c) == CASE c \in 48..57 -> c - 48 [] c \in 65..70 -> c - 55 [] c \in 97..102 -> c - 87 [] OTHER -> -1

\* The number in the four hexadecimal digits from a position on, if they are there.
try_parse_code_unit(text, position) ==
  IF position + 3 > Len(text) \/ \E i \in position..(position + 3) : HexValue(text[i]) = -1 THEN Absent
  ELSE <<4096 * HexValue(text[position]) + 256 * HexValue(text[position + 1])
           + 16 * HexValue(text[position + 2]) + HexValue(text[position + 3])>>

HighSurrogates == 55296..56319
LowSurrogates == 56320..57343
Replacement == 65533

LowSurrogateAt(text, position) ==
  IF position >= Len(text) \/ SubSeq(text, position, position + 1) # <<Backslash, 117>> THEN Absent
  ELSE SelectSeq(try_parse_code_unit(text, position + 2), LAMBDA n : n \in LowSurrogates)

\* The code point of the escape whose "u" is at a position, and how many characters follow that "u".
read_unicode_escape(text, position) ==
  LET unit == try_parse_code_unit(text, position + 1)
      low == LowSurrogateAt(text, position + 5)
  IN IF unit = Absent THEN Absent
     ELSE CASE unit[1] \in HighSurrogates /\ low # Absent ->
                 <<[point |-> 65536 + (unit[1] - 55296) * 1024 + (low[1] - 56320), length |-> 10]>>
            [] unit[1] \in HighSurrogates /\ low = Absent -> <<[point |-> Replacement, length |-> 4]>>
            [] unit[1] \in LowSurrogates -> <<[point |-> Replacement, length |-> 4]>>
            [] OTHER -> <<[point |-> unit[1], length |-> 4]>>

UnescapedLetter == 48 :> 0 @@ 98 :> 8 @@ 102 :> 12 @@ 114 :> 13 @@ 110 :> 10 @@ 116 :> 9

\* One loop of the reader: what is written for the character at a position, and where it goes on.
UnescapeAt(text, position) ==
  IF text[position] # Backslash THEN <<[bytes |-> <<text[position]>>, next |-> position + 1]>>
  ELSE IF position = Len(text) THEN Absent
  ELSE LET c == text[position + 1]
           escape == read_unicode_escape(text, position + 1)
       IN CASE c \in DOMAIN UnescapedLetter -> <<[bytes |-> <<UnescapedLetter[c]>>, next |-> position + 2]>>
            [] c = 117 /\ escape = Absent -> Absent
            [] c = 117 /\ escape # Absent ->
                 <<[bytes |-> write_utf8(escape[1].point), next |-> position + 2 + escape[1].length]>>
            [] OTHER -> <<[bytes |-> <<c>>, next |-> position + 2]>>

RECURSIVE UnescapeFrom(_, _, _)
UnescapeFrom(text, position, result) ==
  IF position > Len(text) THEN <<result>>
  ELSE LET read == UnescapeAt(text, position)
       IN IF read = Absent THEN Absent ELSE UnescapeFrom(text, read[1].next, result \o read[1].bytes)

json_unescape_string(text) == UnescapeFrom(text, 1, <<>>)

RECURSIVE ClosingQuote(_, _)
ClosingQuote(text, position) ==
  CASE position > Len(text) -> 0
    [] position <= Len(text) /\ text[position] = Quote -> position
    [] position <= Len(text) /\ text[position] = Backslash -> ClosingQuote(text, position + 2)
    [] OTHER -> ClosingQuote(text, position + 1)

\* The string at the start of a text and the text after it.
json_string_from_string(text) ==
  IF text = <<>> \/ text[1] # Quote THEN Absent
  ELSE LET end == ClosingQuote(text, 2)
           value == json_unescape_string(SubSeq(text, 2, end - 1))
       IN IF end = 0 \/ value = Absent THEN Absent
          ELSE <<[value |-> value[1], rest |-> SubSeq(text, end + 1, Len(text))]>>

-----------------------------------------------------------------------------
(* Whatever characters a string holds, quotes and backslashes among them, and *)
(* whatever text follows, the reader finds the end of the string the writer    *)
(* wrote and the characters it was made of, up to the first NUL.               *)
EscapesReversed(value, rest) ==
  json_string_from_string(json_string_to_string(value) \o rest) = <<[value |-> EscapedPart(value), rest |-> rest]>>

(* "Reverses json_escape_string", as JsonString.h says: of every string.       *)
EscapesAllReversed(value) == json_unescape_string(json_escape_string(value)) = <<value>>

\* Bytes that follow the first byte of a character in UTF-8.
Following(lead) == CASE lead < 128 -> 0 [] lead \in 194..223 -> 1 [] lead \in 224..239 -> 2 [] OTHER -> 3

RECURSIVE IsUtf8(_)
IsUtf8(bytes) ==
  \/ bytes = <<>>
  \/ LET n == Following(Head(bytes))
     IN /\ Head(bytes) \notin 128..193 \cup 245..255
        /\ n < Len(bytes)
        /\ \A i \in 2..(n + 1) : bytes[i] \in 128..191
        /\ Head(bytes) = 224 => bytes[2] >= 160
        /\ Head(bytes) = 237 => bytes[2] < 160
        /\ Head(bytes) = 240 => bytes[2] >= 144
        /\ Head(bytes) = 244 => bytes[2] < 144
        /\ IsUtf8(SubSeq(bytes, n + 2, Len(bytes)))

(* Escapes never produce text that is not UTF-8: surrogates are combined or    *)
(* replaced, alone, reversed or cut off by the end of the text.                *)
EscapesMakeUtf8(text) == \A result \in Range(json_unescape_string(text)) : IsUtf8(result)
=============================================================================
