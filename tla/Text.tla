-------------------------------- MODULE Text --------------------------------
(***************************************************************************)
(* Infrastructure/Text.cpp and Uuid.cpp: text that is taken apart, base64  *)
(* and uuids. Text is a sequence of characters; a digit of base64 or of a  *)
(* uuid is its value, whatever letter stands for it; "=" and "-" are -1.   *)
(***************************************************************************)
EXTENDS Integers, SequencesExt

Absent == <<>>

-----------------------------------------------------------------------------
\* The parts between delimiters; nothing after the last delimiter is no part.
split(text, delimiter) ==
  LET step(state, c) == IF c = delimiter THEN [parts |-> Append(state.parts, state.part), part |-> <<>>]
                        ELSE [state EXCEPT !.part = Append(@, c)]
      end == FoldLeft(step, [parts |-> <<>>, part |-> <<>>], text)
  IN IF end.part = <<>> THEN end.parts ELSE Append(end.parts, end.part)

Space == " "
trim(text) ==
  LET first == SelectInSeq(text, LAMBDA c : c # Space)
      last == SelectLastInSeq(text, LAMBDA c : c # Space)
  IN IF first = 0 THEN <<>> ELSE SubSeq(text, first, last)

-----------------------------------------------------------------------------
Padding == -1

\* Three bytes are four digits; of one or two bytes left the missing digits are padding.
Group(digits, n) == SubSeq(digits, 1, n) \o [i \in 1..(4 - n) |-> Padding]
Digits(a, b, c) == <<a \div 4, (a % 4) * 16 + b \div 16, (b % 16) * 4 + c \div 64, c % 64>>
encode_base64(data) ==
  LET byte(i) == IF i <= Len(data) THEN data[i] ELSE 0
      group(k) == Group(Digits(byte(3 * k - 2), byte(3 * k - 1), byte(3 * k)),
                        IF 3 * k <= Len(data) THEN 4 ELSE 4 - (3 * k - Len(data)))
  IN FlattenSeq([k \in 1..((Len(data) + 2) \div 3) |-> group(k)])

\* Bits are collected until there are eight; group holds those not written yet.
DecodeDigit(state, digit) ==
  LET group == state.group * 64 + digit
      left == state.bits - 2
  IN IF state.bits + 6 < 8 THEN [state EXCEPT !.group = group, !.bits = @ + 6]
     ELSE [state EXCEPT !.group = group % (2 ^ left), !.bits = left, !.result = Append(@, group \div (2 ^ left))]

try_decode_base64(text) ==
  LET step(state, c) ==
        CASE ~state.ok -> state
          [] state.ok /\ c = Padding -> [state EXCEPT !.padding = TRUE]
          [] state.ok /\ c # Padding -> IF state.padding \/ c \notin 0..63 THEN [state EXCEPT !.ok = FALSE]
                                        ELSE DecodeDigit(state, c)
      end == FoldLeft(step, [ok |-> TRUE, padding |-> FALSE, group |-> 0, bits |-> 0, result |-> <<>>], text)
  IN IF ~end.ok \/ end.group # 0 THEN Absent ELSE <<end.result>>

-----------------------------------------------------------------------------
\* Where each byte of a uuid's text is kept: the first three fields are numbers, least byte first.
Mapping == <<4, 3, 2, 1, 6, 5, 8, 7, 9, 10, 11, 12, 13, 14, 15, 16>>
Dash == -1
Dashes == {9, 14, 19, 24}

uuid_from_string(text) ==
  LET digits == SelectSeq([i \in DOMAIN text |-> <<i, text[i]>>], LAMBDA c : c[1] \notin Dashes)
  IN IF \/ Len(text) # 36
        \/ \E i \in Dashes : text[i] # Dash
        \/ \E i \in DOMAIN digits : digits[i][2] \notin 0..15
     THEN Absent
     ELSE <<[b \in 1..16 |-> LET k == SelectInSeq(Mapping, LAMBDA m : m = b)
                             IN digits[2 * k - 1][2] * 16 + digits[2 * k][2]]>>

uuid_to_string(bytes) ==
  LET digits == FlattenSeq([k \in 1..16 |-> <<bytes[Mapping[k]] \div 16, bytes[Mapping[k]] % 16>>])
      part(from, to) == SubSeq(digits, from, to)
  IN part(1, 8) \o <<Dash>> \o part(9, 12) \o <<Dash>> \o part(13, 16) \o <<Dash>> \o part(17, 20) \o <<Dash>> \o part(21, 32)

-----------------------------------------------------------------------------
(* Names that are written with a delimiter and spaces between them are the     *)
(* trimmed parts of what was written, empty ones included.                     *)
PartsReadBack(parts, delimiter) ==
  LET separator == <<Space, delimiter, Space>>
      text == FlattenSeq([i \in DOMAIN parts |-> (IF i = 1 THEN <<>> ELSE separator) \o parts[i]])
      read == split(text, delimiter)
  IN parts # <<<<>>>> /\ (\A i \in DOMAIN parts : trim(parts[i]) = parts[i] /\ ~Contains(parts[i], delimiter)) =>
       [i \in DOMAIN read |-> trim(read[i])] = parts

(* Bytes survive base64, in text of whole groups of four.                      *)
Base64ReadsBack(data) == try_decode_base64(encode_base64(data)) = <<data>> /\ Len(encode_base64(data)) % 4 = 0

(* Text that is accepted is the base64 of the bytes it gives, the padding and a *)
(* digit of six zero bits too many at the end left aside: no two other texts    *)
(* stand for the same bytes.                                                   *)
WithoutPadding(text) == SelectSeq(text, LAMBDA c : c # Padding)
Base64IsCanonical(text) ==
  \A data \in Range(try_decode_base64(text)) :
    LET digits == WithoutPadding(text)
    IN WithoutPadding(encode_base64(data)) = IF Len(digits) % 4 = 1 THEN Front(digits) ELSE digits

(* "Returns false on malformed input", as Text.h says of the decoder: standard  *)
(* base64 is padded to groups of four digits.                                  *)
MalformedRefused(text) == try_decode_base64(text) # Absent => Len(text) % 4 = 0

(* A uuid and its text are one and the same.                                   *)
UuidReadsBack(bytes) == uuid_from_string(uuid_to_string(bytes)) = <<bytes>>
UuidTextKept(text) == \A bytes \in Range(uuid_from_string(text)) : uuid_to_string(bytes) = text
=============================================================================
