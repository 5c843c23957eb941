----------------------------- MODULE NamedEnum -----------------------------
(***************************************************************************)
(* Infrastructure/NamedEnum.h: the names of an enumeration, taken from its *)
(* declaration, and its values to text and back.                           *)
(*                                                                         *)
(* A value is the set of its bits. Text is the sequence of its parts       *)
(* between "|", trimmed: a name, a number or "" are a part.                *)
(***************************************************************************)
EXTENDS Integers, SequencesExt, FiniteSetsExt

CONSTANTS Width,        \* bits of the underlying type, which is signed
          Lower         \* of names that are not in lower case, the name in lower case

Absent == <<>>
Bits == 0..(Width - 1)
Nothing == {}
to_lower(name) == IF name \in DOMAIN Lower THEN Lower[name] ELSE name

Bit(n, b) == (n \div (2 ^ b)) % 2 = 1
ToBits(n) == {b \in Bits : Bit(n % (2 ^ Width), b)}
Unsigned(value) == MapThenSumSet(LAMBDA b : 2 ^ b, value)
\* Mutant of the next: a number is written as if it were unsigned.
NumberUnsigned(value) == Unsigned(value)
Number(value) == Unsigned(value) - IF Width - 1 \in value THEN 2 ^ Width ELSE 0

-----------------------------------------------------------------------------
\* The value of the first of some items.
FirstValue(items) == IF items = <<>> THEN Absent ELSE <<items[1].value>>

\* Operands are <<"number", n>>, <<"name", n>>, <<"~", operand>> and <<"-", operand>>. A name that is none of the
\* items before it throws.
RECURSIVE evaluate_value_definition_operand(_, _)
evaluate_value_definition_operand(items, operand) ==
  LET inner == evaluate_value_definition_operand(items, operand[2])
  IN CASE operand[1] = "number" -> <<ToBits(operand[2])>>
       [] operand[1] = "name" -> FirstValue(SelectSeq(items, LAMBDA item : item.name = operand[2]))
       [] operand[1] = "~" -> [i \in DOMAIN inner |-> Bits \ inner[i]]
       [] operand[1] = "-" -> [i \in DOMAIN inner |-> ToBits(2 ^ Width - Unsigned(inner[i]))]

evaluate_value_definition(items, operands) ==
  LET values == [i \in DOMAIN operands |-> evaluate_value_definition_operand(items, operands[i])]
  IN IF Absent \in Range(values) THEN Absent ELSE <<UNION {values[i][1] : i \in DOMAIN values}>>

\* A declaration is entries of a name and operands, <<>> when the entry has no value of its own.
parse_definition(declaration, is_flags) ==
  LET step(state, entry) ==
        LET value == IF entry.operands = <<>> THEN <<state[1].next>>
                     ELSE evaluate_value_definition(state[1].items, entry.operands)
        IN IF state = Absent \/ value = Absent THEN Absent
           ELSE <<[items |-> Append(state[1].items, [name |-> entry.name, key |-> to_lower(entry.name), value |-> value[1]]),
                   next |-> ToBits(Unsigned(value[1]) + 1), is_flags |-> is_flags]>>
  IN FoldLeft(step, <<[items |-> <<>>, next |-> Nothing, is_flags |-> is_flags]>>, declaration)

-----------------------------------------------------------------------------
\* The name of a value, or of flags the names of its single bits, or its number.
JoinFlag(state, item) ==
  IF Cardinality(item.value) # 1 \/ item.value \cap state.remaining = {} THEN state
  ELSE [text |-> Append(state.text, <<"name", item.name>>), remaining |-> state.remaining \ item.value]
TextOf(value, named, joined) ==
  CASE named # <<>> -> <<<<"name", named[1].name>>>>
    [] named = <<>> /\ joined.remaining = {} /\ joined.text # <<>> -> joined.text
    [] OTHER -> <<<<"number", Number(value)>>>>
to_string(definition, value) ==
  TextOf(value, SelectSeq(definition.items, LAMBDA item : item.value = value),
         FoldLeft(JoinFlag, [text |-> <<>>, remaining |-> value], IF definition.is_flags THEN definition.items ELSE <<>>))

\* A number begins with a digit, so a negative one is taken for a name.
ParsePart(definition, part) ==
  CASE part[1] = "" -> Absent
    [] part[1] = "number" -> IF part[2] \in 0..(2 ^ (Width - 1) - 1) THEN <<ToBits(part[2])>> ELSE Absent
    [] part[1] = "name" -> FirstValue(SelectSeq(definition.items, LAMBDA item : item.key = to_lower(part[2])))

Combined(values, is_flags) ==
  CASE Len(values) = 1 -> values[1]
    [] Len(values) > 1 /\ is_flags /\ Absent \notin Range(values) -> <<UNION {values[i][1] : i \in DOMAIN values}>>
    [] OTHER -> Absent
try_parse(definition, text) == Combined([i \in DOMAIN text |-> ParsePart(definition, text[i])], definition.is_flags)

-----------------------------------------------------------------------------
KeysDiffer(definition) == IsInjective([i \in DOMAIN definition.items |-> definition.items[i].key])

(* Every value of an enumeration, named, unnamed or a combination of flags, is  *)
(* parsed from the text it is written as, negative numbers without a name      *)
(* excepted. Names that differ by case only would be taken for one another.    *)
ValuesReadBack(definition, value) ==
  LET text == to_string(definition, value)
  IN KeysDiffer(definition) /\ (text[1][1] = "number" => text[1][2] >= 0) => try_parse(definition, text) = <<value>>

(* Items are read from the declaration with the values C++ gives them: a value *)
(* is its operands combined, and otherwise one more than the one before.       *)
FollowsPrevious(declaration, definition) ==
  \A i \in DOMAIN declaration : declaration[i].operands = <<>> =>
    Number(definition.items[i].value) = IF i = 1 THEN 0 ELSE
      LET n == Number(definition.items[i - 1].value) + 1 IN IF n = 2 ^ (Width - 1) THEN -n ELSE n

(* "A name (case-insensitive), a number, or for flags a | combination", as      *)
(* NamedEnum.h says of what is parsed: what the enumeration is written as is   *)
(* one of these.                                                               *)
NumbersAreParsed(definition, value) == KeysDiffer(definition) => try_parse(definition, to_string(definition, value)) # Absent
=============================================================================
