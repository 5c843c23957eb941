---------------------------- MODULE StreamCalls ----------------------------
(***************************************************************************)
(* A program that opens a stream and calls it, one call after another, the *)
(* end of the stream within its reach or behind it. A line is read buffer  *)
(* by buffer, each of them a step. Once a call has read memory that is not *)
(* the stream's, nothing is said of the program any more.                  *)
(***************************************************************************)
EXTENDS Streams

CONSTANTS Bytes,        \* what is written
          MaxLength     \* bound on what is written and sought; a call begins at most a line buffer behind it

VARIABLES
  stream,
  line,                 \* where a line that is being read begins, and what has been read of it
  last                  \* the last call, what was asked of it, the bytes it moved and how it ended
callVars == <<stream, line, last>>

ASSUME StreamsAssumption ==
  MaxLength \in Nat /\ LineBuffer \in Nat \ {0} /\ SizeWidth \in Nat /\ SizeWidth > MaxLength + LineBuffer

NoCall == [call |-> "none", asked |-> 0, bytes |-> <<>>, thrown |-> FALSE, undefined |-> FALSE]
NoLine == [from |-> -1, text |-> <<>>]

Contents == BoundedSeq(Bytes, MaxLength)

Init ==
  /\ stream \in {NewMemory} \cup {NewArray(bytes, isReadOnly) : bytes \in Contents, isReadOnly \in BOOLEAN}
                  \cup {NewFile(bytes, modes) : bytes \in Contents, modes \in {{"read"}, {"write"}}}
  /\ line = NoLine /\ last = NoCall

\* A call is made once the last one is over, so what it returned is all there is to know of it.
MayCall == line = NoLine /\ ~last.undefined /\ stream.position <= MaxLength + LineBuffer
Over(call, asked, outcome) ==
  /\ stream' = outcome.stream
  /\ last' = [call |-> call, asked |-> asked, bytes |-> outcome.bytes, thrown |-> outcome.thrown,
              undefined |-> outcome.undefined]
  /\ line' = NoLine
Call(call, asked, outcome) == MayCall /\ Over(call, asked, outcome)

Write == \E bytes \in BoundedSeq(Bytes, 2) :
           stream.position + Len(bytes) <= MaxLength /\ Call("write", Len(bytes), write(stream, bytes))
Read == \E size \in 1..2 : Call("read", size, read(stream, size, FALSE))
ReadPartial == \E size \in 1..2 : Call("read_partial", size, read(stream, size, TRUE))
Seek == \E position \in 0..MaxLength : Call("seek", position, seek(stream, position))
ReadToEnd == Call("read_to_end", length(stream), read_to_end(stream))
Reset == stream.type = "memory" /\ Call("reset", 0, reset(stream))

\* read_line: buffer by buffer up to a new line, then back to the byte after it. The code looks for the new line one
\* byte too far, at what earlier buffers have left, which had none, or the zero behind the buffer.
EndOfLine(bytes) == SelectInSeq(bytes, LAMBDA b : b = NewLine)
BeginLine ==
  MayCall /\ line' = [from |-> stream.position, text |-> <<>>] /\ last' = NoCall /\ UNCHANGED stream
LineOver(outcome) == Over("read_line", LineBuffer, outcome)
ContinueLine ==
  LET chunk == read(stream, LineBuffer, TRUE)
      end == EndOfLine(chunk.bytes)
      back == seek(chunk.stream, chunk.stream.position - Len(chunk.bytes) + end)
  IN /\ line # NoLine
     /\ \/ (chunk.thrown \/ chunk.undefined) /\ LineOver(chunk)
        \/ ~chunk.thrown /\ ~chunk.undefined /\ chunk.bytes = <<>> /\ LineOver(Returned(chunk.stream, line.text))
        \/ /\ ~chunk.thrown /\ ~chunk.undefined /\ chunk.bytes # <<>> /\ end = 0
           /\ stream' = chunk.stream /\ line' = [line EXCEPT !.text = @ \o chunk.bytes] /\ UNCHANGED last
        \/ /\ ~chunk.thrown /\ ~chunk.undefined /\ end # 0
           /\ LineOver([back EXCEPT !.bytes = IF back.thrown THEN @ ELSE line.text \o SubSeq(chunk.bytes, 1, end - 1)])

Next == Write \/ Read \/ ReadPartial \/ Seek \/ BeginLine \/ ContinueLine \/ ReadToEnd \/ Reset

Spec == Init /\ [][Next]_callVars

-----------------------------------------------------------------------------
TypeOK ==
  /\ stream.type \in {"memory", "array", "file"} /\ stream.modes \subseteq {"read", "write"}
  /\ stream.buffer \in BoundedSeq(Bytes \cup {Garbage}, MaxLength) /\ stream.position \in Nat
  /\ line.from \in Int /\ last.thrown \in BOOLEAN /\ last.undefined \in BOOLEAN

\* The bytes up to the first new line.
Line(bytes) == IF EndOfLine(bytes) = 0 THEN bytes ELSE SubSeq(bytes, 1, EndOfLine(bytes) - 1)

\* Whether so many bytes from the position on end behind the stream, and how many do not.
PastEnd(s, size) == s.position + size > length(s)
Left(s) == IF PastEnd(s, 0) THEN 0 ELSE length(s) - s.position

\* The calls that throw. read_to_end() asks for as many bytes as the whole stream holds, so it throws wherever the
\* stream is not at its beginning; seek() throws where the stream is behind its end, not where it is sent there.
ReadCalls == {"read", "read_partial", "read_to_end"}
Throws(s, call, asked) ==
  \/ call = "write" /\ ("write" \notin s.modes \/ (s.type = "array" /\ PastEnd(s, asked)))
  \/ call \in ReadCalls /\ "read" \notin s.modes
  \/ call \in {"read", "read_to_end"} /\ PastEnd(s, asked) /\ (s.type # "file" \/ asked > 0)
  \/ call = "seek" /\ s.type # "file" /\ PastEnd(s, 0)

\* The partial reads that read memory behind the stream: of memory all that reach the end, of an array those behind it.
Overruns(s, call, asked) ==
  /\ call = "read_partial" /\ asked > 0
  /\ (s.type = "memory" /\ PastEnd(s, asked)) \/ (s.type = "array" /\ PastEnd(s, 0))

\* What a call that neither throws nor overruns makes of the stream s: t, and the bytes it moved.
ReadsOn(s, t, done) ==
  LET count == IF done.call = "read_partial" THEN Min2(done.asked, Left(s)) ELSE done.asked
  IN /\ done.bytes = SubSeq(s.buffer, s.position + 1, s.position + count)
     /\ t = [s EXCEPT !.position = @ + (IF s.type = "file" THEN count ELSE done.asked)]
WritesOn(s, t, done) ==
  /\ t.position = s.position + done.asked /\ SubSeq(t.buffer, s.position + 1, t.position) = done.bytes
  /\ length(t) = IF t.position > length(s) /\ (done.asked > 0 \/ s.type # "file") THEN t.position ELSE length(s)
  /\ \A i \in DOMAIN t.buffer : i <= s.position \/ i > t.position =>
       t.buffer[i] = IF i <= length(s) THEN s.buffer[i] ELSE Garbage

\* What a call is to make of the stream s: t.
Tape(s, t, done) ==
  LET refused == Throws(s, done.call, done.asked)
      overrun == Overruns(s, done.call, done.asked)
  IN /\ done.call \in ReadCalls \cup {"seek", "read_line", "none"} => t.buffer = s.buffer
     /\ done.call # "read_line" =>
          /\ (done.thrown <=> refused) /\ (done.undefined <=> overrun)
          /\ refused => t.buffer = s.buffer /\ (s.type # "file" => t = s)
          /\ done.call \in ReadCalls /\ ~refused /\ ~overrun => ReadsOn(s, t, done)
          /\ done.call = "write" /\ ~refused => WritesOn(s, t, done)
          /\ done.call = "seek" /\ ~refused => t = [s EXCEPT !.position = done.asked]
          /\ done.call = "reset" => t = [s EXCEPT !.buffer = <<>>, !.position = 0]

(* The three streams are one thing, bytes with a position among them or behind *)
(* them, however a program writes, reads and seeks, at the end and beyond it.  *)
(* A read returns the bytes from the position on and never others, a partial   *)
(* one as many as are left; a write puts its bytes there and nowhere else. A   *)
(* call that throws changes no byte. Which calls throw and which read memory   *)
(* that is not the stream's is said exactly: no other ever does.               *)
TapeStep == Tape(stream, stream', last')
IsTape == [][TapeStep]_callVars

\* A line is not read where its last buffer ends behind memory or an array, unless it is an array read to its very end.
LineFails ==
  stream.type # "file" /\ PastEnd(stream, LineBuffer) /\ ~(stream.type = "array" /\ stream.position = length(stream))

(* Lines are read whole and one after the other, however many buffers a line   *)
(* takes, and the last one may end without a new line: from files always, from *)
(* memory and arrays as long as the buffers fit, and exactly then.             *)
LineEnds ==
  line # NoLine /\ line' = NoLine =>
    LET text == Line(SubSeq(stream.buffer, line.from + 1, length(stream)))
        end == line.from + Len(text)
        failed == LineFails \/ "read" \notin stream.modes
    IN /\ last'.call = "read_line" /\ (last'.thrown \/ last'.undefined <=> failed)
       /\ ~failed =>
            /\ last'.bytes = text
            /\ stream'.position = IF end < length(stream) THEN end + 1
                                  ELSE IF stream.type = "array" THEN end + LineBuffer ELSE end
ReadsLines == [][LineEnds]_callVars

(* All of this, whatever a program does.                                       *)
StreamsAreTapes == []TypeOK /\ IsTape /\ ReadsLines
=============================================================================
