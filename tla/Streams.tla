------------------------------ MODULE Streams ------------------------------
(***************************************************************************)
(* Storage/MemoryStream.cpp, ArrayStream.cpp, FileStream.cpp and           *)
(* Stream.cpp: the calls of the three streams as functions of the stream.  *)
(* A call returns the stream it leaves, the bytes it read or wrote, whether*)
(* it threw and whether it read memory that is not the stream's.           *)
(*                                                                         *)
(* A file is what the program sees of a FILE: its bytes and a position.    *)
(***************************************************************************)
EXTENDS Integers, SequencesExt

CONSTANTS SizeWidth,    \* size_t counts modulo this
          LineBuffer,   \* bytes read_line reads at a time, 1024 in the code
          NewLine       \* the byte that ends a line

Garbage == 0            \* stands for bytes nobody wrote; resize() makes such bytes too

Min2(a, b) == IF a < b THEN a ELSE b

NewMemory == [type |-> "memory", buffer |-> <<>>, position |-> 0, modes |-> {"read", "write"}]
NewArray(bytes, isReadOnly) ==
  [type |-> "array", buffer |-> bytes, position |-> 0, modes |-> IF isReadOnly THEN {"read"} ELSE {"read", "write"}]
\* Opening a file to write it, alone or also to read it, discards what it held.
NewFile(bytes, modes) ==
  [type |-> "file", buffer |-> IF "write" \in modes THEN <<>> ELSE bytes, position |-> 0, modes |-> modes]

Returned(stream, bytes) == [stream |-> stream, bytes |-> bytes, thrown |-> FALSE, undefined |-> FALSE]
Threw(stream) == [Returned(stream, <<>>) EXCEPT !.thrown = TRUE]

length(stream) == Len(stream.buffer)

\* memcpy over the buffer from the position on, which grows to hold what is written.
Overwritten(stream, bytes) ==
  LET start == stream.position
      end == start + Len(bytes)
  IN [i \in 1..(IF end > length(stream) THEN end ELSE length(stream)) |->
        CASE i \in (start + 1)..end -> bytes[i - start]
          [] i \in 1..length(stream) \ ((start + 1)..end) -> stream.buffer[i]
          [] OTHER -> Garbage]

memory_write(stream, bytes) ==
  Returned([stream EXCEPT !.buffer = Overwritten(stream, bytes), !.position = @ + Len(bytes)], bytes)

array_write(stream, bytes) ==
  IF "write" \notin stream.modes \/ stream.position + Len(bytes) > length(stream) THEN Threw(stream)
  ELSE memory_write(stream, bytes)

\* Nothing written is nothing done, behind the end too, where memory grows.
file_write(stream, bytes) ==
  IF "write" \notin stream.modes THEN Threw(stream)
  ELSE IF bytes = <<>> THEN Returned(stream, bytes) ELSE memory_write(stream, bytes)

write(stream, bytes) == CASE stream.type = "memory" -> memory_write(stream, bytes)
                          [] stream.type = "array" -> array_write(stream, bytes)
                          [] stream.type = "file" -> file_write(stream, bytes)

BytesAt(stream, count) ==
  [i \in 1..count |-> IF stream.position + i <= length(stream) THEN stream.buffer[stream.position + i] ELSE Garbage]

\* Of a partial read, memory_stream copies as much as was asked for and array_stream what is left; both move
\* the position by what was asked for. Behind the end, what is left wraps around.
memory_read(stream, size, partial) ==
  LET left == (length(stream) - stream.position) % SizeWidth
      result == IF partial THEN Min2(left, size) ELSE size
      copied == IF stream.type = "memory" THEN size ELSE result
  IN IF ~partial /\ stream.position + size > length(stream) THEN Threw(stream)
     ELSE [Returned([stream EXCEPT !.position = @ + size], BytesAt(stream, result))
             EXCEPT !.undefined = copied > 0 /\ stream.position + copied > length(stream)]

\* Mutant of the next: the position moves by what was asked for.
FileReadMovesAll(stream, size, partial) ==
  LET count == IF stream.position > length(stream) THEN 0 ELSE Min2(length(stream) - stream.position, size)
      moved == [stream EXCEPT !.position = @ + size]
  IN IF "read" \notin stream.modes THEN Threw(stream)
     ELSE IF count < size /\ ~partial THEN Threw(moved) ELSE Returned(moved, BytesAt(stream, count))

file_read(stream, size, partial) ==
  LET count == IF stream.position > length(stream) THEN 0 ELSE Min2(length(stream) - stream.position, size)
      moved == [stream EXCEPT !.position = @ + count]
  IN IF "read" \notin stream.modes THEN Threw(stream)
     ELSE IF count < size /\ ~partial THEN Threw(moved) ELSE Returned(moved, BytesAt(stream, count))

read(stream, size, partial) ==
  IF stream.type = "file" THEN file_read(stream, size, partial) ELSE memory_read(stream, size, partial)

\* memory_stream and array_stream look at the position they are at, not at the one they are sent to.
seek(stream, position) ==
  IF stream.type # "file" /\ stream.position > length(stream) THEN Threw(stream)
  ELSE Returned([stream EXCEPT !.position = position], <<>>)

reset(stream) == Returned([stream EXCEPT !.buffer = <<>>, !.position = 0], <<>>)

\* As many bytes as the whole stream holds, from the position on.
read_to_end(stream) == read(stream, length(stream), FALSE)
=============================================================================
