------------------------- MODULE StreamCalls_proofs -------------------------
(***************************************************************************)
(* Whatever a program writes to a stream, reads from it and seeks in it, in*)
(* whatever order, at the end of the stream and behind it: the three       *)
(* streams are tapes, and lines are read whole. For all bytes, lengths and *)
(* sizes of the line buffer.                                               *)
(*                                                                         *)
(* What a call of a stream does is shown of the call as a function; the    *)
(* invariant says what has been read of a line and where the position is.  *)
(***************************************************************************)
EXTENDS StreamCalls, SequenceTheorems, WellFoundedInduction, TLAPS

-----------------------------------------------------------------------------
\* A stream; memory can always be read and written, an array can always be read.
Cell == Bytes \cup {Garbage}
IsStream(s) ==
  /\ s \in [type : {"memory", "array", "file"}, buffer : Seq(Cell), position : Nat, modes : SUBSET {"read", "write"}]
  /\ Len(s.buffer) <= MaxLength
  /\ (s.type # "file" => "read" \in s.modes) /\ (s.type = "memory" => "write" \in s.modes)

(* Sequences up to a length.                                                   *)
LEMMA Bounded ==
  ASSUME NEW S, NEW n \in Nat, NEW t
  PROVE  t \in BoundedSeq(S, n) <=> t \in Seq(S) /\ Len(t) <= n
  <1>1. ASSUME t \in BoundedSeq(S, n) PROVE t \in Seq(S) /\ Len(t) <= n
    <2>1. PICK m \in 0..n : t \in [1..m -> S]
      BY <1>1 DEF BoundedSeq, SeqOf
    <2>2. m \in Nat
      BY <2>1
    <2>3. t \in Seq(S)
      BY <2>1, <2>2
    <2>4. Len(t) = m
      BY <2>1, <2>2, <2>3, LenProperties
    <2> QED BY <2>1, <2>3, <2>4
  <1>2. ASSUME t \in Seq(S), Len(t) <= n PROVE t \in BoundedSeq(S, n)
    <2>1. Len(t) \in 0..n /\ t \in [1..Len(t) -> S]
      BY <1>2, LenProperties
    <2> QED BY <2>1 DEF BoundedSeq, SeqOf
  <1> QED BY <1>1, <1>2

(* A part of a sequence as a function.                                         *)
Fit(p, n, t) == p + n <= Len(t)
LEMMA PartOf ==
  ASSUME NEW S, NEW t \in Seq(S), NEW p \in Nat, NEW n \in Nat, Fit(p, n, t)
  PROVE  /\ SubSeq(t, p + 1, p + n) = [i \in 1..n |-> t[p + i]]
         /\ SubSeq(t, p + 1, p + n) \in Seq(S) /\ Len(SubSeq(t, p + 1, p + n)) = n
  <1> DEFINE u == SubSeq(t, p + 1, p + n)
  <1>1. Len(t) \in Nat /\ t \in [1..Len(t) -> S] /\ p + n <= Len(t)
    BY LenProperties DEF Fit
  <1>2. p + 1 \in 1..(Len(t) + 1) /\ p + n \in 0..Len(t) /\ p + 1 \in Int /\ p + n \in Int
    BY <1>1
  <1>3. u = [i \in 1..n |-> t[p + i]]
    <2>1. u = [i \in 1..((p + n) - (p + 1) + 1) |-> t[i + (p + 1) - 1]]
      BY <1>1, <1>2
    <2>2. (p + n) - (p + 1) + 1 = n /\ \A i \in 1..n : i + (p + 1) - 1 = p + i
      OBVIOUS
    <2> QED BY <2>1, <2>2
  <1>4. \A i \in (p + 1)..(p + n) : t[i] \in S
    BY <1>1
  <1>5. /\ u \in Seq(S)
        /\ Len(u) = IF p + 1 <= p + n THEN (p + n) - (p + 1) + 1 ELSE 0
    BY <1>2, <1>4, SubSeqProperties
  <1>6. Len(u) = n
    BY <1>5
  <1> QED BY <1>3, <1>5, <1>6 DEF u

LEMMA NoPart ==
  ASSUME NEW S, NEW t \in Seq(S), NEW p \in Nat
  PROVE  SubSeq(t, p + 1, p + 0) = <<>>
  <1>1. p + 1 > p + 0
    OBVIOUS
  <1> QED BY <1>1


-----------------------------------------------------------------------------
Part(t, p, n) == SubSeq(t, p + 1, p + n)
\* A stream at another place, and what the reads return: so many bytes, or as many of them as are left.
MovedTo(s, q) == [type |-> s.type, buffer |-> s.buffer, position |-> q, modes |-> s.modes]
Chunk(s, n, partial) == IF partial THEN Min2(n, Left(s)) ELSE n
Fits(s, n) == n = 0 \/ s.position + n <= Len(s.buffer)
InReach(s) == s.position <= MaxLength + LineBuffer
Spills(s, n, partial) ==
  partial /\ n > 0 /\ ((s.type = "memory" /\ PastEnd(s, n)) \/ (s.type = "array" /\ PastEnd(s, 0)))

LEMMA MovedIs ==
  ASSUME NEW s, IsStream(s), NEW q \in Nat
  PROVE  [s EXCEPT !.position = q] = MovedTo(s, q)
  BY DEF IsStream, MovedTo

LEMMA MovedIsStream ==
  ASSUME NEW s, IsStream(s), NEW q \in Nat
  PROVE  IsStream(MovedTo(s, q))
  BY DEF IsStream, MovedTo

LEMMA StreamIs ==
  ASSUME NEW s, IsStream(s)
  PROVE  /\ s.position \in Nat /\ s.buffer \in Seq(Cell) /\ Len(s.buffer) \in Nat /\ Len(s.buffer) <= MaxLength
         /\ length(s) = Len(s.buffer) /\ s.type \in {"memory", "array", "file"}
         /\ (s.type # "file" => "read" \in s.modes)
         /\ MovedTo(s, s.position) = s
  <1>1. s.buffer \in Seq(Cell)
    BY DEF IsStream
  <1> QED BY <1>1, LenProperties DEF IsStream, length, MovedTo

(* What is left of a stream fits in it.                                        *)
LEMMA ChunkFits ==
  ASSUME NEW s, IsStream(s), NEW n \in Nat
  PROVE  /\ Left(s) \in Nat /\ Chunk(s, n, TRUE) \in 0..n /\ Fits(s, Chunk(s, n, TRUE))
         /\ Left(s) = IF s.position > Len(s.buffer) THEN 0 ELSE Len(s.buffer) - s.position
  <1> DEFINE p == s.position
             all == Len(s.buffer)
             left == Left(s)
             c == Chunk(s, n, TRUE)
  <1>1. p \in Nat /\ all \in Nat /\ length(s) = all
    BY StreamIs
  <1>2. c = IF n < left THEN n ELSE left
    BY DEF Chunk, Min2
  <1>3. left = IF p > all THEN 0 ELSE all - p
    BY <1>1 DEF Left, PastEnd
  <1> HIDE DEF p, all, left, c
  <1>4. left \in Nat
    BY <1>1, <1>3
  <1>5. c \in 0..n
    BY <1>2, <1>4
  <1>6. c = 0 \/ p + c <= all
    BY <1>1, <1>2, <1>3
  <1> QED BY <1>3, <1>4, <1>5, <1>6 DEF Fits, p, all, left, c

(* The bytes from the position on, as far as there are any.                    *)
LEMMA BytesAtIs ==
  ASSUME NEW s, IsStream(s), NEW n \in Nat, Fits(s, n)
  PROVE  BytesAt(s, n) = Part(s.buffer, s.position, n) /\ Len(BytesAt(s, n)) = n /\ BytesAt(s, n) \in Seq(Cell)
  <1>1. s.position \in Nat /\ s.buffer \in Seq(Cell) /\ Len(s.buffer) \in Nat /\ length(s) = Len(s.buffer)
    BY StreamIs
  <1> DEFINE p == s.position
             t == s.buffer
  <1>2. CASE n = 0
    <2>1. BytesAt(s, n) = <<>>
      BY <1>2 DEF BytesAt
    <2>2. Part(t, p, n) = <<>>
      <3> HIDE DEF p, t
      <3>1. p \in Nat /\ t \in Seq(Cell)
        BY <1>1 DEF p, t
      <3> QED BY <1>2, <3>1, NoPart DEF Part
    <2>3. Len(<<>>) = 0 /\ <<>> \in Seq(Cell)
      OBVIOUS
    <2> QED BY <1>2, <2>1, <2>2, <2>3
  <1>3. CASE n # 0
    <2>1. BytesAt(s, n) = [i \in 1..n |-> s.buffer[s.position + i]]
      BY <1>1, <1>3 DEF BytesAt, Fits
    <2>2. p \in Nat /\ t \in Seq(Cell) /\ Fit(p, n, t)
      BY <1>1, <1>3 DEF Fit, Fits
    <2> HIDE DEF p, t
    <2>3. /\ SubSeq(t, p + 1, p + n) = [i \in 1..n |-> t[p + i]] /\ Len(SubSeq(t, p + 1, p + n)) = n
          /\ SubSeq(t, p + 1, p + n) \in Seq(Cell)
      BY <2>2, PartOf
    <2> QED BY <2>1, <2>3 DEF p, t, Part
  <1> QED BY <1>2, <1>3

(* A read returns the bytes from the position on, or throws: of memory and of  *)
(* arrays, moving the position by all that was asked for,                      *)
LEMMA MemoryReads ==
  ASSUME NEW s, IsStream(s), s.type # "file", InReach(s), NEW n \in Nat, NEW partial \in BOOLEAN
  PROVE  LET o == memory_read(s, n, partial)
             c == Chunk(s, n, partial)
         IN IF partial = FALSE /\ PastEnd(s, n) THEN o = Threw(s)
            ELSE /\ o.stream = MovedTo(s, s.position + n) /\ o.thrown = FALSE /\ o.undefined \in BOOLEAN
                 /\ o.undefined <=> Spills(s, n, partial)
                 /\ o.undefined = FALSE => o.bytes = BytesAt(s, c) /\ c \in 0..n /\ Fits(s, c)
  <1> DEFINE p == s.position
             all == Len(s.buffer)
             left == (all - p) % SizeWidth
             result == IF partial THEN Min2(left, n) ELSE n
             copied == IF s.type = "memory" THEN n ELSE result
             c == Chunk(s, n, partial)
             o == memory_read(s, n, partial)
  <1>1. /\ p \in Nat /\ all \in Nat /\ all <= MaxLength /\ length(s) = all /\ p <= MaxLength + LineBuffer
        /\ s.type \in {"memory", "array"} /\ MaxLength \in Nat /\ LineBuffer \in Nat /\ SizeWidth \in Nat
        /\ SizeWidth > MaxLength + LineBuffer
    BY StreamIs, StreamsAssumption DEF InReach
  <1> HIDE DEF p, all
  <1>2. PastEnd(s, n) <=> p + n > all
    BY <1>1 DEF PastEnd, p
  <1>3. PastEnd(s, 0) <=> p > all
    BY <1>1 DEF PastEnd, p
  <1>4. p <= all => left = all - p
    <2>1. p <= all => all - p \in 0..(SizeWidth - 1)
      BY <1>1
    <2> QED BY <1>1, <2>1
  <1>5. p > all => left > 0 /\ left \in Nat
    <2>1. p > all => all - p + SizeWidth \in 1..(SizeWidth - 1)
      BY <1>1
    <2> QED BY <1>1, <2>1
  <1>6. CASE partial = FALSE /\ PastEnd(s, n)
    BY <1>1, <1>6, <1>2 DEF memory_read, p
  <1>7. CASE ~(partial = FALSE /\ PastEnd(s, n))
    <2>1. o = [Returned([s EXCEPT !.position = p + n], BytesAt(s, result))
                 EXCEPT !.undefined = copied > 0 /\ p + copied > all]
      BY <1>1, <1>2, <1>7 DEF memory_read, p
    <2>2. [s EXCEPT !.position = p + n] = MovedTo(s, p + n)
      <3>1. p + n \in Nat
        BY <1>1
      <3> QED BY <3>1, MovedIs
    <2> DEFINE wrong == copied > 0 /\ p + copied > all
    <2>3. o = [stream |-> MovedTo(s, p + n), bytes |-> BytesAt(s, result), thrown |-> FALSE, undefined |-> wrong]
      <3> HIDE DEF o, result, copied
      <3> QED BY <2>1, <2>2 DEF Returned
    <2>4. wrong \in BOOLEAN
      OBVIOUS
    <2>5. left \in Nat
      BY <1>1, <1>4, <1>5
    <2>6. result \in Nat /\ result <= n
      <3> HIDE DEF left
      <3> QED BY <2>5 DEF Min2
    <2>7. wrong <=> Spills(s, n, partial)
      <3> HIDE DEF left
      <3>1. CASE partial = FALSE
        BY <1>1, <1>2, <1>7, <3>1 DEF Spills
      <3>2. CASE partial = TRUE /\ s.type = "memory"
        BY <1>1, <1>2, <3>2 DEF Spills
      <3>3. CASE partial = TRUE /\ s.type = "array"
        <4>1. copied = IF left < n THEN left ELSE n
          BY <3>3 DEF Min2
        <4>2. wrong <=> n > 0 /\ p > all
          <5> HIDE DEF copied, result
          <5> QED BY <1>1, <1>4, <1>5, <2>5, <4>1
        <4> QED BY <1>1, <1>3, <3>3, <4>2 DEF Spills
      <3> QED BY <1>1, <3>1, <3>2, <3>3
    <2>8. ASSUME ~wrong PROVE result = c /\ c \in 0..n /\ Fits(s, c)
      <3> HIDE DEF left
      <3>1. CASE partial = FALSE
        BY <1>1, <1>2, <1>7, <3>1 DEF Fits, Chunk, p, all
      <3>2. CASE partial = TRUE
        <4>1. ~Spills(s, n, partial)
          BY <2>7, <2>8
        <4>2. /\ Left(s) = IF p > all THEN 0 ELSE all - p
              /\ c \in 0..n /\ Fits(s, c)
          BY <3>2, ChunkFits DEF p, all
        <4>3. result = IF left < n THEN left ELSE n
          BY <3>2 DEF Min2
        <4>4. c = IF n < Left(s) THEN n ELSE Left(s)
          BY <3>2 DEF Chunk, Min2
        <4>5. n > 0 => p <= all
          BY <1>1, <1>2, <1>3, <3>2, <4>1 DEF Spills
        <4>6. result = c
          <5> HIDE DEF result, c
          <5> QED BY <1>1, <1>4, <2>5, <4>2, <4>3, <4>4, <4>5
        <4> QED BY <4>2, <4>6
      <3> QED BY <3>1, <3>2
    <2> HIDE DEF wrong, result, c, o
    <2>9. /\ o.stream = MovedTo(s, p + n) /\ o.thrown = FALSE /\ o.undefined = wrong /\ o.bytes = BytesAt(s, result)
      BY <2>3
    <2> QED BY <1>7, <2>4, <2>7, <2>8, <2>9 DEF p, o, c
  <1> QED BY <1>6, <1>7

(* of a file moving it by as much as there is.                                 *)
LEMMA FileReads ==
  ASSUME NEW s, IsStream(s), NEW n \in Nat, NEW partial \in BOOLEAN
  PROVE  LET c == Chunk(s, n, TRUE)
         IN /\ file_read(s, n, partial) =
                 IF "read" \notin s.modes THEN Threw(s)
                 ELSE IF c < n /\ ~partial THEN Threw(MovedTo(s, s.position + c))
                      ELSE Returned(MovedTo(s, s.position + c), BytesAt(s, c))
            /\ c < n <=> PastEnd(s, n) /\ n > 0
  <1> DEFINE p == s.position
             all == Len(s.buffer)
             c == Chunk(s, n, TRUE)
  <1>1. p \in Nat /\ all \in Nat /\ length(s) = all
    BY StreamIs
  <1>2. c \in 0..n /\ Left(s) = IF p > all THEN 0 ELSE all - p
    BY ChunkFits
  <1>3. c = IF n < Left(s) THEN n ELSE Left(s)
    BY DEF Chunk, Min2
  <1> HIDE DEF c, p, all
  <1>4. (IF p > all THEN 0 ELSE Min2(all - p, n)) = c
    BY <1>1, <1>2, <1>3 DEF Min2
  <1>5. [s EXCEPT !.position = p + c] = MovedTo(s, p + c)
    BY <1>1, <1>2, MovedIs
  <1>6. PastEnd(s, n) <=> p + n > all
    BY <1>1 DEF PastEnd, p
  <1>7. c < n <=> PastEnd(s, n) /\ n > 0
    BY <1>1, <1>2, <1>3, <1>6
  <1> QED BY <1>1, <1>4, <1>5, <1>7 DEF file_read, c, p, all


-----------------------------------------------------------------------------
\* What is known of a call once it is over, and when it is good.
Ended(call, asked, o) ==
  [call |-> call, asked |-> asked, bytes |-> o.bytes, thrown |-> o.thrown, undefined |-> o.undefined]
Good(s, call, asked, o) ==
  /\ IsStream(o.stream) /\ o.thrown \in BOOLEAN /\ o.undefined \in BOOLEAN
  /\ Tape(s, o.stream, Ended(call, asked, o))

LEMMA EndedIs ==
  ASSUME NEW call, NEW asked, NEW o
  PROVE  /\ Ended(call, asked, o).call = call /\ Ended(call, asked, o).asked = asked
         /\ Ended(call, asked, o).bytes = o.bytes
         /\ Ended(call, asked, o).thrown = o.thrown /\ Ended(call, asked, o).undefined = o.undefined
  BY DEF Ended

LEMMA ReturnedIs ==
  ASSUME NEW s, NEW bytes
  PROVE  /\ Returned(s, bytes).stream = s /\ Returned(s, bytes).bytes = bytes
         /\ Returned(s, bytes).thrown = FALSE /\ Returned(s, bytes).undefined = FALSE
  BY DEF Returned

LEMMA ThrewIs ==
  ASSUME NEW s
  PROVE  Threw(s).stream = s /\ Threw(s).bytes = <<>> /\ Threw(s).thrown = TRUE /\ Threw(s).undefined = FALSE
  <1> DEFINE none == <<>>
             before == Returned(s, none)
             after == [before EXCEPT !.thrown = TRUE]
             Outcome == [stream : {s}, bytes : {none}, thrown : BOOLEAN, undefined : {FALSE}]
  <1> HIDE DEF none
  <1>1. before \in Outcome
    BY DEF Returned
  <1> HIDE DEF before
  <1>2. after \in Outcome /\ after.thrown = TRUE
    BY <1>1
  <1> HIDE DEF after
  <1>3. after.stream = s /\ after.bytes = none /\ after.undefined = FALSE
    BY <1>2
  <1> QED BY <1>2, <1>3 DEF Threw, after, before, none

(* What throws, changes no byte, and moves in a file at most, is good.         *)
LEMMA ThrewIsGood ==
  ASSUME NEW s, IsStream(s), NEW t, IsStream(t), t.buffer = s.buffer, s.type # "file" => t = s,
         NEW call, call # "read_line", NEW asked, Throws(s, call, asked), ~Overruns(s, call, asked)
  PROVE  Good(s, call, asked, Threw(t))
  <1> DEFINE o == Threw(t)
             done == Ended(call, asked, o)
  <1>1. o.stream = t /\ o.thrown = TRUE /\ o.undefined = FALSE
    BY ThrewIs
  <1>2. done.call = call /\ done.asked = asked /\ done.thrown = TRUE /\ done.undefined = FALSE
    BY <1>1, EndedIs
  <1>3. call # "reset"
    BY DEF Throws, ReadCalls
  <1> HIDE DEF o, done
  <1>4. Tape(s, t, done)
    BY <1>2, <1>3 DEF Tape
  <1> QED BY <1>1, <1>4 DEF Good, o, done

(* A write puts its bytes behind the position and changes no other,            *)
LEMMA Overwrites ==
  ASSUME NEW s, IsStream(s), NEW bytes \in Seq(Bytes), s.position + Len(bytes) <= MaxLength
  PROVE  LET o == memory_write(s, bytes)
             q == s.position + Len(bytes)
         IN /\ IsStream(o.stream) /\ o.thrown = FALSE /\ o.undefined = FALSE /\ o.bytes = bytes
            /\ o.stream.position = q /\ SubSeq(o.stream.buffer, s.position + 1, q) = bytes
            /\ Len(o.stream.buffer) = IF q > Len(s.buffer) THEN q ELSE Len(s.buffer)
            /\ \A i \in DOMAIN o.stream.buffer : i <= s.position \/ i > q =>
                 o.stream.buffer[i] = IF i <= Len(s.buffer) THEN s.buffer[i] ELSE Garbage
  <1> DEFINE p == s.position
             n == Len(bytes)
             all == Len(s.buffer)
             most == IF p + n > all THEN p + n ELSE all
             b == Overwritten(s, bytes)
             o == memory_write(s, bytes)
  <1>1. p \in Nat /\ n \in Nat /\ all \in Nat /\ all <= MaxLength /\ p + n <= MaxLength /\ length(s) = all
    BY StreamIs, LenProperties
  <1>2. /\ s.buffer \in [1..all -> Cell] /\ DOMAIN s.buffer = 1..all /\ bytes \in [1..n -> Cell]
    BY LenProperties DEF IsStream, Cell
  <1>3. most \in Nat /\ most <= MaxLength /\ p + n <= most
    BY <1>1
  <1>4. b = [i \in 1..most |-> CASE i \in (p + 1)..(p + n) -> bytes[i - p]
                                [] i \in 1..all \ ((p + 1)..(p + n)) -> s.buffer[i]
                                [] OTHER -> Garbage]
    BY <1>1 DEF Overwritten
  <1>5. ASSUME NEW i \in 1..most
        PROVE  /\ i \in (p + 1)..(p + n) => b[i] = bytes[i - p]
               /\ i \in 1..all \ ((p + 1)..(p + n)) => b[i] = s.buffer[i]
               /\ i \notin (p + 1)..(p + n) /\ i \notin 1..all \ ((p + 1)..(p + n)) => b[i] = Garbage
    <2> HIDE DEF b, p, n, all, most
    <2>1. ASSUME i \in (p + 1)..(p + n) PROVE b[i] = bytes[i - p]
      <3>1. i \notin 1..all \ ((p + 1)..(p + n))
        BY <2>1
      <3> QED BY <1>4, <2>1, <3>1
    <2>2. ASSUME i \in 1..all \ ((p + 1)..(p + n)) PROVE b[i] = s.buffer[i]
      BY <1>4, <2>2
    <2>3. ASSUME i \notin (p + 1)..(p + n), i \notin 1..all \ ((p + 1)..(p + n)) PROVE b[i] = Garbage
      BY <1>4, <2>3
    <2> QED BY <2>1, <2>2, <2>3
  <1>6. \A i \in 1..most : b[i] \in Cell
    <2> SUFFICES ASSUME NEW i \in 1..most PROVE b[i] \in Cell
      OBVIOUS
    <2>1. CASE i \in (p + 1)..(p + n)
      <3>1. i - p \in 1..n /\ b[i] = bytes[i - p]
        BY <1>1, <1>5, <2>1
      <3> QED BY <1>2, <3>1
    <2>2. CASE i \in 1..all \ ((p + 1)..(p + n))
      BY <1>2, <1>5, <2>2
    <2>3. CASE i \notin (p + 1)..(p + n) /\ i \notin 1..all \ ((p + 1)..(p + n))
      BY <1>5, <2>3 DEF Cell
    <2> QED BY <2>1, <2>2, <2>3
  <1>7. b \in Seq(Cell) /\ Len(b) = most /\ DOMAIN b = 1..most
    <2> HIDE DEF b, most
    <2>1. b \in [1..most -> Cell]
      BY <1>4, <1>6
    <2>2. b \in Seq(Cell)
      BY <1>3, <2>1
    <2> QED BY <1>3, <2>1, <2>2, LenProperties
  <1>8. \A i \in DOMAIN b : i <= p \/ i > p + n => b[i] = IF i <= all THEN s.buffer[i] ELSE Garbage
    <2> SUFFICES ASSUME NEW i \in 1..most, i <= p \/ i > p + n
                 PROVE  b[i] = IF i <= all THEN s.buffer[i] ELSE Garbage
      BY <1>7
    <2>1. i \notin (p + 1)..(p + n) /\ (i <= all <=> i \in 1..all)
      BY <1>1, <1>3
    <2> HIDE DEF b, p, n, all, most
    <2> QED BY <1>5, <2>1
  <1>9. SubSeq(b, p + 1, p + n) = bytes
    <2>1. p \in Nat /\ n \in Nat /\ b \in Seq(Cell) /\ Fit(p, n, b)
      BY <1>1, <1>3, <1>7 DEF Fit
    <2>2. \A i \in 1..n : b[p + i] = bytes[i]
      <3> SUFFICES ASSUME NEW i \in 1..n PROVE b[p + i] = bytes[i]
        OBVIOUS
      <3>1. p + i \in 1..most /\ p + i \in (p + 1)..(p + n) /\ (p + i) - p = i
        BY <1>1, <1>3
      <3> HIDE DEF b, p, n, most
      <3> QED BY <1>5, <3>1
    <2>3. bytes = [i \in 1..n |-> bytes[i]]
      BY <1>2
    <2> HIDE DEF b, p, n
    <2>4. SubSeq(b, p + 1, p + n) = [i \in 1..n |-> b[p + i]]
      BY <2>1, PartOf
    <2> QED BY <2>2, <2>3, <2>4
  <1>10. /\ o.stream = [type |-> s.type, buffer |-> b, position |-> p + n, modes |-> s.modes]
         /\ o.thrown = FALSE /\ o.undefined = FALSE /\ o.bytes = bytes
    <2> HIDE DEF b, n
    <2> QED BY DEF memory_write, Returned, IsStream, b, n
  <1> HIDE DEF o, b, most
  <1>11. o.stream.position = p + n /\ o.stream.buffer = b
    BY <1>10
  <1>12. IsStream(o.stream)
    BY <1>1, <1>3, <1>7, <1>10 DEF IsStream
  <1> HIDE DEF n
  <1>13. /\ IsStream(o.stream) /\ o.thrown = FALSE /\ o.undefined = FALSE /\ o.bytes = bytes
         /\ o.stream.position = p + n /\ SubSeq(o.stream.buffer, p + 1, p + n) = bytes /\ Len(o.stream.buffer) = most
         /\ \A i \in DOMAIN o.stream.buffer : i <= p \/ i > p + n =>
              o.stream.buffer[i] = IF i <= all THEN s.buffer[i] ELSE Garbage
    BY <1>7, <1>8, <1>9, <1>10, <1>11, <1>12
  <1> QED BY <1>13 DEF o, most, n

(* where the stream can be written and, if it is an array, has room for them.  *)
LEMMA WriteIsGood ==
  ASSUME NEW s, IsStream(s), NEW bytes \in Seq(Bytes), s.position + Len(bytes) <= MaxLength
  PROVE  Good(s, "write", Len(bytes), write(s, bytes))
  <1> DEFINE p == s.position
             n == Len(bytes)
             all == Len(s.buffer)
             refused == Throws(s, "write", n)
  <1>1. /\ p \in Nat /\ n \in Nat /\ all \in Nat /\ length(s) = all
        /\ s.type \in {"memory", "array", "file"} /\ s.buffer \in Seq(Cell)
        /\ DOMAIN s.buffer = 1..all
    BY StreamIs, LenProperties
  <1>2. refused <=> "write" \notin s.modes \/ (s.type = "array" /\ PastEnd(s, n))
    BY DEF Throws, ReadCalls
  <1>3. ~Overruns(s, "write", n)
    BY DEF Overruns
  <1> HIDE DEF refused
  <1> DEFINE o == write(s, bytes)
             done == Ended("write", n, o)
  <1> SUFFICES Good(s, "write", n, o)
    OBVIOUS
  <1>4. CASE refused
    <2>1. s.type # "memory"
      BY <1>1, <1>2, <1>4 DEF IsStream
    <2>2. write(s, bytes) = Threw(s)
      BY <1>1, <1>2, <1>4, <2>1 DEF write, array_write, file_write, PastEnd
    <2>3. Good(s, "write", n, Threw(s))
      BY <1>3, <1>4, ThrewIsGood DEF refused
    <2> QED BY <2>2, <2>3
  <1>5. ASSUME ~refused, IsStream(o.stream), o.thrown = FALSE, o.undefined = FALSE, WritesOn(s, o.stream, done)
        PROVE  Good(s, "write", n, o)
    <2>1. done.call = "write" /\ done.asked = n /\ done.thrown = FALSE /\ done.undefined = FALSE
      BY <1>5, EndedIs
    <2> HIDE DEF o, done
    <2>2. Tape(s, o.stream, done)
      BY <1>3, <1>5, <2>1 DEF Tape, ReadCalls, refused
    <2> QED BY <1>5, <2>2 DEF Good, done
  <1>6. CASE ~refused /\ s.type = "file" /\ bytes = <<>>
    <2>1. o = Returned(s, bytes)
      BY <1>2, <1>6 DEF write, file_write
    <2>2. o.stream = s /\ o.bytes = bytes /\ o.thrown = FALSE /\ o.undefined = FALSE
      <3> HIDE DEF o
      <3> QED BY <2>1, ReturnedIs
    <2>3. done.asked = 0 /\ done.bytes = <<>> /\ p + 0 = p
      <3>1. n = 0
        BY <1>6
      <3> QED BY <1>1, <1>6, <2>2, <3>1, EndedIs
    <2>4. SubSeq(s.buffer, p + 1, p) = <<>>
      <3> DEFINE t == s.buffer
      <3>1. p \in Nat /\ t \in Seq(Cell) /\ p + 0 = p
        BY <1>1
      <3> HIDE DEF p, t
      <3> QED BY <3>1, NoPart DEF t
    <2> HIDE DEF o, done
    <2>5. WritesOn(s, o.stream, done)
      BY <1>1, <1>6, <2>2, <2>3, <2>4 DEF WritesOn
    <2> QED BY <1>5, <1>6, <2>2, <2>5
  <1>7. CASE ~refused /\ ~(s.type = "file" /\ bytes = <<>>)
    <2>1. o = memory_write(s, bytes)
      BY <1>1, <1>2, <1>7 DEF write, array_write, file_write, PastEnd
    <2>2. n > 0 \/ s.type # "file"
      BY <1>1, <1>7
    <2>3. done.asked = n /\ done.bytes = o.bytes
      BY EndedIs
    <2> DEFINE w == memory_write(s, bytes)
    <2>4. /\ IsStream(w.stream) /\ w.thrown = FALSE /\ w.undefined = FALSE /\ w.bytes = bytes
          /\ w.stream.position = p + n /\ SubSeq(w.stream.buffer, p + 1, p + n) = bytes
          /\ Len(w.stream.buffer) = IF p + n > all THEN p + n ELSE all
          /\ \A i \in DOMAIN w.stream.buffer : i <= p \/ i > p + n =>
               w.stream.buffer[i] = IF i <= all THEN s.buffer[i] ELSE Garbage
      <3> HIDE DEF w
      <3> QED BY Overwrites DEF w
    <2>5. length(w.stream) = Len(w.stream.buffer)
      BY DEF length
    <2> HIDE DEF o, done, w, n, all
    <2>6. o = w
      BY <2>1 DEF w
    <2>7. WritesOn(s, o.stream, done)
      BY <1>1, <2>2, <2>3, <2>4, <2>5, <2>6 DEF WritesOn
    <2> QED BY <1>5, <1>7, <2>4, <2>6, <2>7
  <1> QED BY <1>4, <1>6, <1>7

(* All there is to know of a read.                                             *)
Refuses(s, n, partial) == "read" \notin s.modes \/ (partial = FALSE /\ PastEnd(s, n) /\ (s.type # "file" \/ n > 0))
Steps(s, n, partial) == IF s.type = "file" THEN Chunk(s, n, partial) ELSE n
LEMMA Reads ==
  ASSUME NEW s, IsStream(s), InReach(s), NEW n \in Nat, NEW partial \in BOOLEAN
  PROVE  LET o == read(s, n, partial)
             c == Chunk(s, n, partial)
         IN /\ IsStream(o.stream) /\ o.stream.buffer = s.buffer /\ o.thrown \in BOOLEAN /\ o.undefined \in BOOLEAN
            /\ (o.thrown = TRUE /\ s.type # "file") => o.stream = s
            /\ o.thrown = TRUE <=> Refuses(s, n, partial)
            /\ o.undefined = TRUE <=> Spills(s, n, partial)
            /\ (o.thrown = FALSE /\ o.undefined = FALSE) =>
                 /\ o.stream = MovedTo(s, s.position + Steps(s, n, partial)) /\ c \in 0..n /\ Fits(s, c)
                 /\ o.bytes = Part(s.buffer, s.position, c) /\ Len(o.bytes) = c /\ o.bytes \in Seq(Cell)
  <1> DEFINE p == s.position
             c == Chunk(s, n, partial)
             o == read(s, n, partial)
  <1>1. /\ p \in Nat /\ s.type \in {"memory", "array", "file"} /\ (s.type # "file" => "read" \in s.modes)
        /\ s.type # "file" => (Refuses(s, n, partial) <=> partial = FALSE /\ PastEnd(s, n))
    BY StreamIs DEF Refuses
  <1>2. ASSUME NEW q \in Nat PROVE IsStream(MovedTo(s, q)) /\ MovedTo(s, q).buffer = s.buffer
    BY <1>2, MovedIsStream DEF MovedTo
  <1>3. CASE s.type # "file"
    <2>1. o = memory_read(s, n, partial) /\ Steps(s, n, partial) = n
      BY <1>3 DEF read, Steps
    <2> DEFINE w == memory_read(s, n, partial)
    <2>0. IF partial = FALSE /\ PastEnd(s, n) THEN w = Threw(s)
          ELSE /\ w.stream = MovedTo(s, s.position + n) /\ w.thrown = FALSE /\ w.undefined \in BOOLEAN
               /\ w.undefined <=> Spills(s, n, partial)
               /\ w.undefined = FALSE =>
                    w.bytes = BytesAt(s, c) /\ c \in 0..n /\ Fits(s, c)
      BY <1>3, MemoryReads, Zenon
    <2>2. IF partial = FALSE /\ PastEnd(s, n) THEN o = Threw(s)
          ELSE /\ o.stream = MovedTo(s, p + n) /\ o.thrown = FALSE /\ o.undefined \in BOOLEAN
               /\ o.undefined <=> Spills(s, n, partial)
               /\ o.undefined = FALSE => o.bytes = BytesAt(s, c) /\ c \in 0..n /\ Fits(s, c)
      <3> HIDE DEF o, c, w
      <3> QED BY <2>0, <2>1 DEF w
    <2> HIDE DEF o, c, p
    <2>3. CASE partial = FALSE /\ PastEnd(s, n)
      <3>1. o.stream = s /\ o.thrown = TRUE /\ o.undefined = FALSE
        BY <2>2, <2>3, ThrewIs
      <3>2. ~Spills(s, n, partial)
        BY <2>3 DEF Spills
      <3> QED BY <1>1, <1>3, <2>3, <3>1, <3>2 DEF o
    <2>4. CASE ~(partial = FALSE /\ PastEnd(s, n))
      <3>1. p + n \in Nat
        BY <1>1
      <3>2. ASSUME o.undefined = FALSE
            PROVE  o.bytes = Part(s.buffer, p, c) /\ Len(o.bytes) = c /\ o.bytes \in Seq(Cell)
        <4>1. c \in Nat /\ Fits(s, c) /\ o.bytes = BytesAt(s, c)
          BY <2>2, <2>4, <3>2
        <4> QED BY <4>1, BytesAtIs DEF p
      <3> QED BY <1>1, <1>2, <1>3, <2>1, <2>2, <2>4, <3>1, <3>2 DEF o, p, c
    <2> QED BY <2>3, <2>4
  <1>4. CASE s.type = "file"
    <2> DEFINE d == Chunk(s, n, TRUE)
    <2>1. o = file_read(s, n, partial) /\ Steps(s, n, partial) = c /\ ~Spills(s, n, partial)
      BY <1>4 DEF read, Steps, Spills
    <2>2. /\ o = IF "read" \notin s.modes THEN Threw(s)
                 ELSE IF d < n /\ ~partial THEN Threw(MovedTo(s, p + d))
                      ELSE Returned(MovedTo(s, p + d), BytesAt(s, d))
          /\ d < n <=> PastEnd(s, n) /\ n > 0
      BY <2>1, FileReads
    <2>3. d \in 0..n /\ Fits(s, d)
      BY ChunkFits
    <2>4. partial = TRUE => c = d
      OBVIOUS
    <2>5. partial = FALSE => c = n
      BY DEF Chunk
    <2> HIDE DEF o, c, p, d
    <2>6. p + d \in Nat
      BY <1>1, <2>3
    <2>7. CASE "read" \notin s.modes
      <3>1. o.stream = s /\ o.thrown = TRUE /\ o.undefined = FALSE
        BY <2>2, <2>7, ThrewIs
      <3> QED BY <1>4, <2>1, <2>7, <3>1 DEF o, Refuses
    <2>8. CASE "read" \in s.modes /\ d < n /\ ~partial
      <3>1. o.stream = MovedTo(s, p + d) /\ o.thrown = TRUE /\ o.undefined = FALSE
        BY <2>2, <2>8, ThrewIs
      <3>2. Refuses(s, n, partial)
        BY <2>2, <2>8 DEF Refuses
      <3> QED BY <1>2, <1>4, <2>1, <2>6, <3>1, <3>2 DEF o
    <2>9. CASE "read" \in s.modes /\ ~(d < n /\ ~partial)
      <3>1. o.stream = MovedTo(s, p + d) /\ o.thrown = FALSE /\ o.undefined = FALSE /\ o.bytes = BytesAt(s, d)
        <4> DEFINE there == MovedTo(s, p + d)
                   bytes == BytesAt(s, d)
        <4> HIDE DEF there, bytes
        <4>1. o = Returned(there, bytes)
          BY <2>2, <2>9 DEF there, bytes
        <4>2. /\ Returned(there, bytes).stream = there /\ Returned(there, bytes).bytes = bytes
              /\ Returned(there, bytes).thrown = FALSE /\ Returned(there, bytes).undefined = FALSE
          BY DEF Returned
        <4> QED BY <4>1, <4>2, Zenon DEF there, bytes
      <3>2. c = d
        BY <2>3, <2>4, <2>5, <2>9
      <3>3. BytesAt(s, d) = Part(s.buffer, p, d) /\ Len(BytesAt(s, d)) = d /\ BytesAt(s, d) \in Seq(Cell)
        <4>1. d \in Nat
          BY <2>3
        <4> QED BY <2>3, <4>1, BytesAtIs DEF p
      <3>4. ~Refuses(s, n, partial)
        BY <1>4, <2>2, <2>9 DEF Refuses
      <3> QED BY <1>2, <1>4, <2>1, <2>3, <2>6, <3>1, <3>2, <3>3, <3>4 DEF o, p, c
    <2> QED BY <2>7, <2>8, <2>9
  <1> QED BY <1>3, <1>4

(* A read is good.                                                             *)
LEMMA ReadIsGood ==
  ASSUME NEW s, IsStream(s), InReach(s), NEW n \in Nat, NEW partial \in BOOLEAN,
         NEW call \in ReadCalls, partial = TRUE <=> call = "read_partial"
  PROVE  Good(s, call, n, read(s, n, partial))
  <1> DEFINE o == read(s, n, partial)
             c == Chunk(s, n, partial)
             m == Steps(s, n, partial)
             done == Ended(call, n, o)
  <1>1. /\ IsStream(o.stream) /\ o.stream.buffer = s.buffer /\ o.thrown \in BOOLEAN /\ o.undefined \in BOOLEAN
        /\ (o.thrown = TRUE /\ s.type # "file") => o.stream = s
        /\ o.thrown = TRUE <=> Refuses(s, n, partial)
        /\ o.undefined = TRUE <=> Spills(s, n, partial)
        /\ (o.thrown = FALSE /\ o.undefined = FALSE) =>
             /\ o.stream = MovedTo(s, s.position + m) /\ c \in 0..n /\ Fits(s, c)
             /\ o.bytes = Part(s.buffer, s.position, c) /\ Len(o.bytes) = c /\ o.bytes \in Seq(Cell)
    BY Reads
  <1>2. done.call = call /\ done.asked = n /\ done.thrown = o.thrown /\ done.undefined = o.undefined /\ done.bytes = o.bytes
    BY EndedIs
  <1> SUFFICES Good(s, call, n, o)
    OBVIOUS
  <1> HIDE DEF o, done, c, m
  <1>3. call \in {"read", "read_partial", "read_to_end"}
    BY DEF ReadCalls
  <1>4. Throws(s, call, n) <=> o.thrown = TRUE
    BY <1>1, <1>3 DEF Throws, Refuses, ReadCalls
  <1>5. Overruns(s, call, n) <=> o.undefined = TRUE
    BY <1>1, <1>3 DEF Overruns, Spills
  <1>6. ASSUME o.thrown = FALSE, o.undefined = FALSE PROVE ReadsOn(s, o.stream, done)
    <2>1. c = (IF call = "read_partial" THEN Min2(n, Left(s)) ELSE n) /\ m = IF s.type = "file" THEN c ELSE n
      BY DEF c, m, Chunk, Steps
    <2>2. s.position + m \in Nat
      BY <1>1, <1>6, <2>1, StreamIs
    <2>3. [s EXCEPT !.position = s.position + m] = MovedTo(s, s.position + m)
      BY <2>2, MovedIs
    <2> QED BY <1>1, <1>2, <1>6, <2>1, <2>3 DEF ReadsOn, Part
  <1>7. Tape(s, o.stream, done)
    BY <1>1, <1>2, <1>3, <1>4, <1>5, <1>6 DEF Tape
  <1> QED BY <1>1, <1>7 DEF Good, done

(* So is a seek,                                                               *)
LEMMA SeekIsGood ==
  ASSUME NEW s, IsStream(s), NEW q \in Nat
  PROVE  Good(s, "seek", q, seek(s, q))
  <1> DEFINE o == seek(s, q)
             done == Ended("seek", q, o)
  <1>1. ~Overruns(s, "seek", q) /\ (Throws(s, "seek", q) <=> s.type # "file" /\ PastEnd(s, 0))
    BY DEF Overruns, Throws, ReadCalls
  <1>2. PastEnd(s, 0) <=> s.position > length(s)
    BY StreamIs DEF PastEnd
  <1> SUFFICES Good(s, "seek", q, o)
    OBVIOUS
  <1>3. CASE s.type # "file" /\ PastEnd(s, 0)
    <2>1. o = Threw(s)
      BY <1>2, <1>3 DEF seek
    <2>2. Good(s, "seek", q, Threw(s))
      BY <1>1, <1>3, ThrewIsGood
    <2> QED BY <2>1, <2>2
  <1>4. CASE ~(s.type # "file" /\ PastEnd(s, 0))
    <2>1. [s EXCEPT !.position = q] = MovedTo(s, q)
      BY MovedIs
    <2>2. o = Returned(MovedTo(s, q), <<>>)
      BY <1>2, <1>4, <2>1 DEF seek
    <2> DEFINE none == <<>>
    <2> HIDE DEF none, o
    <2>3. o = Returned(MovedTo(s, q), none)
      BY <2>2 DEF none
    <2>4. o.stream = MovedTo(s, q) /\ o.thrown = FALSE /\ o.undefined = FALSE
      BY <2>3, ReturnedIs
    <2>5. IsStream(MovedTo(s, q)) /\ MovedTo(s, q).buffer = s.buffer
      BY MovedIsStream DEF MovedTo
    <2>6. done.call = "seek" /\ done.asked = q /\ done.thrown = FALSE /\ done.undefined = FALSE
      BY <2>4, EndedIs
    <2> HIDE DEF done
    <2>7. Tape(s, o.stream, done)
      BY <1>1, <1>4, <2>1, <2>4, <2>5, <2>6 DEF Tape, ReadCalls
    <2> QED BY <2>4, <2>5, <2>7 DEF Good, done
  <1> QED BY <1>3, <1>4

(* and a reset.                                                                *)
LEMMA ResetIsGood ==
  ASSUME NEW s, IsStream(s)
  PROVE  Good(s, "reset", 0, reset(s))
  <1> DEFINE empty == [s EXCEPT !.buffer = <<>>, !.position = 0]
             o == reset(s)
             none == <<>>
             done == Ended("reset", 0, o)
  <1> SUFFICES Good(s, "reset", 0, o)
    OBVIOUS
  <1>1. none \in Seq(Cell) /\ Len(none) = 0 /\ MaxLength \in Nat
    BY StreamsAssumption
  <1>2. ~Overruns(s, "reset", 0) /\ ~Throws(s, "reset", 0)
    BY DEF Overruns, Throws, ReadCalls
  <1> HIDE DEF none
  <1>3. empty = [s EXCEPT !.buffer = none, !.position = 0] /\ o = Returned(empty, none)
    BY DEF none, reset
  <1> DEFINE AllStreams == [type : {"memory", "array", "file"}, buffer : Seq(Cell), position : Nat,
                          modes : SUBSET {"read", "write"}]
  <1>4. s \in AllStreams
    BY DEF IsStream
  <1>5. /\ empty \in AllStreams /\ empty.buffer = none /\ empty.position = 0
        /\ empty.type = s.type /\ empty.modes = s.modes
    BY <1>1, <1>3, <1>4
  <1>6. [s EXCEPT !.buffer = <<>>, !.position = 0] = empty
    OBVIOUS
  <1> HIDE DEF empty, o
  <1>7. IsStream(empty)
    BY <1>1, <1>5 DEF IsStream
  <1>8. o.stream = empty /\ o.thrown = FALSE /\ o.undefined = FALSE
    BY <1>3, ReturnedIs
  <1>9. done.call = "reset" /\ done.asked = 0 /\ done.thrown = FALSE /\ done.undefined = FALSE
    BY <1>8, EndedIs
  <1> HIDE DEF done
  <1>10. Tape(s, o.stream, done)
    BY <1>2, <1>6, <1>8, <1>9 DEF Tape, ReadCalls
  <1> QED BY <1>7, <1>8, <1>10 DEF Good, done

-----------------------------------------------------------------------------
\* The place of the first new line among some bytes.
Without(t, n) == \A i \in 1..n : t[i] # NewLine
FirstEnd(t, e) ==
  /\ e \in 0..Len(t) /\ (e = 0 => Without(t, Len(t))) /\ (e # 0 => t[e] = NewLine /\ Without(t, e - 1))

LEMMA LeastOne ==
  ASSUME NEW I, I \subseteq Nat, I # {}
  PROVE  Min(I) \in I /\ \A x \in I : Min(I) <= x
  <1>1. PICK m \in I : \A x \in I : ~(<<x, m>> \in OpToRel(<, Nat))
    BY WFMin, NatLessThanWellFounded
  <1>2. ASSUME NEW x \in I PROVE m <= x
    <2>1. ~(x < m)
      BY <1>1 DEF OpToRel
    <2> QED BY <2>1
  <1>3. \E y \in I : \A x \in I : y <= x
    BY <1>2
  <1> QED BY <1>3 DEF Min

LEMMA EndIsFirst ==
  ASSUME NEW t \in Seq(Cell)
  PROVE  FirstEnd(t, EndOfLine(t))
  <1> DEFINE n == Len(t)
             I == {i \in 1..n : t[i] = NewLine}
  <1>1. n \in Nat /\ I \subseteq Nat
    BY LenProperties
  <1>2. EndOfLine(t) = IF I # {} THEN Min(I) ELSE 0
    BY DEF EndOfLine, SelectInSeq
  <1>3. CASE I = {}
    <2>1. EndOfLine(t) = 0 /\ Without(t, n)
      BY <1>2, <1>3 DEF Without
    <2> QED BY <1>1, <2>1 DEF FirstEnd
  <1>4. CASE I # {}
    <2> DEFINE e == Min(I)
    <2>1. e \in I /\ \A x \in I : e <= x
      <3> HIDE DEF I
      <3> QED BY <1>1, <1>4, LeastOne
    <2> HIDE DEF e
    <2>2. e \in 1..n /\ t[e] = NewLine
      BY <2>1
    <2>3. \A i \in 1..(e - 1) : t[i] # NewLine
      BY <1>1, <2>1, <2>2
    <2>4. EndOfLine(t) = e
      BY <1>2, <1>4 DEF e
    <2>5. FirstEnd(t, e)
      BY <1>1, <2>2, <2>3 DEF FirstEnd, Without
    <2> QED BY <2>4, <2>5
  <1> QED BY <1>3, <1>4

LEMMA OneEnd ==
  ASSUME NEW t \in Seq(Cell), NEW e, FirstEnd(t, e)
  PROVE  EndOfLine(t) = e
  <1> DEFINE f == EndOfLine(t)
  <1>1. FirstEnd(t, f) /\ Len(t) \in Nat
    BY EndIsFirst, LenProperties
  <1> HIDE DEF f
  <1>2. e \in 0..Len(t) /\ f \in 0..Len(t)
    BY <1>1 DEF FirstEnd
  <1>3. e # 0 => ~(f = 0) /\ ~(e < f)
    BY <1>1, <1>2 DEF FirstEnd, Without
  <1>4. f # 0 => ~(e = 0) /\ ~(f < e)
    BY <1>1, <1>2 DEF FirstEnd, Without
  <1> QED BY <1>2, <1>3, <1>4 DEF f

(* Parts beside one another, and parts of parts.                               *)
LEMMA PartIsSeq ==
  ASSUME NEW t \in Seq(Cell), NEW p \in Nat, NEW n \in Nat, Fit(p, n, t)
  PROVE  /\ Part(t, p, n) \in Seq(Cell) /\ Len(Part(t, p, n)) = n
         /\ \A i \in 1..n : Part(t, p, n)[i] = t[p + i]
  <1>1. SubSeq(t, p + 1, p + n) = [i \in 1..n |-> t[p + i]]
    BY PartOf
  <1>2. SubSeq(t, p + 1, p + n) \in Seq(Cell) /\ Len(SubSeq(t, p + 1, p + n)) = n
    BY PartOf
  <1>3. \A i \in 1..n : SubSeq(t, p + 1, p + n)[i] = t[p + i]
    BY <1>1
  <1> QED BY <1>2, <1>3 DEF Part

LEMMA PartsJoin ==
  ASSUME NEW t \in Seq(Cell), NEW p \in Nat, NEW n \in Nat, NEW m \in Nat, Fit(p, n + m, t)
  PROVE  Part(t, p, n) \o Part(t, p + n, m) = Part(t, p, n + m)
  <1> DEFINE a == Part(t, p, n)
             b == Part(t, p + n, m)
             c == Part(t, p, n + m)
  <1>1. Len(t) \in Nat /\ p + n \in Nat /\ n + m \in Nat /\ Fit(p, n, t) /\ Fit(p + n, m, t)
    BY LenProperties DEF Fit
  <1>2. a \in Seq(Cell) /\ Len(a) = n /\ \A i \in 1..n : a[i] = t[p + i]
    BY <1>1, PartIsSeq
  <1>3. b \in Seq(Cell) /\ Len(b) = m /\ \A i \in 1..m : b[i] = t[p + n + i]
    BY <1>1, PartIsSeq
  <1>4. c \in Seq(Cell) /\ Len(c) = n + m /\ \A i \in 1..(n + m) : c[i] = t[p + i]
    BY <1>1, PartIsSeq
  <1> HIDE DEF a, b, c
  <1>5. a \o b \in Seq(Cell) /\ Len(a \o b) = Len(a) + Len(b)
    BY <1>2, <1>3, ConcatProperties
  <1>6. \A i \in 1..(Len(a) + Len(b)) : (a \o b)[i] = IF i <= Len(a) THEN a[i] ELSE b[i - Len(a)]
    BY <1>2, <1>3, ConcatProperties
  <1>7. ASSUME NEW i \in 1..(n + m) PROVE (a \o b)[i] = c[i]
    <2>1. (a \o b)[i] = IF i <= n THEN a[i] ELSE b[i - n]
      BY <1>2, <1>3, <1>6
    <2>2. c[i] = t[p + i]
      BY <1>4
    <2>3. CASE i <= n
      BY <1>2, <2>1, <2>2, <2>3
    <2>4. CASE ~(i <= n)
      <3>1. i - n \in 1..m /\ p + n + (i - n) = p + i
        BY <2>4
      <3> QED BY <1>3, <2>1, <2>2, <2>4, <3>1
    <2> QED BY <2>3, <2>4
  <1>8. Len(a \o b) = Len(c) /\ \A i \in 1..Len(a \o b) : (a \o b)[i] = c[i]
    BY <1>2, <1>3, <1>4, <1>5, <1>7
  <1>9. a \o b = c
    BY <1>4, <1>5, <1>8, SeqEqual
  <1> QED BY <1>9 DEF a, b, c

LEMMA PartOfPart ==
  ASSUME NEW t \in Seq(Cell), NEW p \in Nat, NEW n \in Nat, NEW k \in 0..n, Fit(p, n, t)
  PROVE  SubSeq(Part(t, p, n), 1, k) = Part(t, p, k)
  <1> DEFINE a == Part(t, p, n)
             b == SubSeq(a, 0 + 1, 0 + k)
             c == Part(t, p, k)
  <1>1. k \in Nat /\ k <= n /\ 0 \in Nat /\ Fit(p, k, t)
    BY LenProperties DEF Fit
  <1>2. a \in Seq(Cell) /\ Len(a) = n /\ \A i \in 1..n : a[i] = t[p + i]
    BY PartIsSeq
  <1>3. c \in Seq(Cell) /\ Len(c) = k /\ \A i \in 1..k : c[i] = t[p + i]
    BY <1>1, PartIsSeq
  <1> HIDE DEF a, c
  <1>4. Fit(0, k, a)
    BY <1>1, <1>2 DEF Fit
  <1>5. b = [i \in 1..k |-> a[0 + i]]
    BY <1>1, <1>2, <1>4, PartOf
  <1>6. b \in Seq(Cell) /\ Len(b) = k
    BY <1>1, <1>2, <1>4, PartOf
  <1>7. \A i \in 1..k : b[i] = c[i]
    BY <1>1, <1>2, <1>3, <1>5
  <1>8. b = c
    <2> HIDE DEF b
    <2> QED BY <1>3, <1>6, <1>7, SeqEqual
  <1>9. 0 + 1 = 1 /\ 0 + k = k
    BY <1>1
  <1> QED BY <1>8, <1>9 DEF a, c


(* What has been read of a line is the line where the bytes end,               *)
Known(t, f, k, text) ==
  /\ t \in Seq(Cell) /\ f \in Nat /\ k \in Nat /\ text \in Seq(Cell) /\ Len(text) = k
  /\ text = Part(t, f, k) /\ Without(text, k) /\ (k = 0 \/ Fit(f, k, t))
LEMMA LineAtEnd ==
  ASSUME NEW t, NEW f, NEW k, NEW text, Known(t, f, k, text), f + k >= Len(t)
  PROVE  Line(SubSeq(t, f + 1, Len(t))) = text
  <1>1. /\ t \in Seq(Cell) /\ f \in Nat /\ k \in Nat /\ text \in Seq(Cell) /\ Len(text) = k
        /\ text = Part(t, f, k) /\ Without(text, k) /\ (k = 0 \/ f + k <= Len(t)) /\ Len(t) \in Nat
    BY LenProperties DEF Known, Fit
  <1>2. SubSeq(t, f + 1, Len(t)) = text
    <2>1. CASE k = 0
      <3>1. text = <<>>
        BY <1>1, <2>1
      <3>2. f + 1 > Len(t)
        BY <1>1, <2>1
      <3>3. SubSeq(t, f + 1, Len(t)) = <<>>
        BY <1>1, <3>2
      <3> QED BY <3>1, <3>3
    <2>2. CASE k # 0
      <3>1. f + k = Len(t)
        BY <1>1, <2>2
      <3> QED BY <1>1, <3>1 DEF Part
    <2> QED BY <2>1, <2>2
  <1>3. FirstEnd(text, 0)
    BY <1>1 DEF FirstEnd
  <1>4. EndOfLine(text) = 0
    BY <1>1, <1>3, OneEnd
  <1> QED BY <1>2, <1>4 DEF Line

(* or at the first new line,                                                   *)
Upto(text, t, p, n, e) == text \o SubSeq(Part(t, p, n), 1, e - 1)
LEMMA LineFound ==
  ASSUME NEW t, NEW f, NEW k, NEW text, Known(t, f, k, text),
         NEW n \in Nat, Fit(f + k, n, t), NEW e \in 1..n, FirstEnd(Part(t, f + k, n), e)
  PROVE  /\ Upto(text, t, f + k, n, e) = Line(SubSeq(t, f + 1, Len(t)))
         /\ Len(Upto(text, t, f + k, n, e)) = k + (e - 1)
  <1> DEFINE p == f + k
             all == Len(t)
             m == all - f
             chunk == Part(t, p, n)
             rest == Part(t, f, m)
  <1>1. /\ t \in Seq(Cell) /\ p \in Nat /\ k \in Nat /\ f \in Nat /\ all \in Nat /\ f + k = p /\ p + n <= all
        /\ text = Part(t, f, k) /\ Without(text, k) /\ text \in Seq(Cell) /\ Len(text) = k
    BY LenProperties DEF Known, Fit
  <1>2. FirstEnd(chunk, e)
    OBVIOUS
  <1> HIDE DEF p, all
  <1>3. m \in Nat /\ f + m = all /\ k + e <= m /\ e \in Nat /\ e - 1 \in Nat /\ e - 1 \in 0..n
    BY <1>1
  <1>4. Fit(f, k, t) /\ Fit(p, n, t) /\ Fit(f, m, t) /\ Fit(f, k + (e - 1), t)
    BY <1>1, <1>3 DEF Fit, all
  <1> HIDE DEF m
  <1>5. Part(t, f, k) \in Seq(Cell) /\ Len(Part(t, f, k)) = k /\ \A i \in 1..k : Part(t, f, k)[i] = t[f + i]
    BY <1>1, <1>4, PartIsSeq
  <1>6. chunk \in Seq(Cell) /\ Len(chunk) = n /\ \A i \in 1..n : chunk[i] = t[p + i]
    BY <1>1, <1>4, PartIsSeq
  <1>7. rest \in Seq(Cell) /\ Len(rest) = m /\ \A i \in 1..m : rest[i] = t[f + i]
    BY <1>1, <1>3, <1>4, PartIsSeq
  <1> HIDE DEF chunk, rest
  <1> DEFINE g == k + e
             h == k + (e - 1)
  <1>8. /\ e \in 1..n /\ e # 0 /\ g \in Nat /\ g # 0 /\ g \in 1..m /\ g \in 0..m /\ h = g - 1 /\ h \in 0..m
        /\ h \in Nat /\ f + g = p + e
    BY <1>1, <1>3
  <1>9. FirstEnd(rest, g)
    <2>1. rest[g] = chunk[e] /\ chunk[e] = NewLine /\ Without(chunk, e - 1)
      <3> HIDE DEF g, h
      <3>1. rest[g] = t[p + e] /\ chunk[e] = t[p + e]
        BY <1>6, <1>7, <1>8
      <3> QED BY <1>2, <1>8, <3>1 DEF FirstEnd
    <2>2. ASSUME NEW i \in 1..(g - 1) PROVE rest[i] # NewLine
      <3>1. rest[i] = t[f + i]
        BY <1>1, <1>3, <1>7
      <3>2. CASE i <= k
        <4>1. i \in 1..k /\ text[i] = t[f + i]
          BY <1>1, <1>5, <3>2
        <4> QED BY <1>1, <1>5, <3>1, <4>1 DEF Without
      <3>3. CASE ~(i <= k)
        <4>1. i - k \in 1..(e - 1) /\ p + (i - k) = f + i /\ i - k \in 1..n
          BY <1>1, <3>3
        <4>2. chunk[i - k] = t[f + i]
          BY <1>6, <4>1
        <4> QED BY <2>1, <3>1, <4>1, <4>2 DEF Without
      <3> QED BY <3>2, <3>3
    <2> HIDE DEF g, h
    <2>3. g \in 0..Len(rest) /\ g # 0
      BY <1>7, <1>8
    <2>4. Without(rest, g - 1)
      BY <2>2 DEF Without
    <2> QED BY <2>1, <2>3, <2>4 DEF FirstEnd
  <1> HIDE DEF g, h
  <1>10. EndOfLine(rest) = g
    BY <1>7, <1>9, OneEnd
  <1>11. Line(rest) = Part(t, f, h)
    <2>1. Line(rest) = SubSeq(rest, 1, h)
      BY <1>8, <1>10 DEF Line
    <2>2. SubSeq(Part(t, f, m), 1, h) = Part(t, f, h)
      BY <1>1, <1>3, <1>4, <1>8, PartOfPart
    <2> QED BY <2>1, <2>2 DEF rest
  <1>12. text \o SubSeq(chunk, 1, e - 1) = Part(t, f, h)
    <2>1. SubSeq(Part(t, p, n), 1, e - 1) = Part(t, p, e - 1)
      BY <1>1, <1>3, <1>4, PartOfPart
    <2> DEFINE d == e - 1
    <2>2. t \in Seq(Cell) /\ f \in Nat /\ k \in Nat /\ d \in Nat /\ Fit(f, k + d, t)
      BY <1>1, <1>3, <1>4
    <2> HIDE DEF d
    <2>3. Part(t, f, k) \o Part(t, f + k, d) = Part(t, f, k + d)
      BY <2>2, PartsJoin, Zenon
    <2> QED BY <1>1, <2>1, <2>3 DEF chunk, h, d
  <1>13. Len(Part(t, f, h)) = h
    <2>1. Fit(f, h, t)
      BY <1>4 DEF h
    <2> QED BY <1>1, <1>8, <2>1, PartIsSeq
  <1>14. SubSeq(t, f + 1, Len(t)) = rest
    BY <1>3 DEF rest, Part, all
  <1> QED BY <1>11, <1>12, <1>13, <1>14 DEF chunk, h, p, Upto

(* and as long as there is none, more of it is known.                          *)
LEMMA LineGoesOn ==
  ASSUME NEW t, NEW f, NEW k, NEW text, Known(t, f, k, text),
         NEW n \in Nat, Fit(f + k, n, t), FirstEnd(Part(t, f + k, n), 0)
  PROVE  Known(t, f, k + n, text \o Part(t, f + k, n))
  <1> DEFINE p == f + k
             chunk == Part(t, p, n)
             both == Part(t, f, k + n)
  <1>1. /\ t \in Seq(Cell) /\ p \in Nat /\ k \in Nat /\ f \in Nat /\ Len(t) \in Nat /\ f + k = p /\ p + n <= Len(t)
        /\ text = Part(t, f, k) /\ Without(text, k) /\ text \in Seq(Cell) /\ Len(text) = k
    BY LenProperties DEF Known, Fit
  <1>2. FirstEnd(chunk, 0)
    OBVIOUS
  <1> HIDE DEF p
  <1>3. k + n \in Nat /\ Fit(p, n, t) /\ Fit(f, k, t) /\ Fit(f, k + n, t)
    BY <1>1 DEF Fit
  <1>4. Part(t, f, k) \in Seq(Cell) /\ Len(Part(t, f, k)) = k /\ \A i \in 1..k : Part(t, f, k)[i] = t[f + i]
    BY <1>1, <1>3, PartIsSeq
  <1>5. chunk \in Seq(Cell) /\ Len(chunk) = n /\ \A i \in 1..n : chunk[i] = t[p + i]
    BY <1>1, <1>3, PartIsSeq
  <1>6. both \in Seq(Cell) /\ Len(both) = k + n /\ \A i \in 1..(k + n) : both[i] = t[f + i]
    BY <1>1, <1>3, PartIsSeq
  <1>7. text \o chunk = both
    <2>1. t \in Seq(Cell) /\ f \in Nat /\ k \in Nat /\ n \in Nat /\ Fit(f, k + n, t)
      BY <1>1, <1>3
    <2>2. Part(t, f, k) \o Part(t, f + k, n) = Part(t, f, k + n)
      BY <2>1, PartsJoin, Zenon
    <2> QED BY <1>1, <2>2
  <1>8. Without(chunk, n)
    BY <1>2, <1>5 DEF FirstEnd
  <1> HIDE DEF chunk, both
  <1>9. Without(both, k + n)
    <2> SUFFICES ASSUME NEW i \in 1..(k + n) PROVE both[i] # NewLine
      BY DEF Without
    <2>1. both[i] = t[f + i]
      BY <1>6
    <2>2. CASE i <= k
      <3>1. i \in 1..k /\ text[i] = t[f + i]
        BY <1>1, <1>4, <2>2
      <3> QED BY <1>1, <1>4, <2>1, <3>1 DEF Without
    <2>3. CASE ~(i <= k)
      <3>1. i - k \in 1..n /\ p + (i - k) = f + i
        BY <1>1, <2>3
      <3>2. chunk[i - k] = t[f + i]
        BY <1>5, <3>1
      <3> QED BY <1>8, <2>1, <3>1, <3>2 DEF Without
    <2> QED BY <2>2, <2>3
  <1>10. Known(t, f, k + n, both)
    <2> DEFINE more == k + n
    <2>1. more \in Nat /\ Len(both) = more /\ Without(both, more) /\ Fit(f, more, t) /\ both = Part(t, f, more)
      BY <1>3, <1>6, <1>9 DEF both
    <2> HIDE DEF more
    <2>2. Known(t, f, more, both)
      BY <1>1, <1>6, <2>1 DEF Known
    <2> QED BY <2>2 DEF more
  <1> QED BY <1>7, <1>10 DEF chunk, p


-----------------------------------------------------------------------------
\* What has been read of a line lies between its beginning and the position; an array's may be behind its end.
LineOK(s, l) ==
  /\ l \in [from : Int, text : Seq(Cell)]
  /\ l # NoLine =>
       /\ InReach(s) /\ Known(s.buffer, l.from, Len(l.text), l.text)
       /\ s.position = l.from + Len(l.text) \/ (s.type = "array" /\ PastEnd(s, 0))
StreamInv ==
  /\ IsStream(stream) /\ LineOK(stream, line) /\ (line # NoLine => last = NoCall)
  /\ last.thrown \in BOOLEAN /\ last.undefined \in BOOLEAN

LEMMA StreamTyped == StreamInv => TypeOK
  <1> SUFFICES ASSUME StreamInv PROVE TypeOK
    OBVIOUS
  <1>1. /\ stream.type \in {"memory", "array", "file"} /\ stream.modes \subseteq {"read", "write"}
        /\ stream.position \in Nat /\ line.from \in Int
        /\ stream.buffer \in Seq(Cell) /\ Len(stream.buffer) <= MaxLength
    BY DEF StreamInv, IsStream, LineOK
  <1>2. stream.buffer \in BoundedSeq(Bytes \cup {Garbage}, MaxLength)
    BY <1>1, StreamsAssumption, Bounded DEF Cell
  <1> QED BY <1>1, <1>2 DEF TypeOK, StreamInv

(* A call that is over and good keeps the invariant and is a step of a tape.   *)
LEMMA CallIsOver ==
  ASSUME NEW call, NEW asked, NEW o, Good(stream, call, asked, o), Over(call, asked, o)
  PROVE  StreamInv' /\ TapeStep
  <1>1. stream' = o.stream /\ line' = NoLine /\ last' = Ended(call, asked, o)
    BY DEF Over, Ended
  <1>2. last'.thrown = o.thrown /\ last'.undefined = o.undefined
    BY <1>1, EndedIs
  <1>3. IsStream(stream') /\ last'.thrown \in BOOLEAN /\ last'.undefined \in BOOLEAN
    BY <1>1, <1>2 DEF Good
  <1>4. NoLine \in [from : Int, text : Seq(Cell)]
    BY DEF NoLine
  <1>5. LineOK(stream', line')
    BY <1>1, <1>4 DEF LineOK
  <1>6. StreamInv'
    BY <1>1, <1>3, <1>5 DEF StreamInv
  <1> QED BY <1>1, <1>6 DEF Good, TapeStep

\* How a line is to end.
Failed == LineFails \/ "read" \notin stream.modes
EndsWell(o) ==
  LET text == Line(SubSeq(stream.buffer, line.from + 1, length(stream)))
      end == line.from + Len(text)
  IN /\ IsStream(o.stream) /\ o.stream.buffer = stream.buffer /\ o.thrown \in BOOLEAN /\ o.undefined \in BOOLEAN
     /\ o.thrown = TRUE \/ o.undefined = TRUE <=> Failed
     /\ ~Failed =>
          /\ o.bytes = text
          /\ o.stream.position = IF end < length(stream) THEN end + 1
                                 ELSE IF stream.type = "array" THEN end + LineBuffer ELSE end
LEMMA LineIsOver ==
  ASSUME NEW o, EndsWell(o), LineOver(o)
  PROVE  StreamInv' /\ TapeStep /\ LineEnds
  <1> DEFINE done == Ended("read_line", LineBuffer, o)
  <1>1. Over("read_line", LineBuffer, o)
    BY DEF LineOver
  <1>2. stream' = o.stream /\ last' = done
    BY <1>1 DEF Over, Ended
  <1>3. done.call = "read_line" /\ done.bytes = o.bytes /\ done.thrown = o.thrown /\ done.undefined = o.undefined
    BY EndedIs
  <1> HIDE DEF done
  <1>4. Tape(stream, o.stream, done)
    BY <1>3 DEF Tape, EndsWell, ReadCalls
  <1>5. Good(stream, "read_line", LineBuffer, o)
    BY <1>4 DEF Good, EndsWell, done
  <1>6. LineEnds
    BY <1>2, <1>3 DEF LineEnds, EndsWell, Failed
  <1> QED BY <1>1, <1>5, <1>6, CallIsOver

(* Going back to the byte behind the new line.                                 *)
Back(s, q, told) == [seek(s, q) EXCEPT !.bytes = IF seek(s, q).thrown THEN @ ELSE told]
WentBack(s, q, told, o) ==
  IF s.type # "file" /\ PastEnd(s, 0) THEN o.thrown = TRUE /\ o.undefined = FALSE /\ o.stream = s
  ELSE o.thrown = FALSE /\ o.undefined = FALSE /\ o.stream = MovedTo(s, q) /\ o.bytes = told
LEMMA GoesBack ==
  ASSUME NEW s, IsStream(s), NEW q \in Nat, NEW told
  PROVE  WentBack(s, q, told, Back(s, q, told))
  <1> DEFINE back == seek(s, q)
             none == <<>>
             there == MovedTo(s, q)
             text == IF back.thrown THEN back.bytes ELSE told
             o == [back EXCEPT !.bytes = text]
             refused == s.type # "file" /\ PastEnd(s, 0)
             Outcome == [stream : {s, there}, bytes : {none, told}, thrown : BOOLEAN, undefined : {FALSE}]
  <1>1. PastEnd(s, 0) <=> s.position > length(s)
    BY StreamIs DEF PastEnd
  <1>2. [s EXCEPT !.position = q] = there
    BY MovedIs
  <1>3. back = IF refused THEN Threw(s) ELSE Returned(there, none)
    BY <1>1, <1>2 DEF seek
  <1>4. /\ Threw(s).stream = s /\ Threw(s).bytes = none /\ Threw(s).thrown = TRUE
        /\ Returned(there, none).stream = there /\ Returned(there, none).bytes = none /\ Returned(there, none).thrown = FALSE
    <2> HIDE DEF there
    <2>1. Threw(s).stream = s /\ Threw(s).bytes = none /\ Threw(s).thrown = TRUE
      BY ThrewIs
    <2> HIDE DEF none
    <2>2. /\ Returned(there, none).stream = there /\ Returned(there, none).bytes = none
          /\ Returned(there, none).thrown = FALSE
      BY ReturnedIs
    <2> QED BY <2>1, <2>2
  <1>5. Threw(s) \in Outcome /\ Returned(there, none) \in Outcome
    <2> HIDE DEF none, there
    <2>1. Returned(there, none) \in Outcome /\ Returned(s, none) \in Outcome
      BY DEF Returned
    <2>2. Threw(s) = [Returned(s, none) EXCEPT !.thrown = TRUE]
      BY DEF Threw, none
    <2> HIDE DEF Outcome
    <2>3. [Returned(s, none) EXCEPT !.thrown = TRUE] \in Outcome
      BY <2>1 DEF Outcome
    <2> QED BY <2>1, <2>2, <2>3
  <1> HIDE DEF back, none, there, refused
  <1>6. back \in Outcome /\ back.thrown = refused /\ back.stream = (IF refused THEN s ELSE there) /\ back.bytes = none
    BY <1>3, <1>4, <1>5 DEF refused
  <1>7. text \in {none, told} /\ (~refused => text = told)
    BY <1>6
  <1> HIDE DEF text
  <1>8. o \in Outcome /\ o.bytes = text /\ o.stream = back.stream /\ o.thrown = back.thrown
    BY <1>6, <1>7
  <1> HIDE DEF o
  <1>9. o.undefined = FALSE
    BY <1>8
  <1>10. IF refused THEN o.thrown = TRUE /\ o.undefined = FALSE /\ o.stream = s
         ELSE o.thrown = FALSE /\ o.undefined = FALSE /\ o.stream = there /\ o.bytes = told
    BY <1>6, <1>7, <1>8, <1>9 DEF refused
  <1>11. Back(s, q, told) = o
    BY DEF Back, o, text, back
  <1> QED BY <1>10, <1>11 DEF WentBack, refused, there


(* Where nothing is called, the bytes stay.                                    *)
LEMMA NothingCalled ==
  ASSUME NEW s, NEW t, t.buffer = s.buffer
  PROVE  Tape(s, t, NoCall)
  <1>1. NoCall.call = "none" /\ NoCall.asked = 0 /\ NoCall.thrown = FALSE /\ NoCall.undefined = FALSE
    BY DEF NoCall
  <1>2. ~Throws(s, "none", 0) /\ ~Overruns(s, "none", 0)
    BY DEF Throws, Overruns, ReadCalls
  <1> QED BY <1>1, <1>2 DEF Tape, ReadCalls

LEMMA MovedFields ==
  ASSUME NEW s, NEW q
  PROVE  /\ MovedTo(s, q).position = q /\ MovedTo(s, q).buffer = s.buffer
         /\ MovedTo(s, q).type = s.type /\ MovedTo(s, q).modes = s.modes
  BY DEF MovedTo

(* Reading a line goes on until it is over, and ends well.                     *)
LEMMA LineContinues ==
  ASSUME StreamInv, ContinueLine
  PROVE  StreamInv' /\ TapeStep /\ LineEnds
  <1> DEFINE s == stream
             p == s.position
             t == s.buffer
             all == Len(t)
             f == line.from
             k == Len(line.text)
             c == Chunk(s, LineBuffer, TRUE)
             m == Steps(s, LineBuffer, TRUE)
             chunk == read(s, LineBuffer, TRUE)
             e == EndOfLine(chunk.bytes)
             q == chunk.stream.position - Len(chunk.bytes) + e
             told == line.text \o SubSeq(chunk.bytes, 1, e - 1)
  <1>1. IsStream(s) /\ LineOK(s, line) /\ line # NoLine /\ last = NoCall /\ LineBuffer \in Nat /\ LineBuffer > 0
    BY StreamsAssumption DEF StreamInv, ContinueLine
  <1>2. /\ p \in Nat /\ t \in Seq(Cell) /\ all \in Nat /\ all <= MaxLength /\ length(s) = all
        /\ s.type \in {"memory", "array", "file"} /\ (s.type # "file" => "read" \in s.modes)
    BY <1>1, StreamIs
  <1>3. /\ InReach(s) /\ Known(t, f, k, line.text)
        /\ (p = f + k \/ (s.type = "array" /\ PastEnd(s, 0)))
        /\ f \in Nat /\ k \in Nat /\ line.text \in Seq(Cell) /\ line \in [from : Int, text : Seq(Cell)]
    BY <1>1 DEF LineOK, Known
  <1>4. /\ IsStream(chunk.stream) /\ chunk.stream.buffer = t /\ chunk.thrown \in BOOLEAN /\ chunk.undefined \in BOOLEAN
        /\ chunk.thrown = TRUE <=> Refuses(s, LineBuffer, TRUE)
        /\ chunk.undefined = TRUE <=> Spills(s, LineBuffer, TRUE)
        /\ (chunk.thrown = FALSE /\ chunk.undefined = FALSE) =>
             /\ chunk.stream = MovedTo(s, p + m) /\ c \in 0..LineBuffer /\ Fits(s, c)
             /\ chunk.bytes = Part(t, p, c) /\ Len(chunk.bytes) = c /\ chunk.bytes \in Seq(Cell)
    <2>1. TRUE \in BOOLEAN
      OBVIOUS
    <2>2. IsStream(s) /\ InReach(s) /\ LineBuffer \in Nat
      BY <1>1, <1>3
    <2> HIDE DEF s
    <2> QED BY <2>1, <2>2, Reads, Zenon
  <1>5. /\ PastEnd(s, LineBuffer) <=> p + LineBuffer > all
        /\ PastEnd(s, 0) <=> p > all
    BY <1>2 DEF PastEnd
  <1>6. LineFails <=> s.type # "file" /\ p + LineBuffer > all /\ ~(s.type = "array" /\ p = all)
    BY <1>2, <1>5 DEF LineFails
  <1>7. /\ Left(s) = IF p > all THEN 0 ELSE all - p
        /\ c = IF LineBuffer < Left(s) THEN LineBuffer ELSE Left(s)
        /\ m = IF s.type = "file" THEN c ELSE LineBuffer
    BY <1>1, ChunkFits DEF Chunk, Min2, Steps
  <1>8. \/ (chunk.thrown \/ chunk.undefined) /\ LineOver(chunk)
        \/ ~chunk.thrown /\ ~chunk.undefined /\ chunk.bytes = <<>> /\ LineOver(Returned(chunk.stream, line.text))
        \/ /\ ~chunk.thrown /\ ~chunk.undefined /\ chunk.bytes # <<>> /\ e = 0
           /\ stream' = chunk.stream /\ line' = [line EXCEPT !.text = @ \o chunk.bytes] /\ UNCHANGED last
        \/ /\ ~chunk.thrown /\ ~chunk.undefined /\ e # 0
           /\ LineOver([seek(chunk.stream, q) EXCEPT !.bytes = IF seek(chunk.stream, q).thrown THEN @ ELSE told])
    BY DEF ContinueLine
  <1> HIDE DEF chunk, c, m, e, q, told, p, t, all, f, k
  <1>9. CASE (chunk.thrown \/ chunk.undefined) /\ LineOver(chunk)
    <2>1. chunk.thrown = TRUE \/ chunk.undefined = TRUE
      BY <1>4, <1>9
    <2>2. Failed
      BY <1>1, <1>2, <1>4, <1>5, <1>6, <2>1 DEF Failed, Refuses, Spills
    <2>3. EndsWell(chunk)
      BY <1>4, <2>1, <2>2 DEF EndsWell, t
    <2> QED BY <1>9, <2>3, LineIsOver
  <1> DEFINE Whole == chunk.thrown = FALSE /\ chunk.undefined = FALSE
  <1>10. ASSUME Whole
         PROVE  /\ chunk.stream = MovedTo(s, p + m) /\ c \in 0..LineBuffer /\ Fits(s, c)
                /\ chunk.bytes = Part(t, p, c) /\ Len(chunk.bytes) = c /\ chunk.bytes \in Seq(Cell)
                /\ "read" \in s.modes
                /\ (s.type = "memory" => p + LineBuffer <= all) /\ (s.type = "array" => p <= all)
                /\ p = f + k /\ m \in Nat /\ c \in Nat
    BY <1>1, <1>2, <1>3, <1>4, <1>5, <1>7, <1>10 DEF Refuses, Spills
  <1>11. CASE Whole /\ chunk.bytes = <<>> /\ LineOver(Returned(chunk.stream, line.text))
    <2>0. /\ chunk.stream = MovedTo(s, p + m) /\ Len(chunk.bytes) = c /\ "read" \in s.modes
          /\ (s.type = "memory" => p + LineBuffer <= all) /\ (s.type = "array" => p <= all)
          /\ p = f + k /\ m \in Nat /\ c \in Nat
      BY <1>10, <1>11
    <2> DEFINE w == chunk.stream
               text == line.text
               o == Returned(w, text)
    <2> HIDE DEF w, text
    <2>1. o.stream = w /\ o.bytes = text /\ o.thrown = FALSE /\ o.undefined = FALSE
      BY ReturnedIs
    <2> HIDE DEF Whole, o
    <2>2. c = 0 /\ p >= all
      <3>1. c = 0
        BY <1>11, <2>0
      <3> QED BY <1>1, <1>2, <1>7, <3>1
    <2>3. s.type # "memory" /\ (s.type = "array" => p = all)
      BY <1>1, <1>2, <2>0, <2>2
    <2>4. ~Failed
      BY <1>2, <1>6, <2>0, <2>3 DEF Failed
    <2>5. Line(SubSeq(t, f + 1, all)) = line.text
      <3>1. f + k >= Len(t)
        BY <2>0, <2>2 DEF all
      <3>2. Known(t, f, k, line.text)
        BY <1>3
      <3> QED BY <3>1, <3>2, LineAtEnd, Zenon DEF all
    <2>6. w.position = p + m
      BY <2>0, MovedFields DEF w
    <2>7. p + m = IF f + k < all THEN f + k + 1 ELSE IF s.type = "array" THEN f + k + LineBuffer ELSE f + k
      <3>1. p >= all /\ p = f + k /\ m = IF s.type = "array" THEN LineBuffer ELSE 0
        BY <1>2, <1>7, <1>11, <2>0, <2>2, <2>3
      <3> QED BY <1>1, <1>2, <3>1
    <2>8. EndsWell(o)
      <3>1. line.from = f /\ Len(line.text) = k /\ stream.buffer = t /\ length(stream) = all
        BY <1>2 DEF f, k, t
      <3>2. o.stream.position = IF f + k < all THEN f + k + 1 ELSE IF s.type = "array" THEN f + k + LineBuffer ELSE f + k
        BY <2>1, <2>6, <2>7
      <3> QED BY <1>4, <2>1, <2>4, <2>5, <3>1, <3>2 DEF EndsWell, w, text
    <2> QED BY <1>11, <2>8, LineIsOver DEF o, w, text
  <1>12. CASE /\ Whole /\ chunk.bytes # <<>> /\ e = 0
              /\ stream' = chunk.stream /\ line' = [line EXCEPT !.text = @ \o chunk.bytes] /\ UNCHANGED last
    <2>1. /\ chunk.stream = MovedTo(s, p + m) /\ c \in 0..LineBuffer /\ Fits(s, c)
          /\ chunk.bytes = Part(t, p, c) /\ Len(chunk.bytes) = c /\ chunk.bytes \in Seq(Cell)
          /\ (s.type = "memory" => p + LineBuffer <= all) /\ (s.type = "array" => p <= all)
          /\ p = f + k /\ m \in Nat /\ c \in Nat
      BY <1>10, <1>12
    <2>2. c # 0
      BY <1>12, <2>1
    <2>3. p + c <= all
      BY <2>1, <2>2 DEF Fits, p, all, t
    <2>4. FirstEnd(chunk.bytes, 0)
      BY <1>12, <2>1, EndIsFirst DEF e
    <2> DEFINE text == line.text \o chunk.bytes
               l == [line EXCEPT !.text = @ \o chunk.bytes]
               moved == MovedTo(s, p + m)
    <2>5. Known(t, f, k + c, text)
      <3>1. Fit(f + k, c, t) /\ FirstEnd(Part(t, f + k, c), 0) /\ Known(t, f, k, line.text) /\ c \in Nat
        BY <1>3, <2>1, <2>3, <2>4 DEF Fit, all
      <3>2. Known(t, f, k + c, line.text \o Part(t, f + k, c))
        BY <3>1, LineGoesOn, Zenon
      <3> QED BY <2>1, <3>2
    <2>6. text \in Seq(Cell) /\ Len(text) = k + c /\ f \in Int
      BY <1>3, <2>5 DEF Known
    <2>8. l \in [from : Int, text : Seq(Cell)] /\ l.from = f /\ l.text = text
      <3> HIDE DEF text
      <3>1. l = [line EXCEPT !.text = text]
        BY DEF text
      <3> HIDE DEF l
      <3> QED BY <1>3, <2>6, <3>1 DEF f
    <2> HIDE DEF l, text, moved
    <2>9. moved.position = p + m /\ moved.buffer = t /\ moved.type = s.type
      BY MovedFields DEF moved, t
    <2>10. length(moved) = all
      BY <2>9 DEF length, all
    <2>11. InReach(moved) /\ (p + m = f + (k + c) \/ (s.type = "array" /\ p + m > all))
      <3>1. MaxLength \in Nat
        BY StreamsAssumption
      <3>2. p + m <= MaxLength + LineBuffer
        BY <1>1, <1>2, <1>7, <2>1, <2>3, <3>1
      <3>3. p + m = f + (k + c) \/ (s.type = "array" /\ p + m > all)
        <4>1. CASE s.type = "file"
          <5>1. m = c
            BY <1>7, <4>1
          <5> QED BY <1>3, <2>1, <5>1
        <4>2. CASE s.type # "file"
          <5>1. m = LineBuffer /\ p <= all /\ Left(s) = all - p
            BY <1>2, <1>7, <2>1, <2>3, <4>2
          <5>2. c = LineBuffer \/ (c = all - p /\ ~(LineBuffer < all - p))
            BY <1>7, <5>1
          <5>3. p + LineBuffer <= all => c = LineBuffer
            BY <1>1, <1>2, <5>1, <5>2
          <5>4. s.type = "memory" \/ s.type = "array"
            BY <1>2, <4>2
          <5>5. c = LineBuffer \/ (s.type = "array" /\ p + LineBuffer > all)
            BY <1>1, <1>2, <2>1, <5>3, <5>4
          <5> QED BY <1>1, <1>2, <1>3, <2>1, <5>1, <5>5
        <4> QED BY <4>1, <4>2
      <3> QED BY <2>9, <3>2, <3>3 DEF InReach
    <2>12. PastEnd(moved, 0) <=> p + m > all
      BY <1>2, <2>1, <2>9, <2>10 DEF PastEnd
    <2>13. LineOK(moved, l)
      BY <2>5, <2>6, <2>8, <2>9, <2>11, <2>12 DEF LineOK
    <2>14. stream' = moved /\ line' = l /\ last' = NoCall
      BY <1>1, <1>12, <2>1 DEF l, moved
    <2>15. IsStream(moved)
      BY <1>4, <2>1 DEF moved
    <2>16. StreamInv'
      BY <2>13, <2>14, <2>15 DEF StreamInv, NoCall
    <2>17. TapeStep
      BY <2>9, <2>14, NothingCalled DEF TapeStep, t
    <2>18. LineEnds
      BY <1>3, <2>8, <2>14 DEF LineEnds, NoLine
    <2> QED BY <2>16, <2>17, <2>18
  <1>13. CASE /\ Whole /\ e # 0
              /\ LineOver([seek(chunk.stream, q) EXCEPT !.bytes = IF seek(chunk.stream, q).thrown THEN @ ELSE told])
    <2>1. /\ chunk.stream = MovedTo(s, p + m) /\ c \in 0..LineBuffer /\ Fits(s, c) /\ "read" \in s.modes
          /\ chunk.bytes = Part(t, p, c) /\ Len(chunk.bytes) = c /\ chunk.bytes \in Seq(Cell)
          /\ (s.type = "memory" => p + LineBuffer <= all) /\ (s.type = "array" => p <= all)
          /\ p = f + k /\ m \in Nat /\ c \in Nat
      BY <1>10, <1>13
    <2>2. FirstEnd(chunk.bytes, e)
      BY <2>1, EndIsFirst DEF e
    <2>3. e \in 1..c
      BY <1>13, <2>1, <2>2 DEF FirstEnd
    <2>4. p + c <= all /\ e - 1 \in Nat
      BY <2>1, <2>3 DEF Fits, p, all, t
    <2> DEFINE w == chunk.stream
               o == Back(w, q, told)
    <2>5. w.position = p + m /\ w.buffer = t /\ w.type = s.type
      BY <2>1, MovedFields DEF t
    <2>6. length(w) = all
      BY <2>5 DEF length, all
    <2>7. q = p + m - c + e /\ q \in Nat /\ (PastEnd(w, 0) <=> p + m > all)
      <3>1. c <= m
        BY <1>7, <2>1
      <3>2. q = p + m - c + e
        BY <2>1, <2>5 DEF q
      <3>3. PastEnd(w, 0) <=> p + m > all
        BY <1>2, <2>1, <2>5, <2>6 DEF PastEnd
      <3> HIDE DEF w
      <3> QED BY <1>2, <2>1, <2>3, <3>1, <3>2, <3>3
    <2>8. IsStream(w)
      BY <1>4
    <2>9. IF w.type # "file" /\ PastEnd(w, 0) THEN o.thrown = TRUE /\ o.undefined = FALSE /\ o.stream = w
          ELSE o.thrown = FALSE /\ o.undefined = FALSE /\ o.stream = MovedTo(w, q) /\ o.bytes = told
      <3> HIDE DEF w
      <3>1. q \in Nat
        BY <2>7
      <3>2. o = Back(w, q, told)
        OBVIOUS
      <3> HIDE DEF o
      <3>3. WentBack(w, q, told, o)
        BY <2>8, <3>1, <3>2, GoesBack
      <3> QED BY <3>3 DEF WentBack
    <2>10. LineOver(o)
      BY <1>13 DEF Back
    <2> HIDE DEF o, w
    <2>11. CASE s.type # "file" /\ p + m > all
      <3>1. o.thrown = TRUE /\ o.undefined = FALSE /\ o.stream = w
        BY <2>5, <2>7, <2>9, <2>11
      <3>2. Failed
        <4>1. m = LineBuffer
          BY <1>7, <2>11
        <4>2. p < all /\ p + LineBuffer > all
          BY <1>1, <1>2, <2>1, <2>3, <2>4, <2>11, <4>1
        <4> QED BY <1>2, <1>6, <2>11, <4>2 DEF Failed
      <3>3. EndsWell(o)
        BY <2>5, <2>8, <3>1, <3>2 DEF EndsWell, t
      <3> QED BY <2>10, <3>3, LineIsOver
    <2>12. CASE ~(s.type # "file" /\ p + m > all)
      <3>1. o.thrown = FALSE /\ o.undefined = FALSE /\ o.stream = MovedTo(w, q) /\ o.bytes = told
        BY <2>5, <2>7, <2>9, <2>12
      <3>2. m = c /\ q = p + e /\ ~Failed
        <4>1. s.type # "file" => p + LineBuffer <= all /\ m = LineBuffer
          BY <1>1, <1>2, <1>7, <2>12
        <4>2. m = c
          BY <1>1, <1>2, <1>7, <2>1, <2>4, <4>1
        <4>3. ~Failed
          BY <1>1, <1>2, <1>6, <2>1, <4>1 DEF Failed
        <4> QED BY <1>2, <2>1, <2>3, <2>7, <4>2, <4>3
      <3>3. told = Line(SubSeq(t, f + 1, all)) /\ Len(told) = k + (e - 1)
        <4>1. /\ Known(t, f, k, line.text) /\ c \in Nat /\ Fit(f + k, c, t) /\ e \in 1..c
              /\ FirstEnd(Part(t, f + k, c), e)
          BY <1>3, <2>1, <2>2, <2>3, <2>4 DEF Fit, all
        <4> DEFINE text == line.text
        <4> HIDE DEF text
        <4>2. Known(t, f, k, text)
          BY <4>1 DEF text
        <4>3. /\ Upto(text, t, f + k, c, e) = Line(SubSeq(t, f + 1, Len(t)))
              /\ Len(Upto(text, t, f + k, c, e)) = k + (e - 1)
          BY <4>1, <4>2, LineFound
        <4> QED BY <2>1, <4>3 DEF told, all, text, Upto
      <3>4. IsStream(MovedTo(w, q)) /\ MovedTo(w, q).position = q /\ MovedTo(w, q).buffer = t
        BY <2>5, <2>7, <2>8, MovedIsStream, MovedFields
      <3> DEFINE d == k + (e - 1)
      <3>5. f + d < all /\ q = f + d + 1
        BY <1>2, <1>3, <2>1, <2>3, <2>4, <3>2
      <3> HIDE DEF d
      <3>6. line.from = f /\ stream.buffer = t /\ length(stream) = all /\ Len(told) = d
        BY <1>2, <3>3 DEF f, t, d
      <3>7. EndsWell(o)
        BY <3>1, <3>2, <3>3, <3>4, <3>5, <3>6 DEF EndsWell
      <3> QED BY <2>10, <3>7, LineIsOver
    <2> QED BY <2>11, <2>12
  <1>14. chunk.thrown \in BOOLEAN /\ chunk.undefined \in BOOLEAN
    BY <1>4
  <1> HIDE DEF Whole
  <1>15. ~chunk.thrown /\ ~chunk.undefined => Whole
    BY <1>14 DEF Whole
  <1> QED BY <1>8, <1>9, <1>11, <1>12, <1>13, <1>15


(* A stream is opened at its beginning.                                        *)
LEMMA Opened == Init => StreamInv
  <1> SUFFICES ASSUME Init PROVE StreamInv
    OBVIOUS
  <1>1. LineOK(stream, line) /\ last = NoCall /\ last.thrown \in BOOLEAN /\ last.undefined \in BOOLEAN
    BY DEF Init, LineOK, NoLine, NoCall
  <1>2. <<>> \in Seq(Cell) /\ Len(<<>>) = 0 /\ MaxLength \in Nat
    BY StreamsAssumption
  <1>3. ASSUME NEW bytes \in Contents PROVE bytes \in Seq(Cell) /\ Len(bytes) <= MaxLength /\ Len(bytes) \in Nat
    <2>1. bytes \in Seq(Bytes) /\ Len(bytes) <= MaxLength
      BY <1>2, Bounded DEF Contents
    <2> QED BY <2>1, LenProperties DEF Cell
  <1>4. ASSUME stream = NewMemory PROVE IsStream(stream)
    BY <1>2, <1>4 DEF NewMemory, IsStream
  <1>5. ASSUME NEW bytes \in Contents, NEW isReadOnly \in BOOLEAN, stream = NewArray(bytes, isReadOnly) PROVE IsStream(stream)
    BY <1>3, <1>5 DEF NewArray, IsStream
  <1>6. ASSUME NEW bytes \in Contents, NEW modes \in {{"read"}, {"write"}}, stream = NewFile(bytes, modes)
        PROVE  IsStream(stream)
    <2>1. modes \in SUBSET {"read", "write"}
      OBVIOUS
    <2>2. CASE "write" \in modes
      BY <1>2, <1>6, <2>1, <2>2 DEF NewFile, IsStream
    <2>3. CASE "write" \notin modes
      BY <1>3, <1>6, <2>1, <2>3 DEF NewFile, IsStream
    <2> QED BY <2>2, <2>3
  <1>7. IsStream(stream)
    <2>1. \/ stream = NewMemory
          \/ \E bytes \in Contents, isReadOnly \in BOOLEAN : stream = NewArray(bytes, isReadOnly)
          \/ \E bytes \in Contents, modes \in {{"read"}, {"write"}} : stream = NewFile(bytes, modes)
      <3>1. stream \in {NewMemory} \cup {NewArray(bytes, isReadOnly) : bytes \in Contents, isReadOnly \in BOOLEAN}
                        \cup {NewFile(bytes, modes) : bytes \in Contents, modes \in {{"read"}, {"write"}}}
        BY DEF Init
      <3> QED BY <3>1, SMT
    <2> QED BY <1>4, <1>5, <1>6, <2>1, Zenon
  <1> QED BY <1>1, <1>7 DEF StreamInv

(* Whatever a program does next keeps the invariant, and is a step of a tape   *)
(* and of a reader of lines.                                                   *)
LEMMA StreamsGoOn ==
  ASSUME StreamInv, [Next]_callVars
  PROVE  StreamInv' /\ [TapeStep]_callVars /\ [LineEnds]_callVars
  <1>1. /\ IsStream(stream) /\ stream.position \in Nat /\ Len(stream.buffer) \in Nat
        /\ length(stream) = Len(stream.buffer) /\ TRUE \in BOOLEAN /\ FALSE \in BOOLEAN
    BY StreamIs DEF StreamInv
  <1>2. ASSUME NEW call, NEW asked, NEW o, Good(stream, call, asked, o), Call(call, asked, o)
        PROVE  StreamInv' /\ TapeStep /\ LineEnds
    <2>1. Over(call, asked, o) /\ line = NoLine
      BY <1>2 DEF Call, MayCall
    <2>2. StreamInv' /\ TapeStep
      BY <1>2, <2>1, CallIsOver
    <2> QED BY <2>1, <2>2 DEF LineEnds
  <1>3. ASSUME MayCall PROVE InReach(stream)
    BY <1>3 DEF MayCall, InReach
  <1>4. CASE Write
    <2>1. PICK bytes \in BoundedSeq(Bytes, 2) :
            stream.position + Len(bytes) <= MaxLength /\ Call("write", Len(bytes), write(stream, bytes))
      BY <1>4 DEF Write
    <2>2. bytes \in Seq(Bytes)
      BY Bounded
    <2>3. Good(stream, "write", Len(bytes), write(stream, bytes))
      BY <1>1, <2>1, <2>2, WriteIsGood
    <2> QED BY <1>2, <2>1, <2>3
  <1>5. CASE Read
    <2>1. PICK size \in 1..2 : Call("read", size, read(stream, size, FALSE))
      BY <1>5 DEF Read
    <2>2. /\ IsStream(stream) /\ InReach(stream) /\ size \in Nat /\ FALSE \in BOOLEAN /\ "read" \in ReadCalls
          /\ FALSE = TRUE <=> "read" = "read_partial"
      BY <1>1, <1>3, <2>1 DEF Call, ReadCalls
    <2>3. Good(stream, "read", size, read(stream, size, FALSE))
      BY <2>2, ReadIsGood, Zenon
    <2> QED BY <1>2, <2>1, <2>3
  <1>6. CASE ReadPartial
    <2>1. PICK size \in 1..2 : Call("read_partial", size, read(stream, size, TRUE))
      BY <1>6 DEF ReadPartial
    <2>2. /\ IsStream(stream) /\ InReach(stream) /\ size \in Nat /\ TRUE \in BOOLEAN /\ "read_partial" \in ReadCalls
          /\ TRUE = TRUE <=> "read_partial" = "read_partial"
      BY <1>1, <1>3, <2>1 DEF Call, ReadCalls
    <2>3. Good(stream, "read_partial", size, read(stream, size, TRUE))
      BY <2>2, ReadIsGood, Zenon
    <2> QED BY <1>2, <2>1, <2>3
  <1>7. CASE Seek
    <2>1. PICK position \in 0..MaxLength : Call("seek", position, seek(stream, position))
      BY <1>7 DEF Seek
    <2>2. position \in Nat
      BY StreamsAssumption
    <2>3. Good(stream, "seek", position, seek(stream, position))
      BY <1>1, <2>2, SeekIsGood
    <2> QED BY <1>2, <2>1, <2>3
  <1>8. CASE BeginLine
    <2>1. /\ InReach(stream) /\ line = NoLine /\ stream' = stream /\ last' = NoCall
          /\ line' = [from |-> stream.position, text |-> <<>>]
      BY <1>3, <1>8 DEF BeginLine, MayCall
    <2>2. Known(stream.buffer, stream.position, 0, <<>>)
      <3> DEFINE t == stream.buffer
                 p == stream.position
      <3>1. t \in Seq(Cell) /\ p \in Nat /\ <<>> \in Seq(Cell) /\ Len(<<>>) = 0 /\ 0 \in Nat
        BY <1>1, StreamIs
      <3> HIDE DEF t, p
      <3>2. Part(t, p, 0) = <<>>
        BY <3>1, NoPart DEF Part
      <3>3. Known(t, p, 0, <<>>)
        BY <3>1, <3>2 DEF Known, Without
      <3> QED BY <3>3 DEF t, p
    <2>3. line'.from = stream.position /\ line'.text = <<>> /\ Len(line'.text) = 0
      BY <2>1
    <2>4. line' \in [from : Int, text : Seq(Cell)]
      BY <1>1, <2>1
    <2>5. LineOK(stream, line')
      BY <1>1, <2>1, <2>2, <2>3, <2>4 DEF LineOK
    <2>6. StreamInv'
      BY <1>1, <2>1, <2>5 DEF StreamInv, NoCall
    <2>7. TapeStep
      BY <2>1, NothingCalled DEF TapeStep
    <2>8. LineEnds
      BY <2>1 DEF LineEnds
    <2> QED BY <2>6, <2>7, <2>8
  <1>9. CASE ContinueLine
    BY <1>9, LineContinues
  <1>10. CASE ReadToEnd
    <2> DEFINE size == length(stream)
    <2>1. Call("read_to_end", size, read(stream, size, FALSE))
      BY <1>10 DEF ReadToEnd, read_to_end
    <2>2. /\ IsStream(stream) /\ InReach(stream) /\ size \in Nat /\ FALSE \in BOOLEAN /\ "read_to_end" \in ReadCalls
          /\ FALSE = TRUE <=> "read_to_end" = "read_partial"
      BY <1>1, <1>3, <2>1 DEF Call, ReadCalls
    <2> HIDE DEF size
    <2>3. Good(stream, "read_to_end", size, read(stream, size, FALSE))
      BY <2>2, ReadIsGood, Zenon
    <2> QED BY <1>2, <2>1, <2>3
  <1>11. CASE Reset
    <2>1. Good(stream, "reset", 0, reset(stream))
      BY <1>1, ResetIsGood
    <2> QED BY <1>2, <1>11, <2>1 DEF Reset
  <1>12. CASE UNCHANGED callVars
    BY <1>12 DEF callVars, StreamInv
  <1> QED BY <1>4, <1>5, <1>6, <1>7, <1>8, <1>9, <1>10, <1>11, <1>12 DEF Next

(* Whatever a program writes, reads, seeks and reads in lines, at the end of a *)
(* stream and behind it: every stream is a tape, throwing and reading foreign  *)
(* memory exactly where that says so, and a line is read whole or fails there, *)
(* whatever the bytes, the lengths and the line buffer.                        *)
THEOREM StreamsHold == Spec => StreamsAreTapes
  <1>1. StreamInv /\ [Next]_callVars => StreamInv' /\ [TapeStep]_callVars /\ [LineEnds]_callVars
    BY StreamsGoOn
  <1> QED BY <1>1, Opened, StreamTyped, PTL DEF Spec, StreamsAreTapes, IsTape, ReadsLines
=============================================================================
