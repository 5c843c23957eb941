------------------------------- MODULE FileIO -------------------------------
(***************************************************************************)
(* Storage/FileIO.cpp: whole files and text files. A file is a sequence of *)
(* bytes; what may be missing is <<>> or a sequence of one.                *)
(***************************************************************************)
EXTENDS Streams

Absent == <<>>

Utf8Bom == <<239, 187, 191>>
Utf16Bom == <<255, 254>>

read_file(file) == read_to_end(NewFile(file, {"read"}))
write_file(bytes) == write(NewFile(<<>>, {"write"}), bytes).stream.buffer

\* The encoding of a text file and the stream behind its mark: four bytes are read, or the read throws.
get_text_encoding(stream) ==
  LET bom == read(stream, 4, FALSE)
      at(n) == seek(bom.stream, stream.position + n).stream
  IN CASE bom.thrown -> Absent
       [] ~bom.thrown /\ SubSeq(bom.bytes, 1, 3) = Utf8Bom -> <<[encoding |-> "utf8", stream |-> at(3)]>>
       [] ~bom.thrown /\ SubSeq(bom.bytes, 1, 2) = Utf16Bom -> <<[encoding |-> "utf16le", stream |-> at(2)]>>
       [] OTHER -> <<[encoding |-> "utf8", stream |-> at(0)]>>

\* The text of a file: the bytes behind the mark, an odd last byte of UTF-16 left out.
try_read_text(file) ==
  LET found == get_text_encoding(NewFile(file, {"read"}))
      stream == found[1].stream
      left == length(stream) - stream.position
      size == IF found[1].encoding = "utf16le" THEN 2 * (left \div 2) ELSE left
  IN IF found = Absent THEN Absent
     ELSE <<[encoding |-> found[1].encoding, text |-> SubSeq(read(stream, left, FALSE).bytes, 1, size)]>>

try_write_text(text) == write(write(NewFile(<<>>, {"write"}), Utf8Bom).stream, text).stream.buffer

\* The test of TextTest.cpp: a file without and with a mark has one text.
TestTryReadText ==
  LET text == <<102, 105, 114, 115, 116, 10, 115>>
  IN \A mark \in {<<>>, Utf8Bom} : try_read_text(write_file(mark \o text)) = <<[encoding |-> "utf8", text |-> text]>>

-----------------------------------------------------------------------------
(* Text of at least one byte that is written to a file is read back from it,  *)
(* whatever bytes it begins with, a mark among them.                           *)
TextReadsBack(text) ==
  text # <<>> => try_read_text(try_write_text(text)) = <<[encoding |-> "utf8", text |-> text]>>

(* Every file that is text by its mark, or has none, can be read: the read of  *)
(* the mark "can be partial, but that is fine for us", as FileIO.cpp says.     *)
EveryFileIsText(file) == try_read_text(file) # Absent

(* A file written as a whole is read as a whole.                               *)
FileReadsBack(bytes) == LET r == read_file(write_file(bytes)) IN ~r.thrown /\ r.bytes = bytes
=============================================================================
