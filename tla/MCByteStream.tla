--------------------------- MODULE MCByteStream ---------------------------
(* Instances of ByteStream: texts of different bytes, so that one that is    *)
(* skipped, repeated or out of place shows.                                  *)
EXTENDS ByteStream

CONSTANT MaxText

MCByte == 0..MaxText
MCTexts == {[i \in 1..n |-> i] : n \in 0..MaxText}
MCSizes == 0..2 * BufferSize + 1
============================================================================
