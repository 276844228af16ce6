------------------------- MODULE ByteStream_proofs -------------------------
(* Theorems about ByteStream, for every byte, set of texts, buffer size and  *)
(* sizes of requests: its invariants, and that it keeps the promise of       *)
(* InputStream.                                                              *)
EXTENDS ByteStream, SequenceTheorems, TLAPS

(* A piece of the text: bytes that stand in it one after another, from the   *)
(* place after k.                                                            *)
Piece(bytes, k) == \A i \in 1..Len(bytes) : bytes[i] = text[k + i]

----------------------------------------------------------------------------
(* Pieces of a sequence.                                                     *)

LEMMA JoinedPieces ==
  ASSUME NEW k \in Nat, NEW a \in Seq(Byte), NEW b \in Seq(Byte),
         Piece(a, k), Piece(b, k + Len(a))
  PROVE  /\ a \o b \in Seq(Byte)
         /\ Len(a \o b) = Len(a) + Len(b)
         /\ Piece(a \o b, k)
  <1>1. /\ a \o b \in Seq(Byte) /\ Len(a \o b) = Len(a) + Len(b)
        /\ \A i \in 1..Len(a) + Len(b) : (a \o b)[i] = IF i <= Len(a) THEN a[i] ELSE b[i - Len(a)]
    BY ConcatProperties
  <1>2. Len(a) \in Nat /\ Len(b) \in Nat
    BY LenProperties
  <1>3. ASSUME NEW i \in 1..Len(a) + Len(b)
        PROVE  (a \o b)[i] = text[k + i]
    <2>1. CASE i <= Len(a)
      <3>1. i \in 1..Len(a)
        BY <1>2, <2>1
      <3> QED
        BY <1>1, <2>1, <3>1 DEF Piece
    <2>2. CASE ~(i <= Len(a))
      <3>1. i - Len(a) \in 1..Len(b)
        BY <1>2, <2>2
      <3>2. b[i - Len(a)] = text[k + Len(a) + (i - Len(a))]
        BY <3>1 DEF Piece
      <3>3. k + Len(a) + (i - Len(a)) = k + i
        BY <1>2
      <3> QED
        BY <1>1, <2>2, <3>2, <3>3
    <2> QED
      BY <2>1, <2>2
  <1> QED
    BY <1>1, <1>3 DEF Piece

LEMMA PieceIsPrefix ==
  ASSUME text \in Seq(Byte), NEW a \in Seq(Byte), Piece(a, 0), Len(a) <= Len(text)
  PROVE  a = SubSeq(text, 1, Len(a))
  <1>1. Len(a) \in Nat /\ Len(text) \in Nat
    BY LenProperties
  <1>2. \A i \in 1..Len(a) : text[i] \in Byte
    BY <1>1, ElementOfSeq
  <1>3. /\ SubSeq(text, 1, Len(a)) \in Seq(Byte)
        /\ Len(SubSeq(text, 1, Len(a))) = Len(a)
        /\ \A i \in 1..Len(a) : SubSeq(text, 1, Len(a))[i] = text[i]
    <2>1. /\ SubSeq(text, 1, Len(a)) \in Seq(Byte)
          /\ Len(SubSeq(text, 1, Len(a))) = IF 1 <= Len(a) THEN Len(a) - 1 + 1 ELSE 0
          /\ \A i \in 1..Len(a) - 1 + 1 : SubSeq(text, 1, Len(a))[i] = text[1 + i - 1]
      BY <1>1, <1>2, SubSeqProperties
    <2>2. Len(a) - 1 + 1 = Len(a) /\ \A i \in 1..Len(a) : 1 + i - 1 = i
      BY <1>1
    <2> QED
      BY <1>1, <2>1, <2>2
  <1>4. \A i \in 1..Len(a) : a[i] = SubSeq(text, 1, Len(a))[i]
    BY <1>1, <1>3 DEF Piece
  <1> QED
    BY <1>3, <1>4, SeqEqual

(* What a SubSeq of a function on an interval holds. *)
LEMMA Slice ==
  ASSUME NEW s, NEW m \in Nat, NEW n \in Nat, \A i \in m + 1..m + n : s[i] \in Byte
  PROVE  /\ SubSeq(s, m + 1, m + n) \in Seq(Byte)
         /\ Len(SubSeq(s, m + 1, m + n)) = n
         /\ \A i \in 1..n : SubSeq(s, m + 1, m + n)[i] = s[m + i]
  <1>1. /\ SubSeq(s, m + 1, m + n) \in Seq(Byte)
        /\ Len(SubSeq(s, m + 1, m + n)) = IF m + 1 <= m + n THEN m + n - (m + 1) + 1 ELSE 0
        /\ \A i \in 1..m + n - (m + 1) + 1 : SubSeq(s, m + 1, m + n)[i] = s[m + 1 + i - 1]
    BY SubSeqProperties
  <1>2. m + n - (m + 1) + 1 = n /\ (m + 1 <= m + n <=> n > 0) /\ \A i \in 1..n : m + 1 + i - 1 = m + i
    OBVIOUS
  <1> QED
    BY <1>1, <1>2

----------------------------------------------------------------------------
(* The inductive invariant.                                                  *)

(* What the place in read_bytes() says of the call. *)
CallHolds ==
  /\ step = "idle" <=> requested = Idle
  /\ step \in {"idle", "empty"} => copied = << >>
  /\ step = "empty" => requested = 0
  /\ step \in {"loop", "direct", "refill"} => Len(copied) < requested
  /\ step = "direct" => pos = end

(* BytesInOrder, byte by byte, and what it needs of a stale buffer. *)
BytesHold ==
  /\ ~broken => /\ offset = Reached + Ahead
                /\ Piece(delivered, 0)
                /\ Piece(copied, Len(delivered))
                /\ step # "refill" => \A i \in pos + 1..end : buffer[i] = text[offset - end + i]
  /\ step = "refill" => pos = 0
  /\ end <= offset

IInv == TypeOK /\ CallHolds /\ BytesHold /\ NothingInvented

LEMMA TextType ==
  ASSUME TypeOK
  PROVE  /\ text \in Seq(Byte)
         /\ Len(text) \in Nat /\ Len(delivered) \in Nat /\ Len(copied) \in Nat
         /\ BufferSize \in Nat /\ BufferSize > 0
         /\ offset \in Nat /\ end \in Nat /\ pos \in Nat /\ pos <= end /\ end <= BufferSize
         /\ offset <= Len(text)
  <1>1. text \in Seq(Byte)
    BY ByteStreamAssumption DEF TypeOK
  <1>2. Len(text) \in Nat /\ Len(delivered) \in Nat /\ Len(copied) \in Nat
    BY <1>1, LenProperties DEF TypeOK
  <1> QED
    BY <1>1, <1>2, ByteStreamAssumption DEF TypeOK

LEMMA Initially == Init => IInv
  <1> SUFFICES ASSUME Init PROVE IInv
    OBVIOUS
  <1>1. text \in Seq(Byte) /\ Len(text) \in Nat
    BY ByteStreamAssumption, LenProperties DEF Init
  <1>2. TypeOK
    <2>1. << >> \in Seq(Byte)
      BY EmptySeq
    <2>2. buffer \in [1..BufferSize -> Byte]
      BY ByteStreamAssumption DEF Init
    <2>3. offset \in 0..Len(text) /\ end \in 0..BufferSize /\ pos \in 0..end
      BY <1>1, ByteStreamAssumption DEF Init
    <2> QED
      BY <2>1, <2>2, <2>3 DEF Init, TypeOK
  <1>3. CallHolds
    BY DEF Init, CallHolds, Idle
  <1>4. BytesHold
    BY EmptySeq DEF Init, BytesHold, Piece, Reached, Ahead
  <1>5. NothingInvented
    BY DEF Init, NothingInvented
  <1> QED
    BY <1>2, <1>3, <1>4, <1>5 DEF IInv

(* The part of the scratch buffer that a call is given. *)
LEMMA ServedPiece ==
  ASSUME IInv, step = "loop", NEW n \in 0..Unread
  PROVE  /\ Served(n) \in Seq(Byte)
         /\ Len(Served(n)) = n
         /\ ~broken => Piece(Served(n), Reached)
  <1>2. n \in Nat /\ pos \in Nat /\ pos + n <= end /\ end \in Nat /\ end <= BufferSize /\ BufferSize \in Nat
    <2>1. /\ end \in Nat /\ pos \in Nat /\ pos <= end /\ end <= BufferSize /\ BufferSize \in Nat
      BY TextType DEF IInv
    <2> QED
      BY <2>1 DEF Unread
  <1>1. \A i \in pos + 1..pos + n : buffer[i] \in Byte
    <2>1. \A i \in pos + 1..pos + n : i \in 1..BufferSize
      BY <1>2
    <2>2. buffer \in [1..BufferSize -> Byte]
      BY DEF IInv, TypeOK
    <2> QED
      BY <2>1, <2>2
  <1>3. /\ Served(n) \in Seq(Byte) /\ Len(Served(n)) = n
        /\ \A i \in 1..n : Served(n)[i] = buffer[pos + i]
    BY <1>1, <1>2, Slice DEF Served
  <1>4. ASSUME ~broken, NEW i \in 1..n
        PROVE  Served(n)[i] = text[Reached + i]
    <2>1. pos + i \in pos + 1..end /\ offset - end + (pos + i) = Reached + i
      BY <1>2, <1>4, TextType DEF IInv, BytesHold, Ahead, Reached
    <2>2. buffer[pos + i] = text[offset - end + (pos + i)]
      BY <1>4, <2>1 DEF IInv, BytesHold
    <2> QED
      BY <1>3, <2>1, <2>2
  <1> QED
    BY <1>3, <1>4 DEF Piece

(* What read(2) gives. *)
LEMMA GivenPiece ==
  ASSUME TypeOK, NEW n \in Nat, offset + n <= Len(text)
  PROVE  /\ Given(n) \in Seq(Byte)
         /\ Len(Given(n)) = n
         /\ \A i \in 1..n : Given(n)[i] = text[offset + i]
         /\ Piece(Given(n), offset)
  <1>1. \A i \in offset + 1..offset + n : text[i] \in Byte
    BY TextType, ElementOfSeq
  <1>2. /\ Given(n) \in Seq(Byte) /\ Len(Given(n)) = n
        /\ \A i \in 1..n : Given(n)[i] = text[offset + i]
    <2>1. offset \in Nat /\ offset + n \in Nat /\ offset + 1 \in Nat /\ text \in Seq(Byte)
      BY TextType
    <2>2. Given(n) = SubSeq(text, offset + 1, offset + n)
      BY DEF Given
    <2> QED
      BY <1>1, <2>1, <2>2, Slice
  <1> QED
    BY <1>2 DEF Piece

----------------------------------------------------------------------------
(* Leaving read_bytes().                                                     *)

LEMMA Delivers ==
  ASSUME IInv, NEW bytes \in Seq(Byte), Return(bytes), text' = text,
         ~broken => Piece(bytes, Len(delivered))
  PROVE  /\ delivered' \in Seq(Byte) /\ copied' = << >> /\ copied' \in Seq(Byte)
         /\ Len(copied') = 0 /\ answer' \in Nat
         /\ step' = "idle" /\ requested' = Idle /\ broken' = broken
         /\ ~broken => /\ delivered' = delivered \o bytes
                       /\ Len(delivered') = Len(delivered) + Len(bytes)
                       /\ Piece(delivered', 0) /\ Piece(delivered, 0)'
         /\ Piece(copied, Len(delivered))'
         /\ CallHolds'
  <1>1. /\ copied' = << >> /\ step' = "idle" /\ requested' = Idle /\ broken' = broken
        /\ answer' = Len(bytes)
        /\ delivered' = IF broken THEN delivered ELSE delivered \o bytes
    BY DEF Return
  <1>2. delivered \in Seq(Byte) /\ Len(delivered) \in Nat /\ Len(bytes) \in Nat
    BY TextType, LenProperties DEF IInv, TypeOK
  <1>3. << >> \in Seq(Byte) /\ Len(<< >>) = 0
    BY EmptySeq
  <1>4. ~broken => /\ delivered \o bytes \in Seq(Byte)
                   /\ Len(delivered \o bytes) = Len(delivered) + Len(bytes)
                   /\ Piece(delivered \o bytes, 0)
    <2> SUFFICES ASSUME ~broken
                 PROVE  /\ delivered \o bytes \in Seq(Byte)
                        /\ Len(delivered \o bytes) = Len(delivered) + Len(bytes)
                        /\ Piece(delivered \o bytes, 0)
      OBVIOUS
    <2>1. Piece(delivered, 0) /\ Piece(bytes, 0 + Len(delivered))
      BY <1>2 DEF IInv, BytesHold
    <2> QED
      BY <1>2, <2>1, JoinedPieces
  <1>5. ~broken => Piece(delivered', 0) /\ Piece(delivered, 0)'
    BY <1>1, <1>4 DEF Piece
  <1>6. Piece(copied, Len(delivered))'
    BY <1>1, <1>3 DEF Piece
  <1>7. CallHolds'
    BY <1>1 DEF CallHolds
  <1> QED
    BY <1>1, <1>2, <1>3, <1>4, <1>5, <1>6, <1>7

(* The caller has what Input_stream promises of a call that returns. *)
LEMMA Answered ==
  ASSUME IInv, NEW bytes \in Seq(Byte), Return(bytes), text' = text, step # "idle", ~broken,
         Piece(bytes, Len(delivered)),
         Len(delivered) + Len(bytes) <= Len(text), Len(bytes) <= requested,
         Len(bytes) = 0 => requested = 0 \/ Len(delivered) = Len(text)
  PROVE  Promise!Answer
  <1>1. /\ requested \in Nat /\ requested # Idle
        /\ Len(bytes) \in Nat /\ text \in Seq(Byte)
    BY TextType, LenProperties DEF IInv, TypeOK, CallHolds, Idle
  <1>2. /\ delivered' \in Seq(Byte)
        /\ Len(delivered') = Len(delivered) + Len(bytes)
        /\ Piece(delivered', 0)
    BY Delivers
  <1>3. delivered' = SubSeq(text, 1, Len(delivered) + Len(bytes))
    BY <1>1, <1>2, PieceIsPrefix
  <1>4. Len(bytes) \in 0..requested
    BY <1>1
  <1>5. answer' = Len(bytes) /\ requested' = Idle /\ broken' = broken
    BY DEF Return
  <1> QED
    BY <1>1, <1>3, <1>4, <1>5 DEF Promise!Answer

(* Nothing but the end of the scratch buffer and more of the text: what it   *)
(* holds stays a piece of the text.                                          *)
LEMMA StillNothingInvented ==
  ASSUME IInv, text' = text, buffer' = buffer,
         end' = end /\ offset' \in Nat /\ offset' >= offset
  PROVE  NothingInvented'
  <1>1. PICK k \in 0..offset - end : \A i \in 1..end : buffer[i] = text[k + i]
    BY DEF IInv, NothingInvented
  <1>2. k \in 0..offset' - end'
    BY <1>1, TextType DEF IInv
  <1> QED
    BY <1>1, <1>2 DEF NothingInvented

(* A step that leaves the descriptor and the scratch buffer as they are.     *)
LEMMA SameBuffer ==
  ASSUME IInv, UNCHANGED <<descriptor, buffer, end>>
  PROVE  NothingInvented'
  <1>1. text' = text /\ buffer' = buffer /\ end' = end /\ offset' = offset
    BY DEF descriptor
  <1>2. offset' \in Nat /\ offset' >= offset
    BY <1>1, TextType DEF IInv
  <1> QED
    BY <1>1, <1>2, StillNothingInvented

----------------------------------------------------------------------------
(* The steps.                                                                *)

LEMMA ReadBytesStep ==
  ASSUME IInv, NEW size \in Sizes, ReadBytes(size)
  PROVE  IInv'
  <1>1. /\ UNCHANGED <<text, offset, buffer, pos, end, copied, delivered, answer, broken>>
        /\ step = "idle" /\ requested' = size /\ size \in Nat
        /\ step' = IF size = 0 THEN "empty" ELSE "loop"
    BY ByteStreamAssumption DEF ReadBytes, descriptor, scratch, history
  <1>2. TypeOK'
    BY <1>1 DEF IInv, TypeOK
  <1>3. copied = << >> /\ Len(copied) = 0
    BY <1>1, EmptySeq DEF IInv, CallHolds
  <1>4. CallHolds'
    BY <1>1, <1>3 DEF CallHolds, Idle
  <1>5. BytesHold'
    BY <1>1 DEF IInv, BytesHold, Piece, Reached, Ahead
  <1>6. NothingInvented'
    BY <1>1, SameBuffer DEF descriptor
  <1> QED
    BY <1>2, <1>4, <1>5, <1>6 DEF IInv

LEMMA ReturnEmptyStep ==
  ASSUME IInv, ReturnEmpty
  PROVE  /\ IInv'
         /\ ~broken => Promise!Answer
  <1> DEFINE none == << >>
  <1>1. /\ UNCHANGED <<text, offset, buffer, pos, end>>
        /\ step = "empty" /\ Return(none)
        /\ copied = none /\ requested = 0
    BY DEF ReturnEmpty, descriptor, scratch, IInv, CallHolds
  <1>2. none \in Seq(Byte) /\ Len(none) = 0
    BY EmptySeq
  <1>3. Piece(none, Len(delivered))
    BY <1>2 DEF Piece
  <1> HIDE DEF none
  <1>4. /\ delivered' \in Seq(Byte) /\ copied' \in Seq(Byte) /\ Len(copied') = 0
        /\ answer' \in Nat /\ step' = "idle" /\ requested' = Idle /\ broken' = broken
        /\ ~broken => Len(delivered') = Len(delivered) + 0 /\ Piece(delivered, 0)'
        /\ Piece(copied, Len(delivered))' /\ CallHolds'
    BY <1>1, <1>2, <1>3, Delivers
  <1>5. TypeOK'
    BY <1>1, <1>4 DEF IInv, TypeOK
  <1>6. BytesHold'
    BY <1>1, <1>2, <1>4, TextType DEF IInv, BytesHold, Reached, Ahead
  <1>7. NothingInvented'
    BY <1>1, SameBuffer DEF descriptor
  <1>8. ASSUME ~broken PROVE Promise!Answer
    <2>1. Len(delivered) <= Len(text) /\ Len(delivered) \in Nat
      BY <1>1, <1>2, <1>8, TextType DEF IInv, BytesHold, Reached, Ahead
    <2>2. Len(delivered) + Len(none) <= Len(text) /\ Len(none) <= requested
      BY <1>1, <1>2, <2>1
    <2> QED
      BY <1>1, <1>2, <1>3, <1>8, <2>2, Answered
  <1> QED
    BY <1>4, <1>5, <1>6, <1>7, <1>8 DEF IInv

LEMMA BeginDirectStep ==
  ASSUME IInv, BeginDirect
  PROVE  IInv'
  <1>1. /\ UNCHANGED <<text, offset, buffer, pos, end, requested, copied, delivered, answer, broken>>
        /\ step = "loop" /\ pos = end /\ step' = "direct"
    BY DEF BeginDirect, descriptor, scratch, history
  <1>2. TypeOK'
    BY <1>1 DEF IInv, TypeOK
  <1>3. CallHolds'
    BY <1>1 DEF IInv, CallHolds
  <1>4. BytesHold'
    BY <1>1 DEF IInv, BytesHold, Piece, Reached, Ahead
  <1>5. NothingInvented'
    BY <1>1, SameBuffer DEF descriptor
  <1> QED
    BY <1>2, <1>3, <1>4, <1>5 DEF IInv

LEMMA BeginRefillStep ==
  ASSUME IInv, BeginRefill
  PROVE  IInv'
  <1>1. /\ UNCHANGED <<text, offset, buffer, end, requested, copied, delivered, answer, broken>>
        /\ step = "loop" /\ pos = end /\ step' = "refill" /\ pos' = 0
    BY DEF BeginRefill, descriptor, history
  <1>2. TypeOK'
    BY <1>1, TextType DEF IInv, TypeOK
  <1>3. CallHolds'
    BY <1>1 DEF IInv, CallHolds
  <1>4. BytesHold'
    BY <1>1, TextType DEF IInv, BytesHold, Piece, Reached, Ahead
  <1>5. NothingInvented'
    BY <1>1, SameBuffer DEF descriptor
  <1> QED
    BY <1>2, <1>3, <1>4, <1>5 DEF IInv

LEMMA CopyAvailableStep ==
  ASSUME IInv, CopyAvailable
  PROVE  IInv'
  <1>1. /\ UNCHANGED <<text, offset, buffer, end, requested, delivered, answer, broken>>
        /\ step = "loop" /\ step' = "loop" /\ pos' = end
        /\ Unread < Missing /\ copied' = copied \o Served(Unread)
    BY DEF CopyAvailable, descriptor, history
  <1>2. /\ Unread \in 0..Unread /\ Unread = end - pos /\ Unread \in Nat
        /\ requested \in Nat /\ Missing = requested - Len(copied)
        /\ copied \in Seq(Byte) /\ delivered \in Seq(Byte)
    <2>1. pos \in Nat /\ end \in Nat /\ pos <= end /\ copied \in Seq(Byte) /\ delivered \in Seq(Byte)
      BY TextType DEF IInv, TypeOK
    <2>2. requested \in Nat
      BY <1>1 DEF IInv, TypeOK, CallHolds, Idle
    <2>3. Unread = end - pos /\ Missing = requested - Len(copied)
      BY DEF Unread, Missing
    <2>4. Unread \in Nat /\ Unread \in 0..Unread
      BY <2>1, <2>3
    <2> QED
      BY <2>1, <2>2, <2>3, <2>4
  <1>3. /\ Served(Unread) \in Seq(Byte) /\ Len(Served(Unread)) = Unread
        /\ ~broken => Piece(Served(Unread), Reached)
    BY <1>1, <1>2, ServedPiece
  <1>4. copied' \in Seq(Byte) /\ Len(copied') = Len(copied) + Unread
    <2> DEFINE served == Served(Unread)
    <2>1. copied \in Seq(Byte) /\ served \in Seq(Byte) /\ Len(served) = Unread
      BY <1>2, <1>3
    <2>2. copied' = copied \o served
      BY <1>1
    <2> HIDE DEF served
    <2>3. copied \o served \in Seq(Byte) /\ Len(copied \o served) = Len(copied) + Len(served)
      BY <2>1, ConcatProperties
    <2> QED
      BY <2>1, <2>2, <2>3
  <1>5. TypeOK'
    BY <1>1, <1>4, TextType DEF IInv, TypeOK
  <1>6. CallHolds'
    BY <1>1, <1>2, <1>4, TextType DEF IInv, CallHolds
  <1>7. ASSUME ~broken PROVE Piece(copied, Len(delivered))'
    <2>1. Piece(copied, Len(delivered)) /\ Piece(Served(Unread), Len(delivered) + Len(copied))
      BY <1>3, <1>7 DEF IInv, BytesHold, Reached
    <2>2. Piece(copied \o Served(Unread), Len(delivered))
      BY <1>2, <1>3, <2>1, TextType, JoinedPieces DEF IInv
    <2> QED
      BY <1>1, <2>2 DEF Piece
  <1>8. BytesHold'
    <2>1. step' # "refill" /\ end' <= offset' /\ \A i \in pos' + 1..end' : FALSE
      BY <1>1, TextType DEF IInv, BytesHold
    <2>2. ASSUME ~broken PROVE offset' = (Reached + Ahead)'
      <3>1. offset = Len(delivered) + Len(copied) + (end - pos)
        BY <1>1, <2>2 DEF IInv, BytesHold, Reached, Ahead
      <3>2. (Reached + Ahead)' = Len(delivered) + (Len(copied) + Unread) + (end - end)
        BY <1>1, <1>4 DEF Reached, Ahead
      <3>3. /\ Len(delivered) \in Nat /\ Len(copied) \in Nat /\ end \in Nat /\ pos \in Nat
            /\ Unread = end - pos /\ offset' = offset
        BY <1>1, <1>2, TextType DEF IInv
      <3> DEFINE reached == (Reached + Ahead)'
      <3>4. reached = Len(delivered) + (Len(copied) + Unread) + (end - end)
        BY <3>2
      <3> HIDE DEF reached
      <3>5. offset' = reached
        BY <3>1, <3>3, <3>4
      <3> QED
        BY <3>5 DEF reached
    <2>3. ~broken => Piece(delivered, 0)'
      BY <1>1 DEF IInv, BytesHold, Piece
    <2> QED
      BY <1>1, <1>7, <2>1, <2>2, <2>3 DEF BytesHold
  <1>9. NothingInvented'
    BY <1>1, SameBuffer DEF descriptor
  <1> QED
    BY <1>5, <1>6, <1>8, <1>9 DEF IInv

LEMMA CopyRestStep ==
  ASSUME IInv, CopyRest
  PROVE  /\ IInv'
         /\ ~broken => Promise!Answer
  <1> DEFINE bytes == copied \o Served(Missing)
  <1>1. /\ UNCHANGED <<text, offset, buffer, end>>
        /\ step = "loop" /\ pos' = pos + Missing
        /\ Unread >= Missing /\ Return(bytes)
    BY DEF CopyRest, descriptor
  <1>2. /\ requested \in Nat /\ Missing = requested - Len(copied) /\ Missing \in 0..Unread
        /\ Missing > 0 /\ Unread = end - pos
        /\ copied \in Seq(Byte) /\ Len(copied) \in Nat /\ Len(delivered) \in Nat
    <2>1. /\ pos \in Nat /\ end \in Nat /\ copied \in Seq(Byte)
          /\ Len(copied) \in Nat /\ Len(delivered) \in Nat
      BY TextType DEF IInv, TypeOK
    <2>2. requested \in Nat /\ Len(copied) < requested
      BY <1>1, <2>1 DEF IInv, TypeOK, CallHolds, Idle
    <2>3. Unread = end - pos /\ Missing = requested - Len(copied)
      BY DEF Unread, Missing
    <2> QED
      BY <1>1, <2>1, <2>2, <2>3
  <1>3. /\ Served(Missing) \in Seq(Byte) /\ Len(Served(Missing)) = Missing
        /\ ~broken => Piece(Served(Missing), Reached)
    BY <1>1, <1>2, ServedPiece
  <1>4. bytes \in Seq(Byte) /\ Len(bytes) = requested
    BY <1>2, <1>3, ConcatProperties
  <1>5. ASSUME ~broken PROVE Piece(bytes, Len(delivered))
    <2>1. Piece(copied, Len(delivered)) /\ Piece(Served(Missing), Len(delivered) + Len(copied))
      BY <1>3, <1>5 DEF IInv, BytesHold, Reached
    <2> QED
      BY <1>2, <1>3, <2>1, JoinedPieces
  <1> HIDE DEF bytes
  <1>6. /\ delivered' \in Seq(Byte) /\ copied' \in Seq(Byte) /\ Len(copied') = 0
        /\ answer' \in Nat /\ step' = "idle" /\ requested' = Idle /\ broken' = broken
        /\ ~broken => Len(delivered') = Len(delivered) + requested /\ Piece(delivered, 0)'
        /\ Piece(copied, Len(delivered))' /\ CallHolds'
    BY <1>1, <1>4, <1>5, Delivers
  <1>7. pos' \in 0..end' /\ pos' \in Nat
    BY <1>1, <1>2, TextType DEF IInv
  <1>8. TypeOK'
    BY <1>1, <1>6, <1>7 DEF IInv, TypeOK
  <1>9. ASSUME ~broken
        PROVE  /\ offset = Len(delivered) + Len(copied) + (end - pos)
               /\ offset' = (Reached + Ahead)'
               /\ \A i \in pos' + 1..end' : buffer'[i] = text'[offset' - end' + i]
    <2>1. offset = Len(delivered) + Len(copied) + (end - pos)
      BY <1>1, <1>9 DEF IInv, BytesHold, Reached, Ahead
    <2>2. (Reached + Ahead)' = (Len(delivered) + requested) + 0 + (end - (pos + Missing))
      BY <1>1, <1>6, <1>9 DEF Reached, Ahead
    <2> DEFINE reached == (Reached + Ahead)'
    <2>3. offset' = reached
      <3>1. reached = Len(delivered) + requested + end - pos - Missing
        <4>1. reached = (Len(delivered) + requested) + 0 + (end - (pos + Missing))
          BY <2>2
        <4>2. /\ Len(delivered) \in Nat /\ requested \in Nat /\ end \in Nat
              /\ pos \in Nat /\ Missing \in Int
          BY <1>2, TextType DEF IInv
        <4> HIDE DEF reached
        <4> QED
          BY <4>1, <4>2
      <3>2. offset = Len(delivered) + Len(copied) + end - pos
        BY <1>2, <2>1, TextType DEF IInv
      <3>3. Missing = requested - Len(copied) /\ offset' = offset
        BY <1>1, <1>2
      <3>4. /\ Len(delivered) \in Nat /\ Len(copied) \in Nat /\ requested \in Nat
            /\ end \in Nat /\ pos \in Nat
        BY <1>2, TextType DEF IInv
      <3> HIDE DEF reached
      <3> QED
        BY <3>1, <3>2, <3>3, <3>4
    <2>4. pos' >= pos
      BY <1>1, <1>2, TextType DEF IInv
    <2>5. \A i \in pos' + 1..end' : i \in pos + 1..end
      BY <1>1, <1>7, <2>4, TextType DEF IInv
    <2>6. \A i \in pos + 1..end : buffer[i] = text[offset - end + i]
      BY <1>1, <1>9 DEF IInv, BytesHold
    <2> QED
      BY <1>1, <2>1, <2>3, <2>5, <2>6
  <1>10. BytesHold'
    BY <1>1, <1>6, <1>9 DEF IInv, BytesHold
  <1>11. NothingInvented'
    BY <1>1, SameBuffer DEF descriptor
  <1>12. ASSUME ~broken PROVE Promise!Answer
    <2>1. Len(delivered) + requested <= offset /\ requested > 0
      BY <1>2, <1>9, <1>12, TextType DEF IInv
    <2>2. Len(delivered) + Len(bytes) <= Len(text) /\ Len(bytes) <= requested
      BY <1>2, <1>4, <2>1, TextType DEF IInv
    <2> QED
      BY <1>1, <1>4, <1>5, <1>12, <2>1, <2>2, Answered
  <1> QED
    BY <1>8, <1>6, <1>10, <1>11, <1>12 DEF IInv

LEMMA FinishDirectStep ==
  ASSUME IInv, FinishDirect
  PROVE  /\ IInv'
         /\ ~broken => Promise!Answer
  <1>1. PICK n \in 0..Wanted : Gives(n) /\ offset' = offset + n /\ Return(copied \o Given(n))
    BY DEF FinishDirect
  <1> DEFINE bytes == copied \o Given(n)
  <1>2. UNCHANGED <<text, buffer, pos, end>> /\ step = "direct" /\ pos = end
    BY DEF FinishDirect, scratch, IInv, CallHolds
  <1>3. /\ requested \in Nat /\ Wanted = requested - Len(copied) /\ Wanted > 0
        /\ copied \in Seq(Byte) /\ Len(copied) \in Nat /\ Len(delivered) \in Nat
    BY <1>2, TextType DEF IInv, TypeOK, CallHolds, Missing, Wanted, Idle
  <1>4. /\ n \in Nat /\ n <= Wanted /\ offset + n <= Len(text)
        /\ n = 0 => offset = Len(text)
    BY <1>1, <1>3 DEF Gives
  <1>5. Given(n) \in Seq(Byte) /\ Len(Given(n)) = n /\ Piece(Given(n), offset)
    BY <1>4, GivenPiece DEF IInv
  <1>6. bytes \in Seq(Byte) /\ Len(bytes) = Len(copied) + n
    BY <1>3, <1>5, ConcatProperties
  <1>7. ASSUME ~broken PROVE offset = Len(delivered) + Len(copied) /\ Piece(bytes, Len(delivered))
    <2>1. offset = Len(delivered) + Len(copied)
      BY <1>2, <1>3, <1>7, TextType DEF IInv, BytesHold, Reached, Ahead
    <2>2. Piece(copied, Len(delivered)) /\ Piece(Given(n), Len(delivered) + Len(copied))
      BY <1>5, <1>7, <2>1 DEF IInv, BytesHold
    <2> QED
      BY <1>3, <1>5, <2>1, <2>2, JoinedPieces
  <1> HIDE DEF bytes
  <1>8. Return(bytes)
    BY <1>1 DEF bytes
  <1>9. /\ delivered' \in Seq(Byte) /\ copied' \in Seq(Byte) /\ Len(copied') = 0
        /\ answer' \in Nat /\ step' = "idle" /\ requested' = Idle /\ broken' = broken
        /\ ~broken => Len(delivered') = Len(delivered) + Len(bytes) /\ Piece(delivered, 0)'
        /\ Piece(copied, Len(delivered))' /\ CallHolds'
    BY <1>2, <1>6, <1>7, <1>8, Delivers
  <1>10. offset' \in Nat /\ offset' >= offset /\ offset' <= Len(text)
    BY <1>1, <1>4, TextType DEF IInv
  <1>11. TypeOK'
    BY <1>2, <1>9, <1>10, TextType DEF IInv, TypeOK
  <1>12. BytesHold'
    <2>1. /\ end' <= offset' /\ step' # "refill"
          /\ \A i \in pos' + 1..end' : FALSE
      BY <1>2, <1>9, <1>10, TextType DEF IInv, BytesHold
    <2>2. ASSUME ~broken PROVE offset' = (Reached + Ahead)'
      <3>1. (Reached + Ahead)' = (Len(delivered) + (Len(copied) + n)) + 0 + (end - pos)
        BY <1>2, <1>6, <1>9, <2>2 DEF Reached, Ahead
      <3> QED
        BY <1>1, <1>2, <1>3, <1>4, <1>7, <2>2, <3>1, TextType DEF IInv
    <2> QED
      BY <1>9, <2>1, <2>2 DEF BytesHold
  <1>13. NothingInvented'
    BY <1>2, <1>10, StillNothingInvented
  <1>14. ASSUME ~broken PROVE Promise!Answer
    <2>1. /\ Len(delivered) + Len(bytes) <= Len(text) /\ Len(bytes) <= requested
          /\ Len(bytes) = 0 => Len(delivered) = Len(text)
      BY <1>3, <1>4, <1>6, <1>7, <1>14
    <2> QED
      BY <1>2, <1>6, <1>7, <1>8, <1>14, <2>1, Answered
  <1> QED
    BY <1>9, <1>11, <1>12, <1>13, <1>14 DEF IInv

LEMMA RefillStep ==
  ASSUME IInv, Refill
  PROVE  IInv'
  <1>1. PICK n \in 1..Wanted :
          Gives(n) /\ offset' = offset + n /\ buffer' = Filled(n) /\ end' = n
    BY DEF Refill
  <1>2. /\ UNCHANGED <<text, pos, requested, copied, delivered, answer, broken>>
        /\ step = "refill" /\ step' = "loop" /\ pos = 0
    BY DEF Refill, history, IInv, BytesHold
  <1>3. Wanted = BufferSize
    BY <1>2 DEF Wanted
  <1>4. n \in 1..BufferSize /\ n \in Nat /\ offset + n <= Len(text)
    BY <1>1, <1>3, TextType DEF IInv, Gives
  <1>5. /\ Given(n) \in Seq(Byte) /\ Len(Given(n)) = n
        /\ \A i \in 1..n : Given(n)[i] = text[offset + i]
    BY <1>4, GivenPiece DEF IInv
  <1>6. /\ buffer' \in [1..BufferSize -> Byte]
        /\ \A i \in 1..n : buffer'[i] = text[offset + i]
    <2>1. \A i \in 1..n : Given(n)[i] \in Byte
      BY <1>4, <1>5, ElementOfSeq
    <2>2. \A i \in 1..BufferSize : (IF i <= n THEN Given(n)[i] ELSE buffer[i]) \in Byte
      BY <1>4, <2>1, TextType DEF IInv, TypeOK
    <2>3. \A i \in 1..n : i \in 1..BufferSize /\ i <= n
      BY <1>4, TextType DEF IInv
    <2> QED
      BY <1>1, <1>5, <2>2, <2>3 DEF Filled
  <1>7. offset' \in Nat /\ offset' <= Len(text) /\ end' \in 0..BufferSize /\ pos' \in 0..end'
    BY <1>1, <1>2, <1>4, TextType DEF IInv
  <1>8. TypeOK'
    BY <1>2, <1>6, <1>7 DEF IInv, TypeOK
  <1>9. CallHolds'
    BY <1>2 DEF IInv, CallHolds
  <1>10. BytesHold'
    <2>1. offset' - end' = offset /\ end' <= offset'
      BY <1>1, <1>4, TextType DEF IInv
    <2>2. \A i \in pos' + 1..end' : buffer'[i] = text'[offset' - end' + i]
      BY <1>1, <1>2, <1>4, <1>6, <2>1
    <2>3. ASSUME ~broken PROVE offset' = (Reached + Ahead)'
      <3>1. offset = Len(delivered) + Len(copied)
        BY <1>2, <2>3, TextType DEF IInv, BytesHold, Reached, Ahead
      <3>2. (Reached + Ahead)' = Len(delivered) + Len(copied) + (n - 0)
        BY <1>1, <1>2 DEF Reached, Ahead
      <3> QED
        BY <1>1, <1>4, <3>1, <3>2, TextType DEF IInv
    <2>4. ~broken => Piece(delivered, 0)' /\ Piece(copied, Len(delivered))'
      BY <1>2 DEF IInv, BytesHold, Piece
    <2> QED
      BY <1>2, <2>1, <2>2, <2>3, <2>4 DEF BytesHold
  <1>11. NothingInvented'
    <2>1. offset \in 0..offset' - end'
      BY <1>1, <1>4, TextType DEF IInv
    <2>2. \A i \in 1..end' : buffer'[i] = text'[offset + i]
      BY <1>1, <1>2, <1>6
    <2> QED
      BY <2>1, <2>2 DEF NothingInvented
  <1> QED
    BY <1>8, <1>9, <1>10, <1>11 DEF IInv

LEMMA RefillAtEndStep ==
  ASSUME IInv, RefillAtEnd
  PROVE  /\ IInv'
         /\ ~broken => Promise!Answer
  <1>1. /\ UNCHANGED <<text, offset, buffer, pos>> /\ step = "refill" /\ end' = 0
        /\ Gives(0) /\ Return(copied) /\ pos = 0
    BY DEF RefillAtEnd, descriptor, IInv, BytesHold
  <1>2. /\ requested \in Nat /\ Len(copied) < requested /\ offset = Len(text)
        /\ copied \in Seq(Byte) /\ Len(copied) \in Nat /\ Len(delivered) \in Nat
    BY <1>1, TextType DEF IInv, TypeOK, CallHolds, Gives, Idle
  <1>3. ASSUME ~broken PROVE offset = Len(delivered) + Len(copied) /\ Piece(copied, Len(delivered))
    BY <1>1, <1>2, <1>3, TextType DEF IInv, BytesHold, Reached, Ahead
  <1>4. /\ delivered' \in Seq(Byte) /\ copied' \in Seq(Byte) /\ Len(copied') = 0
        /\ answer' \in Nat /\ step' = "idle" /\ requested' = Idle /\ broken' = broken
        /\ ~broken => Len(delivered') = Len(delivered) + Len(copied) /\ Piece(delivered, 0)'
        /\ Piece(copied, Len(delivered))' /\ CallHolds'
    BY <1>1, <1>2, <1>3, Delivers
  <1>5. TypeOK'
    BY <1>1, <1>4, TextType DEF IInv, TypeOK
  <1>6. BytesHold'
    <2>1. step' # "refill" /\ end' <= offset' /\ \A i \in pos' + 1..end' : FALSE
      BY <1>1, <1>4, TextType DEF IInv
    <2>2. ASSUME ~broken PROVE offset' = (Reached + Ahead)'
      <3>1. (Reached + Ahead)' = (Len(delivered) + Len(copied)) + 0 + (0 - 0)
        BY <1>1, <1>4, <2>2 DEF Reached, Ahead
      <3> QED
        BY <1>1, <1>2, <1>3, <2>2, <3>1
    <2> QED
      BY <1>4, <2>1, <2>2 DEF BytesHold
  <1>7. NothingInvented'
    <2>1. 0 \in 0..offset' - end' /\ \A i \in 1..end' : FALSE
      BY <1>1, TextType DEF IInv
    <2> QED
      BY <2>1 DEF NothingInvented
  <1>8. ASSUME ~broken PROVE Promise!Answer
    <2>1. /\ Len(delivered) + Len(copied) <= Len(text) /\ Len(copied) <= requested
          /\ Len(copied) = 0 => Len(delivered) = Len(text)
      BY <1>2, <1>3, <1>8
    <2> QED
      BY <1>1, <1>2, <1>3, <1>8, <2>1, Answered
  <1> QED
    BY <1>4, <1>5, <1>6, <1>7, <1>8 DEF IInv

LEMMA FailStep ==
  ASSUME IInv, Fail
  PROVE  IInv' /\ Promise!Throw
  <1>1. /\ UNCHANGED <<text, offset, buffer, pos, end, delivered>>
        /\ step \in {"direct", "refill"} /\ step' = "idle" /\ requested' = Idle
        /\ copied' = << >> /\ answer' = Thrown /\ broken' = TRUE
    BY DEF Fail, InRead, descriptor, scratch
  <1>2. TypeOK'
    BY <1>1, EmptySeq DEF IInv, TypeOK
  <1>3. CallHolds' /\ BytesHold'
    BY <1>1 DEF IInv, CallHolds, BytesHold
  <1>4. NothingInvented'
    BY <1>1, SameBuffer DEF descriptor
  <1>5. requested # Idle
    BY <1>1 DEF IInv, CallHolds
  <1> QED
    BY <1>1, <1>2, <1>3, <1>4, <1>5 DEF IInv, Promise!Throw

LEMMA NoStep ==
  ASSUME IInv, UNCHANGED vars
  PROVE  IInv' /\ UNCHANGED Promise!vars
  <1>1. UNCHANGED <<text, offset, buffer, pos, end, step, requested, copied, delivered, answer, broken>>
    BY DEF vars, descriptor, scratch, call, history
  <1> QED
    BY <1>1 DEF IInv, TypeOK, CallHolds, BytesHold, NothingInvented, Piece, Reached, Ahead, Promise!vars

----------------------------------------------------------------------------
(* The theorems.                                                             *)

LEMMA Inductive ==
  ASSUME IInv, [Next]_vars
  PROVE  IInv'
  <1>1. CASE \E size \in Sizes : ReadBytes(size)
    BY <1>1, ReadBytesStep
  <1>2. CASE Step
    BY <1>2, ReturnEmptyStep, BeginDirectStep, BeginRefillStep, CopyAvailableStep, CopyRestStep,
       FinishDirectStep, RefillStep, RefillAtEndStep DEF Step, Answers
  <1>3. CASE Interrupted
    BY <1>3, NoStep DEF Interrupted
  <1>4. CASE Fail
    BY <1>4, FailStep
  <1>5. CASE UNCHANGED vars
    BY <1>5, NoStep
  <1> QED
    BY <1>1, <1>2, <1>3, <1>4, <1>5 DEF Next

(* The invariant holds of every run of the stream.                           *)
THEOREM StreamInvariance == Spec => []IInv
  <1>1. Init => IInv
    BY Initially
  <1>2. IInv /\ [Next]_vars => IInv'
    BY Inductive
  <1> QED
    BY <1>1, <1>2, PTL DEF Spec

(* The members keep their types: _pos never passes _end, nor _end the        *)
(* buffer.                                                                   *)
THEOREM StreamTypes == Spec => []TypeOK
  <1>1. IInv => TypeOK
    BY DEF IInv
  <1> QED
    BY <1>1, StreamInvariance, PTL

(* Until a call throws, every byte is had once and in order.                 *)
THEOREM BytesStayInOrder == Spec => []BytesInOrder
  <1>1. ASSUME IInv PROVE BytesInOrder
    <2> SUFFICES ASSUME ~broken PROVE delivered \o copied = SubSeq(text, 1, Reached)
      BY <1>1 DEF IInv, BytesHold, BytesInOrder
    <2>1. delivered \in Seq(Byte) /\ copied \in Seq(Byte) /\ text \in Seq(Byte)
      BY <1>1, TextType DEF IInv, TypeOK
    <2>2. Piece(delivered, 0) /\ Piece(copied, Len(delivered)) /\ 0 + Len(delivered) = Len(delivered)
      BY <1>1, TextType DEF IInv, BytesHold
    <2>3. /\ delivered \o copied \in Seq(Byte)
          /\ Len(delivered \o copied) = Reached
          /\ Piece(delivered \o copied, 0)
      BY <2>1, <2>2, JoinedPieces DEF Reached
    <2>4. Reached <= Len(text)
      BY <1>1, TextType DEF IInv, BytesHold, Reached, Ahead
    <2> QED
      BY <2>1, <2>3, <2>4, PieceIsPrefix
  <1> QED
    BY <1>1, StreamInvariance, PTL

(* After one too, the scratch buffer holds a piece of the text.              *)
THEOREM NothingIsInvented == Spec => []NothingInvented
  <1>1. IInv => NothingInvented
    BY DEF IInv
  <1> QED
    BY <1>1, StreamInvariance, PTL

LEMMA PromisedStep ==
  ASSUME IInv, [Next]_vars
  PROVE  [Promise!Next]_Promise!vars
  <1>1. CASE \E size \in Sizes : ReadBytes(size)
    <2>1. PICK size \in Sizes : ReadBytes(size)
      BY <1>1
    <2>2. /\ UNCHANGED <<text, delivered, answer, broken>> /\ step = "idle" /\ requested' \in Nat
      BY <2>1, ByteStreamAssumption DEF ReadBytes, descriptor, history
    <2>3. Promise!Ask
      BY <2>2 DEF IInv, CallHolds, Promise!Ask
    <2> QED
      BY <2>3 DEF Promise!Next
  <1>2. CASE BeginDirect \/ BeginRefill \/ CopyAvailable \/ Refill
    BY <1>2 DEF BeginDirect, BeginRefill, CopyAvailable, Refill, descriptor, history, Promise!vars
  <1>3. CASE ReturnEmpty \/ CopyRest \/ FinishDirect \/ RefillAtEnd
    <2>1. CASE ~broken
      BY <1>3, <2>1, ReturnEmptyStep, CopyRestStep, FinishDirectStep, RefillAtEndStep
         DEF Promise!Next
    <2>2. CASE broken
      BY <1>3, <2>2
         DEF ReturnEmpty, CopyRest, FinishDirect, RefillAtEnd, Return, descriptor, Promise!Next,
             Promise!Undefined
    <2> QED
      BY <2>1, <2>2
  <1>4. CASE Interrupted \/ UNCHANGED vars
    BY <1>4, NoStep DEF Interrupted
  <1>5. CASE Fail
    BY <1>5, FailStep DEF Promise!Next
  <1> QED
    BY <1>1, <1>2, <1>3, <1>4, <1>5 DEF Next, Step, Answers

(* Buffering keeps the promise of Input_stream, whatever the sizes of the    *)
(* buffer and of the requests and however little read(2) gives.              *)
THEOREM StreamKeepsThePromise == Spec => KeepsThePromise
  <1>1. Init => Promise!Init
    BY DEF Init, Promise!Init
  <1>2. IInv /\ [Next]_vars => [Promise!Next]_Promise!vars
    BY PromisedStep
  <1> QED
    BY <1>1, <1>2, StreamInvariance, PTL DEF Spec, KeepsThePromise, Promise!Spec
=============================================================================
