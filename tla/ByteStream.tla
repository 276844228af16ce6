---------------------------- MODULE ByteStream ----------------------------
(* Buffered_input_stream<Posix_input_stream>: read_bytes() of                *)
(* buffered_input_stream.h over read_bytes() of posix_input_stream.h, over   *)
(* read(2).  The loops of both are taken one iteration at a time, and        *)
(* read(2) may give fewer bytes than asked for, be interrupted, or fail.     *)
EXTENDS Integers, Sequences

CONSTANTS
  Byte,
  Texts,             \* the contents a file descriptor may have
  BufferSize,        \* 4096 in the program
  Sizes              \* the sizes of the buffers callers bring

ASSUME ByteStreamAssumption ==
  /\ Texts \subseteq Seq(Byte)
  /\ BufferSize \in Nat /\ BufferSize > 0
  /\ Sizes \subseteq Nat
  /\ 0 \in Byte

VARIABLES
  text, offset,             \* the descriptor: its bytes, and the next one's place
  buffer, pos, end,         \* _buffer, _pos, _end
  step,                     \* where read_bytes() is; "idle" outside
  requested, copied,        \* the caller's buffer: its size, and what is in it
  broken,                   \* history: a call has thrown
  delivered, answer         \* history: the bytes returned before that, and what the
                            \* last call returned

descriptor == <<text, offset>>
scratch == <<buffer, pos, end>>
call == <<step, requested, copied>>
history == <<delivered, answer, broken>>
vars == <<descriptor, scratch, call, history>>

Idle == -1            \* `requested` between calls
Thrown == -1          \* `answer` of a call that threw

Init ==
  /\ text \in Texts
  /\ offset = 0
  /\ buffer = [i \in 1..BufferSize |-> 0]
  /\ pos = 0 /\ end = 0
  /\ step = "idle"
  /\ requested = Idle
  /\ copied = << >>
  /\ delivered = << >> /\ answer = 0 /\ broken = FALSE

----------------------------------------------------------------------------
(* Leaving read_bytes() with what is in the caller's buffer. *)
Return(bytes) ==
  /\ step' = "idle"
  /\ requested' = Idle
  /\ copied' = << >>
  /\ delivered' = IF broken THEN delivered ELSE delivered \o bytes
  /\ answer' = Len(bytes)
  /\ UNCHANGED broken

Unread == end - pos
Missing == requested - Len(copied)
Served(n) == SubSeq(buffer, pos + 1, pos + n)      \* std::copy_n

ReadBytes(size) ==
  /\ step = "idle"
  /\ requested' = size
  /\ step' = IF size = 0 THEN "empty" ELSE "loop"
  /\ UNCHANGED <<descriptor, scratch, copied, history>>

ReturnEmpty ==
  /\ step = "empty"
  /\ Return(<< >>)
  /\ UNCHANGED <<descriptor, scratch>>

(* The scratch buffer is used up: the rest goes straight into the caller's   *)
(* buffer when it would fill the scratch buffer anyway.                      *)
ReadsDirectly == Missing >= BufferSize

BeginDirect ==
  /\ step = "loop"
  /\ pos = end
  /\ ReadsDirectly
  /\ step' = "direct"
  /\ UNCHANGED <<descriptor, scratch, requested, copied, history>>

BeginRefill ==
  /\ step = "loop"
  /\ pos = end
  /\ ~ReadsDirectly
  /\ pos' = 0
  /\ step' = "refill"
  /\ UNCHANGED <<descriptor, buffer, end, requested, copied, history>>

CopyAvailable ==
  /\ step = "loop"
  /\ pos # end
  /\ Unread < Missing
  /\ copied' = copied \o Served(Unread)
  /\ pos' = end
  /\ step' = "loop"
  /\ UNCHANGED <<descriptor, buffer, end, requested, history>>

CopyRest_WholeRequest ==      \* mutant: _pos moves by what was asked for
  /\ step = "loop"
  /\ pos # end
  /\ Unread >= Missing
  /\ pos' = pos + requested
  /\ Return(copied \o Served(Missing))
  /\ UNCHANGED <<descriptor, buffer, end>>

CopyRest ==
  /\ step = "loop"
  /\ pos # end
  /\ Unread >= Missing
  /\ pos' = pos + Missing
  /\ Return(copied \o Served(Missing))
  /\ UNCHANGED <<descriptor, buffer, end>>

----------------------------------------------------------------------------
(* Posix_input_stream::read_bytes, asked for `wanted` bytes.                 *)

InRead == step \in {"direct", "refill"}
Wanted == IF step = "direct" THEN Missing ELSE BufferSize

(* read(2) gives n bytes: any positive number up to what was asked for, and  *)
(* none only at the end.                                                     *)
Gives(n) ==
  /\ n \in 0..Wanted
  /\ offset + n <= Len(text)
  /\ n = 0 => offset = Len(text)
Given(n) == SubSeq(text, offset + 1, offset + n)

FinishDirect_FromTheStart ==      \* mutant: read into the caller's buffer from its start
  /\ step = "direct"
  /\ \E n \in 0..Wanted :
       /\ Gives(n)
       /\ offset' = offset + n
       /\ Return(Given(n))
  /\ UNCHANGED <<text, scratch>>

FinishDirect ==
  /\ step = "direct"
  /\ \E n \in 0..Wanted :
       /\ Gives(n)
       /\ offset' = offset + n
       /\ Return(copied \o Given(n))
  /\ UNCHANGED <<text, scratch>>

Filled(n) == [i \in 1..BufferSize |-> IF i <= n THEN Given(n)[i] ELSE buffer[i]]

Refill_AssumesFull ==      \* mutant: a short read is taken for a full one
  /\ step = "refill"
  /\ \E n \in 1..Wanted :
       /\ Gives(n)
       /\ offset' = offset + n
       /\ buffer' = Filled(n)
       /\ end' = BufferSize
  /\ step' = "loop"
  /\ UNCHANGED <<text, pos, requested, copied, history>>

Refill ==
  /\ step = "refill"
  /\ \E n \in 1..Wanted :
       /\ Gives(n)
       /\ offset' = offset + n
       /\ buffer' = Filled(n)
       /\ end' = n
  /\ step' = "loop"
  /\ UNCHANGED <<text, pos, requested, copied, history>>

RefillAtEnd_ForgetsTotal ==      \* mutant: 0 is returned at the end, whatever was copied
  /\ step = "refill"
  /\ Gives(0)
  /\ end' = 0
  /\ Return(<< >>)
  /\ UNCHANGED <<descriptor, buffer, pos>>

RefillAtEnd_GoesRound ==      \* mutant: the end is not noticed
  /\ step = "refill"
  /\ Gives(0)
  /\ end' = 0
  /\ step' = "loop"
  /\ UNCHANGED <<descriptor, buffer, pos, requested, copied, history>>

RefillAtEnd ==
  /\ step = "refill"
  /\ Gives(0)
  /\ end' = 0
  /\ Return(copied)
  /\ UNCHANGED <<descriptor, buffer, pos>>

(* EINTR: the loop of Posix_input_stream::read_bytes goes round again.       *)
Interrupted ==
  /\ InRead
  /\ UNCHANGED vars

(* Any other error is thrown through both streams.  What had been copied is  *)
(* lost, and after a refill that failed _pos is 0 and _end the old one.      *)
Fail ==
  /\ InRead
  /\ step' = "idle"
  /\ requested' = Idle
  /\ copied' = << >>
  /\ answer' = Thrown
  /\ broken' = TRUE
  /\ UNCHANGED <<descriptor, scratch, delivered>>

----------------------------------------------------------------------------
Answers == FinishDirect \/ Refill \/ RefillAtEnd
Step ==
  \/ ReturnEmpty \/ BeginDirect \/ BeginRefill \/ CopyAvailable \/ CopyRest
  \/ Answers
Next == (\E size \in Sizes : ReadBytes(size)) \/ Step \/ Interrupted \/ Fail

(* The loops run on, and read(2) is not interrupted for ever. *)
Spec == Init /\ [][Next]_vars /\ WF_vars(Step)

----------------------------------------------------------------------------
(* Correctness.                                                             *)

TypeOK ==
  /\ text \in Texts
  /\ offset \in 0..Len(text)
  /\ buffer \in [1..BufferSize -> Byte]
  /\ end \in 0..BufferSize /\ pos \in 0..end
  /\ step \in {"idle", "empty", "loop", "direct", "refill"}
  /\ requested \in {Idle} \cup Nat
  /\ copied \in Seq(Byte) /\ delivered \in Seq(Byte)
  /\ answer \in {Thrown} \cup Nat
  /\ broken \in BOOLEAN

(* How far the caller has got in the text, and how much of the scratch       *)
(* buffer is ahead of that.  While the buffer is refilled _end is stale.     *)
Reached == Len(delivered) + Len(copied)
Ahead == IF step = "refill" THEN 0 ELSE end - pos

(* Until a call throws, the caller has had a prefix of the text, the unread  *)
(* part of the scratch buffer is what follows, and the descriptor is at the  *)
(* end of that: no byte is skipped or served twice across buffers, short     *)
(* reads and reads that go past the buffer.                                  *)
BytesInOrder ==
  ~broken =>
    /\ offset = Reached + Ahead
    /\ delivered \o copied = SubSeq(text, 1, Reached)
    /\ step # "refill" => \A i \in pos + 1..end : buffer[i] = text[offset - end + i]

(* What is between 0 and _end came from the text in one piece, even when a   *)
(* refill threw after _pos was reset: a client that reads on may be served   *)
(* bytes again, but none that were not read.                                 *)
NothingInvented ==
  \E k \in 0..offset - end : \A i \in 1..end : buffer[i] = text[k + i]

(* read_bytes() keeps the promise of Input_stream: InputStream.              *)
Promise ==
  INSTANCE InputStream WITH
    Unasked <- Idle,
    Thrown <- Thrown,
    taken <- delivered,
    asked <- requested

KeepsThePromise == Promise!Spec

(* Every call returns or throws, if read(2) is not interrupted for ever. *)
EveryReadReturns == step # "idle" ~> step = "idle"
============================================================================
