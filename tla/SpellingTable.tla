-------------------------- MODULE SpellingTable --------------------------
(* benson::Spelling_table (src/code/spelling/include/spelling/spelling.h):  *)
(* texts in one byte store, found through an open-addressed table of        *)
(* handles.  One text at a time is built in the store itself, behind the    *)
(* committed ones, and is cut off again or committed where it is.           *)
(*                                                                          *)
(* Probing, rehashing and placing are loops in the source; here `step` is   *)
(* the loop an operation is in and an iteration is an action, so that       *)
(* whether they end is a question.  Bucket i is buckets[i + 1].             *)
EXTENDS Integers, Sequences, FiniteSets

CONSTANTS
  Character,
  MaxLength,          \* bound on a text's length (2^32 in the program)
  Hash,               \* hash_text(), any function of the text
  InitialBuckets,     \* 32 in the program
  MaxEntries          \* bound on the texts stored (2^32)

Text == UNION {[1..n -> Character] : n \in 0..MaxLength}

ASSUME SpellingTableAssumption ==
  /\ MaxLength \in Nat
  /\ Hash \in [Text -> Nat]
  /\ InitialBuckets \in Nat /\ InitialBuckets > 1
  /\ MaxEntries \in Nat

VARIABLES
  bytes, entries, buckets,      \* _bytes, _entries, _buckets
  building, building_start,     \* a Builder holds the table, and from where
  step,                         \* the loop the active operation is in, or "idle"
  request,                      \* which operation that is, and its text
  index,                        \* the loop's position in the buckets
  fresh, moved,                 \* rehash()'s new buckets, and the entries in them
  draft,                        \* history: what the client appended to its Builder
  answer                        \* history: the last text asked for and its handle

store == <<bytes, entries, buckets>>
builder == <<building, building_start, draft>>
loop == <<step, request, index, fresh, moved>>
vars == <<store, builder, loop, answer>>

Entries == [offset : Nat, length : Nat]

NoRequest == [by |-> "none", text |-> << >>]

Init ==
  /\ bytes = << >>
  /\ entries = << >>
  /\ buckets = [i \in 1..InitialBuckets |-> 0]
  /\ building = FALSE
  /\ building_start = 0
  /\ step = "idle"
  /\ request = NoRequest
  /\ index = 0
  /\ fresh = << >>
  /\ moved = 0
  /\ draft = << >>
  /\ answer = [text |-> << >>, handle |-> 0]

(* entry_view() and build_view(). *)
View(offset, length) == [k \in 1..length |-> bytes[offset + k]]
EntryView(h) == View(entries[h].offset, entries[h].length)
BuildView == View(building_start, Len(bytes) - building_start)

(* bucket_index(), and the next bucket in the probe. *)
Home(text, n) == Hash[text] % n
After(i, n) == IF i + 1 = n THEN 0 ELSE i + 1

Full_WithoutNew(count, n) == 3 * (count - 1) > 2 * n     \* mutant: the text to come is not counted
(* Whether this many entries are too many for n buckets. *)
Full(count, n) == 3 * count > 2 * n

(* What cancel_build() leaves of the byte store. *)
Cancelled == [k \in 1..building_start |-> bytes[k]]

----------------------------------------------------------------------------
(* The client.  One Builder lives at a time (an assert in builder()), and    *)
(* the lexer, which has it, interns nothing until it is gone; moving the     *)
(* Builder changes nothing here.                                            *)

MakeBuilder ==
  /\ step = "idle" /\ ~building
  /\ building' = TRUE
  /\ building_start' = Len(bytes)
  /\ draft' = << >>
  /\ UNCHANGED <<store, loop, answer>>

AppendToBuilder(c) ==
  /\ step = "idle" /\ building
  /\ Len(draft) < MaxLength
  /\ bytes' = Append(bytes, c)
  /\ draft' = Append(draft, c)
  /\ UNCHANGED <<entries, buckets, building, building_start, loop, answer>>

(* ~Builder, of one that was not finalized. *)
DestroyBuilder ==
  /\ step = "idle" /\ building
  /\ bytes' = Cancelled
  /\ building' = FALSE
  /\ draft' = << >>
  /\ UNCHANGED <<entries, buckets, building_start, loop, answer>>

Begin(by, text) ==
  /\ step = "idle"
  /\ step' = "probe"
  /\ request' = [by |-> by, text |-> text]
  /\ index' = Home(text, Len(buckets))
  /\ UNCHANGED <<store, builder, fresh, moved, answer>>

Finalize == building /\ Len(entries) < MaxEntries /\ Begin("finalize", BuildView)
Intern(text) == ~building /\ Len(entries) < MaxEntries /\ Begin("intern", text)
Lookup(text) == Begin("lookup", text)

----------------------------------------------------------------------------
(* The loops. *)

(* The client asked for what it appended, or for the text it passed. *)
Asked == IF request.by = "finalize" THEN draft ELSE request.text

(* The loop's locals end with it. *)
NoLoop ==
  /\ step' = "idle" /\ request' = NoRequest /\ index' = 0 /\ fresh' = << >> /\ moved' = 0

Return(handle) ==
  /\ NoLoop
  /\ answer' = [text |-> Asked, handle |-> handle]
  /\ draft' = IF request.by = "finalize" THEN << >> ELSE draft

Handle == buckets[index + 1]

ProbeFinds ==
  /\ step = "probe" /\ Handle # 0 /\ EntryView(Handle) = request.text
  /\ Return(Handle)
  /\ IF request.by = "finalize"
     THEN bytes' = Cancelled /\ building' = FALSE
     ELSE UNCHANGED <<bytes, building>>
  /\ UNCHANGED <<entries, buckets, building_start>>

ProbeNext ==
  /\ step = "probe" /\ Handle # 0 /\ EntryView(Handle) # request.text
  /\ index' = After(index, Len(buckets))
  /\ UNCHANGED <<store, builder, step, request, fresh, moved, answer>>

LookupMisses ==
  /\ step = "probe" /\ Handle = 0 /\ request.by = "lookup"
  /\ Return(0)
  /\ UNCHANGED <<store, builder>>

(* A new entry, in the empty bucket the loop stopped at: a built text is     *)
(* where it is already.                                                      *)
Commit ==
  LET length == Len(request.text)
  IN  /\ IF request.by = "finalize"
         THEN /\ entries' = Append(entries, [offset |-> building_start, length |-> length])
              /\ building' = FALSE
              /\ UNCHANGED bytes
         ELSE /\ entries' = Append(entries, [offset |-> Len(bytes), length |-> length])
              /\ bytes' = bytes \o request.text
              /\ UNCHANGED building
      /\ buckets' = [buckets EXCEPT ![index + 1] = Len(entries) + 1]
      /\ Return(Len(entries) + 1)
      /\ UNCHANGED building_start

ProbeMisses ==
  /\ step = "probe" /\ Handle = 0 /\ request.by # "lookup"
  /\ IF Full(Len(entries) + 1, Len(buckets))
     THEN /\ step' = "rehash"
          /\ fresh' = [i \in 1..2 * Len(buckets) |-> 0]
          /\ moved' = 0
          /\ index' = Home(EntryView(1), 2 * Len(buckets))
          /\ UNCHANGED <<store, builder, request, answer>>
     ELSE Commit

RehashNext ==
  /\ step = "rehash" /\ fresh[index + 1] # 0
  /\ index' = After(index, Len(fresh))
  /\ UNCHANGED <<store, builder, step, request, fresh, moved, answer>>

RehashPlaces_StaleIndex ==     \* mutant: the text is placed from where the probe stopped
  /\ step = "rehash" /\ fresh[index + 1] = 0
  /\ fresh' = [fresh EXCEPT ![index + 1] = moved + 1]
  /\ moved' = moved + 1
  /\ IF moved + 1 < Len(entries)
     THEN /\ index' = Home(EntryView(moved + 2), Len(fresh))
          /\ UNCHANGED <<buckets, step>>
     ELSE /\ buckets' = fresh'
          /\ step' = "place"
          /\ index' = Home(request.text, Len(buckets))
  /\ UNCHANGED <<bytes, entries, builder, request, answer>>

RehashPlaces_OldMask ==     \* mutant: entries go where the old buckets had them
  /\ step = "rehash" /\ fresh[index + 1] = 0
  /\ fresh' = [fresh EXCEPT ![index + 1] = moved + 1]
  /\ moved' = moved + 1
  /\ IF moved + 1 < Len(entries)
     THEN /\ index' = Home(EntryView(moved + 2), Len(buckets))
          /\ UNCHANGED <<buckets, step>>
     ELSE /\ buckets' = fresh'
          /\ step' = "place"
          /\ index' = Home(request.text, Len(fresh))
  /\ UNCHANGED <<bytes, entries, builder, request, answer>>

(* An entry finds its bucket; after the last one the new buckets take the    *)
(* old ones' place, and the text to insert is placed from its home there.    *)
RehashPlaces ==
  /\ step = "rehash" /\ fresh[index + 1] = 0
  /\ fresh' = [fresh EXCEPT ![index + 1] = moved + 1]
  /\ moved' = moved + 1
  /\ IF moved + 1 < Len(entries)
     THEN /\ index' = Home(EntryView(moved + 2), Len(fresh))
          /\ UNCHANGED <<buckets, step>>
     ELSE /\ buckets' = fresh'
          /\ step' = "place"
          /\ index' = Home(request.text, Len(fresh))
  /\ UNCHANGED <<bytes, entries, builder, request, answer>>

PlaceNext ==
  /\ step = "place" /\ Handle # 0
  /\ index' = After(index, Len(buckets))
  /\ UNCHANGED <<store, builder, step, request, fresh, moved, answer>>

PlaceEnds == step = "place" /\ Handle = 0 /\ Commit

Client ==
  \/ MakeBuilder \/ DestroyBuilder \/ Finalize
  \/ \E c \in Character : AppendToBuilder(c)
  \/ \E text \in Text : Intern(text) \/ Lookup(text)

Step ==
  \/ ProbeFinds \/ ProbeNext \/ LookupMisses \/ ProbeMisses
  \/ RehashNext \/ RehashPlaces \/ PlaceNext \/ PlaceEnds

Next == Client \/ Step

(* An operation is a loop the program does not leave before it is done. *)
Spec == Init /\ [][Next]_vars /\ WF_vars(Step)

----------------------------------------------------------------------------
(* Correctness. *)

TypeOK ==
  /\ bytes \in Seq(Character)
  /\ entries \in Seq(Entries)
  /\ buckets \in Seq(Nat) /\ Len(buckets) > 1
  /\ building \in BOOLEAN
  /\ building_start \in Nat
  /\ step \in {"idle", "probe", "rehash", "place"}
  /\ request \in [by : {"none", "intern", "finalize", "lookup"}, text : Text]
  /\ index \in Nat
  /\ fresh \in Seq(Nat)
  /\ moved \in Nat
  /\ draft \in Text
  /\ answer \in [text : Text, handle : Nat]

(* The committed bytes lie before the build, which is what the client        *)
(* appended and what a finalize() under way hashes and compares.             *)
Committed == IF building THEN building_start ELSE Len(bytes)

StoreHolds ==
  /\ \A h \in DOMAIN entries :
       /\ entries[h].length <= MaxLength
       /\ entries[h].offset + entries[h].length <= Committed
  /\ building => building_start <= Len(bytes) /\ BuildView = draft
  /\ step # "idle" => (building <=> request.by = "finalize") \/ request.by = "lookup"
  /\ step # "idle" /\ request.by = "finalize" => building /\ request.text = draft

Texts == [h \in DOMAIN entries |-> EntryView(h)]

(* No text is stored twice. *)
TextsDiffer ==
  \A g, h \in DOMAIN entries : EntryView(g) = EntryView(h) => g = h

(* The buckets a probe from `from` visits before it comes to `to`. *)
Passed(from, to, n) == IF from <= to THEN from..to - 1 ELSE (from..n - 1) \cup (0..to - 1)

(* The first m texts are in these buckets, once each, where a probe for      *)
(* them comes without meeting an empty bucket.                               *)
Indexes(table, m, texts) ==
  /\ \A i \in 0..Len(table) - 1 : table[i + 1] <= m
  /\ \A i, j \in 0..Len(table) - 1 : table[i + 1] = table[j + 1] /\ table[i + 1] # 0 => i = j
  /\ \A h \in 1..m : \E i \in 0..Len(table) - 1 :
       /\ table[i + 1] = h
       /\ \A k \in Passed(Home(texts[h], Len(table)), i, Len(table)) : table[k + 1] # 0

(* A probe for this text has met no empty bucket on its way to index. *)
WayIsFull(table, text) ==
  /\ index \in 0..Len(table) - 1
  /\ \A k \in Passed(Home(text, Len(table)), index, Len(table)) : table[k + 1] # 0

Unknown(text) == \A h \in DOMAIN entries : EntryView(h) # text

LoopsHold ==
  /\ step = "probe" =>
       /\ WayIsFull(buckets, request.text)
       /\ \A k \in Passed(Home(request.text, Len(buckets)), index, Len(buckets)) :
            EntryView(buckets[k + 1]) # request.text
  /\ step \in {"rehash", "place"} => request.by # "lookup" /\ Unknown(request.text)
  /\ step = "rehash" =>
       /\ Len(fresh) = 2 * Len(buckets)
       /\ moved < Len(entries)
       /\ Indexes(fresh, moved, Texts)
       /\ WayIsFull(fresh, EntryView(moved + 1))
  /\ step = "place" =>
       /\ WayIsFull(buckets, request.text)
       /\ ~Full(Len(entries) + 1, Len(buckets))

(* The inductive invariant the theorems rest on. *)
IInv ==
  /\ TypeOK /\ StoreHolds /\ TextsDiffer
  /\ Indexes(buckets, Len(entries), Texts)
  /\ ~Full(Len(entries), Len(buckets))
  /\ LoopsHold

(* A loop always has an empty bucket to stop at: the table, and the one      *)
(* rehash() fills, are never full (spelling.h:112, :229).                    *)
EmptyBucket ==
  /\ \E i \in DOMAIN buckets : buckets[i] = 0
  /\ step = "rehash" => \E i \in DOMAIN fresh : fresh[i] = 0

(* The table keeps the promise of Interning: a handle denotes its text       *)
(* forever, whatever is built, cancelled or rehashed after it; a text has    *)
(* one handle; and every operation answers with the handle of what the       *)
(* client asked for.                                                         *)
Promise == INSTANCE Interning WITH known <- Texts
HandlesDenoteTheirTexts == Promise!Spec

(* finalize(), intern() and lookup() return. *)
EveryOperationReturns == step # "idle" ~> step = "idle"
============================================================================
