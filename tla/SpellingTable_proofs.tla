----------------------- MODULE SpellingTable_proofs -----------------------
(* Theorems about SpellingTable, for every alphabet, hash function, initial *)
(* number of buckets and limit.                                             *)
EXTENDS SpellingTable, FiniteSetTheorems, TLAPS

LEMMA Bound == MaxLength \in Nat /\ MaxEntries \in Nat /\ InitialBuckets \in Nat
               /\ InitialBuckets > 1
  BY SpellingTableAssumption

LEMMA TextIsSequence ==
  ASSUME NEW text \in Text
  PROVE  /\ text \in Seq(Character)
         /\ Len(text) \in 0..MaxLength
         /\ text \in [1..Len(text) -> Character]
  <1>1. PICK n \in 0..MaxLength : text \in [1..n -> Character]
    BY DEF Text
  <1> QED
    BY <1>1, Bound

LEMMA SequenceIsText ==
  ASSUME NEW n \in 0..MaxLength, NEW text \in [1..n -> Character]
  PROVE  text \in Text
  BY DEF Text

LEMMA SequenceFunction ==
  ASSUME NEW S, NEW seq \in Seq(S)
  PROVE  /\ Len(seq) \in Nat
         /\ seq \in [1..Len(seq) -> S]
         /\ seq = [k \in 1..Len(seq) |-> seq[k]]
  OBVIOUS

LEMMA AppendedSequence ==
  ASSUME NEW S, NEW seq \in Seq(S), NEW e \in S
  PROVE  /\ Append(seq, e) \in Seq(S)
         /\ Len(Append(seq, e)) = Len(seq) + 1
         /\ \A k \in 1..Len(seq) : Append(seq, e)[k] = seq[k]
         /\ Append(seq, e)[Len(seq) + 1] = e
  OBVIOUS

LEMMA ChangedSequence ==
  ASSUME NEW seq \in Seq(Nat), NEW i \in 1..Len(seq), NEW e \in Nat
  PROVE  [seq EXCEPT ![i] = e] \in Seq(Nat) /\ Len([seq EXCEPT ![i] = e]) = Len(seq)
  OBVIOUS

LEMMA EmptyText == << >> \in Text
  <1>1. << >> \in [1..0 -> Character]
    OBVIOUS
  <1>2. 0 \in 0..MaxLength
    BY Bound
  <1> QED
    BY <1>1, <1>2 DEF Text

LEMMA HomeType ==
  ASSUME NEW text \in Text, NEW n \in Nat, n > 0
  PROVE  Home(text, n) \in 0..n - 1
  <1>1. Hash[text] \in Nat
    BY SpellingTableAssumption
  <1> QED
    BY <1>1 DEF Home

----------------------------------------------------------------------------
(* The way of a probe around the table. *)

LEMMA PassedNext ==
  ASSUME NEW n \in Nat, NEW s \in 0..n - 1, NEW i \in 0..n - 1
  PROVE  /\ After(i, n) \in 0..n - 1
         /\ Passed(s, After(i, n), n) \subseteq Passed(s, i, n) \cup {i}
         /\ Passed(s, s, n) = {}
         /\ Passed(s, i, n) \subseteq 0..n - 1
  BY DEF After, Passed

(* Of two buckets on the way, one comes before the other. *)
LEMMA PassedOrder ==
  ASSUME NEW n \in Nat, NEW s \in 0..n - 1, NEW i \in 0..n - 1, NEW j \in 0..n - 1,
         i # j, i \notin Passed(s, j, n)
  PROVE  j \in Passed(s, i, n)
  BY DEF Passed

(* An entry put into the empty bucket its probe stopped at can be found, and *)
(* so can the others.                                                        *)
LEMMA PlacedEntry ==
  ASSUME NEW table \in Seq(Nat), NEW m \in Nat, NEW texts,
         \A h \in 1..m + 1 : texts[h] \in Text, Len(table) > 0, Indexes(table, m, texts),
         NEW j \in 0..Len(table) - 1, table[j + 1] = 0,
         \A k \in Passed(Home(texts[m + 1], Len(table)), j, Len(table)) : table[k + 1] # 0
  PROVE  Indexes([table EXCEPT ![j + 1] = m + 1], m + 1, texts)
  <1> DEFINE new == [table EXCEPT ![j + 1] = m + 1]
             n == Len(table)
  <1>1. new \in Seq(Nat) /\ Len(new) = n /\ n \in Nat
    OBVIOUS
  <1>2. \A i \in 0..n - 1 : new[i + 1] = IF i = j THEN m + 1 ELSE table[i + 1]
    OBVIOUS
  <1>3. \A i \in 0..n - 1 : table[i + 1] \in Nat /\ table[i + 1] <= m
    BY DEF Indexes
  <1>4. \A i \in 0..n - 1 : table[i + 1] # 0 => new[i + 1] # 0
    BY <1>2
  <1>5. \A i \in 0..n - 1 : new[i + 1] <= m + 1
    BY <1>2, <1>3
  <1>6. \A i, k \in 0..n - 1 : new[i + 1] = new[k + 1] /\ new[i + 1] # 0 => i = k
    BY <1>2, <1>3 DEF Indexes
  <1>7. ASSUME NEW h \in 1..m + 1
        PROVE  \E i \in 0..n - 1 :
                 /\ new[i + 1] = h
                 /\ \A k \in Passed(Home(texts[h], n), i, n) : new[k + 1] # 0
    <2>1. Home(texts[h], n) \in 0..n - 1
      BY <1>1, HomeType
    <2>2. CASE h = m + 1
      <3>1. Passed(Home(texts[h], n), j, n) \subseteq 0..n - 1
        BY <2>1, <1>1, PassedNext
      <3> QED
        BY <2>2, <3>1, <1>2, <1>4
    <2>3. CASE h # m + 1
      <3>0. h \in 1..m
        BY <2>3
      <3>1. PICK i \in 0..n - 1 :
              /\ table[i + 1] = h
              /\ \A k \in Passed(Home(texts[h], n), i, n) : table[k + 1] # 0
        BY <3>0 DEF Indexes
      <3>2. Passed(Home(texts[h], n), i, n) \subseteq 0..n - 1
        BY <2>1, <1>1, PassedNext
      <3>3. i # j
        BY <3>1
      <3>4. new[i + 1] = h
        BY <3>1, <3>3, <1>2
      <3> QED
        BY <3>1, <3>2, <3>4, <1>4
    <2> QED
      BY <2>2, <2>3
  <1> HIDE DEF new
  <1> QED
    BY <1>1, <1>5, <1>6, <1>7 DEF Indexes, new

(* A probe that met no empty bucket and not the text finds it nowhere. *)
LEMMA ProbeIsComplete ==
  ASSUME NEW table \in Seq(Nat), NEW m \in Nat, NEW texts,
         \A h \in 1..m : texts[h] \in Text, Len(table) > 0, Indexes(table, m, texts), NEW text \in Text,
         NEW e \in 0..Len(table) - 1, table[e + 1] = 0,
         \A k \in Passed(Home(text, Len(table)), e, Len(table)) :
           table[k + 1] # 0 /\ texts[table[k + 1]] # text
  PROVE  \A h \in 1..m : texts[h] # text
  <1> SUFFICES ASSUME NEW h \in 1..m, texts[h] = text PROVE FALSE
    OBVIOUS
  <1> DEFINE n == Len(table)
  <1>1. Home(text, n) \in 0..n - 1 /\ n \in Nat
    BY HomeType
  <1>2. PICK i \in 0..n - 1 :
          table[i + 1] = h /\ \A k \in Passed(Home(text, n), i, n) : table[k + 1] # 0
    BY DEF Indexes
  <1>3. e # i /\ e \notin Passed(Home(text, n), i, n)
    BY <1>2
  <1>4. i \in Passed(Home(text, n), e, n)
    BY <1>1, <1>3, PassedOrder
  <1> QED
    BY <1>2, <1>4

(* Fewer entries than buckets leave a bucket empty. *)
LEMMA EmptyPlace ==
  ASSUME NEW table \in Seq(Nat), NEW m \in Nat, m < Len(table),
         \A i \in 0..Len(table) - 1 : table[i + 1] <= m,
         \A i, j \in 0..Len(table) - 1 : table[i + 1] = table[j + 1] /\ table[i + 1] # 0 => i = j
  PROVE  \E i \in DOMAIN table : table[i] = 0
  <1> SUFFICES ASSUME \A i \in DOMAIN table : table[i] # 0 PROVE FALSE
    OBVIOUS
  <1>1. DOMAIN table = 1..Len(table) /\ Len(table) \in Nat
    OBVIOUS
  <1>2. \A i \in 1..Len(table) : table[i] \in 1..m
    <2> TAKE i \in 1..Len(table)
    <2>1. i - 1 \in 0..Len(table) - 1 /\ (i - 1) + 1 = i
      BY <1>1
    <2>2. table[(i - 1) + 1] <= m
      BY <2>1
    <2>3. table[i] \in Nat /\ table[i] # 0
      BY <1>1
    <2> QED
      BY <2>1, <2>2, <2>3
  <1>3. table \in [1..Len(table) -> 1..m]
    BY <1>1, <1>2
  <1>4. /\ IsFiniteSet(1..Len(table)) /\ IsFiniteSet(1..m)
        /\ Cardinality(1..m) < Cardinality(1..Len(table))
    <2>1. /\ IsFiniteSet(1..m)
          /\ Cardinality(1..m) = IF 1 > m THEN 0 ELSE m - 1 + 1
      BY FS_Interval
    <2>2. /\ IsFiniteSet(1..Len(table))
          /\ Cardinality(1..Len(table)) = IF 1 > Len(table) THEN 0 ELSE Len(table) - 1 + 1
      BY <1>1, FS_Interval
    <2> QED
      BY <2>1, <2>2, <1>1
  <1>5. PICK x, y \in 1..Len(table) : x # y /\ table[x] = table[y]
    BY <1>3, <1>4, FS_PigeonHole
  <1>6. x - 1 \in 0..Len(table) - 1 /\ y - 1 \in 0..Len(table) - 1
        /\ (x - 1) + 1 = x /\ (y - 1) + 1 = y
    BY <1>1
  <1>7. table[x] # 0
    BY <1>1
  <1>8. x - 1 = y - 1
    BY <1>5, <1>6, <1>7
  <1> QED
    BY <1>5, <1>8, <1>1

----------------------------------------------------------------------------
(* The texts in the store. *)

LEMMA EntryType ==
  ASSUME TypeOK, StoreHolds, NEW h \in DOMAIN entries
  PROVE  /\ entries[h] \in Entries /\ h \in 1..Len(entries)
         /\ Committed \in Nat /\ Committed <= Len(bytes)
         /\ entries[h].offset + entries[h].length <= Committed
         /\ EntryView(h) \in Text /\ Texts[h] = EntryView(h)
  <1>a. /\ entries \in Seq(Entries) /\ Len(bytes) \in Nat
        /\ building \in BOOLEAN /\ building_start \in Nat
    BY DEF TypeOK
  <1>b. entries[h] \in Entries /\ h \in 1..Len(entries)
    BY <1>a
  <1>c. entries[h].length <= MaxLength /\ entries[h].offset + entries[h].length <= Committed
    BY DEF StoreHolds
  <1>d. Committed \in Nat /\ Committed <= Len(bytes)
    BY <1>a DEF StoreHolds, Committed
  <1>1. /\ entries[h] \in Entries /\ h \in 1..Len(entries)
        /\ Committed \in Nat /\ Committed <= Len(bytes)
        /\ entries[h].offset + entries[h].length <= Committed
        /\ entries[h].length \in 0..MaxLength
    BY <1>b, <1>c, <1>d, Bound DEF Entries
  <1>2. EntryView(h) \in [1..entries[h].length -> Character]
    <2>1. bytes \in Seq(Character) /\ entries[h].offset \in Nat
      BY <1>1 DEF TypeOK, Entries
    <2>2. ASSUME NEW i \in 1..entries[h].length
          PROVE  bytes[entries[h].offset + i] \in Character
      <3>1. entries[h].offset + i \in 1..Len(bytes)
        BY <1>1, <2>1, <2>2
      <3> QED
        BY <2>1, <3>1
    <2> QED
      BY <2>2 DEF EntryView, View
  <1>3. EntryView(h) \in Text
    BY <1>1, <1>2, SequenceIsText
  <1>4. Texts[h] = EntryView(h)
    BY DEF Texts
  <1> QED
    BY <1>1, <1>3, <1>4

LEMMA TextsType ==
  ASSUME TypeOK, StoreHolds
  PROVE  Texts \in Seq(Text) /\ Len(Texts) = Len(entries)
  <1>1. DOMAIN entries = 1..Len(entries) /\ Len(entries) \in Nat
    BY DEF TypeOK
  <1> QED
    BY <1>1, EntryType DEF Texts

(* A step that keeps an entry and the committed bytes keeps its text. *)
LEMMA ViewKept ==
  ASSUME TypeOK, StoreHolds, NEW h \in DOMAIN entries, entries'[h] = entries[h],
         \A k \in 1..Committed : bytes'[k] = bytes[k]
  PROVE  EntryView(h)' = EntryView(h)
  <1>1. /\ entries[h].offset \in Nat /\ entries[h].length \in Nat
        /\ Committed \in Nat
        /\ entries[h].offset + entries[h].length <= Committed
    BY EntryType DEF Entries
  <1>2. \A k \in 1..entries[h].length : entries[h].offset + k \in 1..Committed
    BY <1>1
  <1> QED
    BY <1>2 DEF EntryView, View

(* A step that keeps the entries and the committed bytes keeps the texts. *)
LEMMA TextsKept ==
  ASSUME TypeOK, StoreHolds, entries' = entries,
         \A k \in 1..Committed : bytes'[k] = bytes[k]
  PROVE  /\ \A h \in DOMAIN entries : EntryView(h)' = EntryView(h)
         /\ Texts' = Texts
  <1>1. \A h \in DOMAIN entries : EntryView(h)' = EntryView(h)
    BY ViewKept
  <1> QED
    BY <1>1 DEF Texts

(* Such a step keeps what is said of the table too, if it keeps the buckets. *)
LEMMA TableKept ==
  ASSUME IInv, entries' = entries, buckets' = buckets,
         \A k \in 1..Committed : bytes'[k] = bytes[k]
  PROVE  /\ TextsDiffer'
         /\ Indexes(buckets, Len(entries), Texts)'
         /\ (~Full(Len(entries), Len(buckets)))'
  <1>1. (\A h \in DOMAIN entries : EntryView(h)' = EntryView(h)) /\ Texts' = Texts
    BY TextsKept DEF IInv
  <1>2. TextsDiffer'
    BY <1>1 DEF IInv, TextsDiffer
  <1>3. Indexes(buckets, Len(entries), Texts)'
    BY <1>1 DEF IInv, Indexes
  <1> QED
    BY <1>2, <1>3 DEF IInv, Full

----------------------------------------------------------------------------
(* The client's steps. *)

LEMMA MakeBuilderKeeps == IInv /\ MakeBuilder => IInv'
  <1> SUFFICES ASSUME IInv, MakeBuilder PROVE IInv'
    OBVIOUS
  <1> USE DEF MakeBuilder, store, loop
  <1>0. << >> \in Text
    BY EmptyText
  <1>1. TypeOK'
    BY <1>0 DEF IInv, TypeOK
  <1>2. Committed' = Committed
    BY DEF Committed
  <1>3. BuildView' = << >>
    BY DEF BuildView, View, IInv, TypeOK
  <1>4. StoreHolds'
    BY <1>2, <1>3 DEF IInv, StoreHolds, TypeOK
  <1>5. LoopsHold'
    BY DEF LoopsHold
  <1> QED
    BY <1>1, <1>4, <1>5, TableKept DEF IInv

LEMMA AppendToBuilderKeeps ==
  ASSUME NEW c \in Character PROVE IInv /\ AppendToBuilder(c) => IInv'
  <1> SUFFICES ASSUME IInv, AppendToBuilder(c) PROVE IInv'
    OBVIOUS
  <1>0. /\ bytes \in Seq(Character) /\ building = TRUE /\ building_start \in Nat
        /\ building_start <= Len(bytes) /\ BuildView = draft
        /\ draft \in Text /\ Len(draft) < MaxLength
    BY DEF IInv, TypeOK, StoreHolds, AppendToBuilder
  <1>1. /\ Len(draft) = Len(bytes) - building_start
        /\ Len(draft) \in 0..MaxLength - 1
        /\ draft \in Seq(Character)
        /\ \A k \in 1..Len(draft) : draft[k] = bytes[building_start + k]
    BY <1>0, TextIsSequence, Bound DEF BuildView, View
  <1>a. /\ draft' \in Seq(Character) /\ Len(draft') = Len(draft) + 1
        /\ \A k \in 1..Len(draft) : draft'[k] = draft[k]
        /\ draft'[Len(draft) + 1] = c
    BY <1>1, AppendedSequence DEF AppendToBuilder
  <1>b. /\ bytes' \in Seq(Character) /\ Len(bytes') = Len(bytes) + 1
        /\ \A k \in 1..Len(bytes) : bytes'[k] = bytes[k]
        /\ bytes'[Len(bytes) + 1] = c
    BY <1>0, AppendedSequence DEF AppendToBuilder
  <1>c. /\ UNCHANGED <<entries, buckets, building, building_start, answer>>
        /\ UNCHANGED <<step, request, index, fresh, moved>>
        /\ step = "idle"
    BY DEF AppendToBuilder, loop
  <1>2. draft' \in Text
    <2>1. Len(draft') \in 0..MaxLength
      BY <1>1, <1>a, Bound
    <2> QED
      BY <1>a, <2>1, SequenceFunction, SequenceIsText
  <1>3. BuildView' = draft'
    <2>1. Len(bytes') - building_start' = Len(draft') /\ building_start' = building_start
      BY <1>0, <1>1, <1>a, <1>b, <1>c
    <2>2. \A k \in 1..Len(draft') : bytes'[building_start + k] = draft'[k]
      <3> TAKE k \in 1..Len(draft')
      <3>1. CASE k = Len(draft) + 1
        <4>1. building_start + k = Len(bytes) + 1
          BY <3>1, <1>0, <1>1
        <4> QED
          BY <3>1, <4>1, <1>a, <1>b
      <3>2. CASE k \in 1..Len(draft)
        <4>1. building_start + k \in 1..Len(bytes)
          BY <3>2, <1>0, <1>1
        <4> QED
          BY <3>2, <4>1, <1>1, <1>a, <1>b
      <3> QED
        BY <3>1, <3>2, <1>1, <1>a
    <2>3. draft' = [k \in 1..Len(draft') |-> draft'[k]]
      BY <1>a, SequenceFunction
    <2> QED
      BY <2>1, <2>2, <2>3 DEF BuildView, View
  <1>4. TypeOK'
    BY <1>2, <1>b, <1>c DEF IInv, TypeOK
  <1>5. Committed' = Committed /\ Committed = building_start
    BY <1>0, <1>c DEF Committed
  <1>6. StoreHolds'
    <2>1. building_start' <= Len(bytes')
      BY <1>0, <1>b, <1>c
    <2>2. Committed' = Committed
      BY <1>5
    <2> QED
      BY <1>c, <1>3, <2>1, <2>2 DEF IInv, StoreHolds
  <1>7. LoopsHold'
    BY <1>c DEF LoopsHold
  <1>8. \A k \in 1..Committed : bytes'[k] = bytes[k]
    BY <1>0, <1>5, <1>b
  <1> QED
    BY <1>4, <1>6, <1>7, <1>8, <1>c, TableKept DEF IInv

(* What is left of the store when a build is cancelled. *)
LEMMA CancelledStore ==
  ASSUME IInv, building
  PROVE  /\ Cancelled \in Seq(Character)
         /\ Len(Cancelled) = building_start
         /\ Committed = building_start
         /\ \A k \in 1..Committed : Cancelled[k] = bytes[k]
  <1>1. bytes \in Seq(Character) /\ building_start \in Nat /\ building_start <= Len(bytes)
    BY DEF IInv, TypeOK, StoreHolds
  <1>2. Cancelled \in [1..building_start -> Character]
    BY <1>1 DEF Cancelled
  <1> QED
    BY <1>1, <1>2 DEF Cancelled, Committed

LEMMA DestroyBuilderKeeps == IInv /\ DestroyBuilder => IInv'
  <1> SUFFICES ASSUME IInv, DestroyBuilder PROVE IInv'
    OBVIOUS
  <1> USE DEF DestroyBuilder, loop
  <1>1. TypeOK'
    BY CancelledStore, EmptyText DEF IInv, TypeOK
  <1>2. Committed' = Committed
    BY CancelledStore DEF Committed
  <1>3. StoreHolds'
    BY <1>2 DEF IInv, StoreHolds
  <1>4. LoopsHold'
    BY DEF LoopsHold
  <1>5. \A k \in 1..Committed : bytes'[k] = bytes[k]
    BY CancelledStore
  <1> QED
    BY <1>1, <1>3, <1>4, <1>5, TableKept DEF IInv

LEMMA BeginKeeps ==
  ASSUME NEW by \in {"intern", "finalize", "lookup"}, NEW text \in Text,
         by = "finalize" => building /\ text = draft,
         by = "intern" => ~building
  PROVE  IInv /\ Begin(by, text) => IInv'
  <1> SUFFICES ASSUME IInv, Begin(by, text) PROVE IInv'
    OBVIOUS
  <1> USE DEF Begin, store, builder
  <1>1. Len(buckets) \in Nat /\ Len(buckets) > 1
    BY DEF IInv, TypeOK
  <1>2. Home(text, Len(buckets)) \in 0..Len(buckets) - 1
    BY <1>1, HomeType
  <1>3. TypeOK'
    BY <1>2 DEF IInv, TypeOK
  <1>4. BuildView' = BuildView /\ Committed' = Committed
    BY DEF BuildView, View, Committed
  <1>5. StoreHolds'
    BY <1>4 DEF IInv, StoreHolds, TypeOK
  <1>6. Passed(index', index', Len(buckets)) = {}
    BY <1>1, <1>2, PassedNext
  <1>7. LoopsHold'
    BY <1>2, <1>6 DEF LoopsHold, WayIsFull, Home
  <1> QED
    BY <1>3, <1>5, <1>7, TableKept DEF IInv

LEMMA ClientKeeps == IInv /\ Client => IInv'
  <1> SUFFICES ASSUME IInv, Client PROVE IInv'
    OBVIOUS
  <1>1. CASE Finalize
    <2>1. BuildView = draft /\ draft \in Text
      BY <1>1 DEF Finalize, IInv, StoreHolds, TypeOK
    <2> QED
      BY <1>1, <2>1, BeginKeeps DEF Finalize
  <1>2. ASSUME NEW text \in Text, Intern(text) \/ Lookup(text) PROVE IInv'
    BY <1>2, BeginKeeps DEF Intern, Lookup
  <1> QED
    BY <1>1, <1>2, MakeBuilderKeeps, AppendToBuilderKeeps, DestroyBuilderKeeps DEF Client

----------------------------------------------------------------------------
(* The loops' steps. *)

LEMMA BucketsType ==
  ASSUME IInv
  PROVE  /\ buckets \in Seq(Nat) /\ Len(buckets) \in Nat /\ Len(buckets) > 1
         /\ fresh \in Seq(Nat) /\ Len(fresh) \in Nat
         /\ entries \in Seq(Entries) /\ Len(entries) \in Nat
         /\ DOMAIN entries = 1..Len(entries)
         /\ request.text \in Text /\ moved \in Nat /\ draft \in Text
  BY DEF IInv, TypeOK

LEMMA HandleType ==
  ASSUME IInv, index \in 0..Len(buckets) - 1
  PROVE  Handle \in Nat /\ (Handle # 0 => Handle \in DOMAIN entries)
  <1>1. Handle \in Nat
    BY BucketsType DEF Handle
  <1>2. Handle <= Len(entries)
    BY DEF IInv, Indexes, Handle
  <1> QED
    BY <1>1, <1>2, BucketsType

(* The end of an operation. *)
LEMMA ReturnType ==
  ASSUME IInv, NEW handle \in Nat, Return(handle)
  PROVE  /\ step' = "idle" /\ LoopsHold'
         /\ request' \in [by : {"none", "intern", "finalize", "lookup"}, text : Text]
         /\ index' \in Nat /\ fresh' \in Seq(Nat) /\ moved' \in Nat
         /\ answer' \in [text : Text, handle : Nat] /\ draft' \in Text
         /\ (request.by # "finalize" => draft' = draft)
  <1>1. Asked \in Text
    BY BucketsType DEF Asked
  <1>2. request' \in [by : {"none", "intern", "finalize", "lookup"}, text : Text]
    BY EmptyText DEF Return, NoLoop, NoRequest
  <1>3. draft' \in Text
    BY EmptyText, BucketsType DEF Return
  <1> QED
    BY <1>1, <1>2, <1>3 DEF Return, NoLoop, LoopsHold

LEMMA ProbeFindsKeeps == IInv /\ ProbeFinds => IInv'
  <1> SUFFICES ASSUME IInv, ProbeFinds PROVE IInv'
    OBVIOUS
  <1>1. /\ Handle \in Nat /\ Return(Handle) /\ step # "idle"
        /\ UNCHANGED <<entries, buckets, building_start>>
    BY HandleType DEF IInv, LoopsHold, WayIsFull, ProbeFinds
  <1>2. /\ step' = "idle" /\ LoopsHold'
        /\ (request.by # "finalize" => draft' = draft)
    BY <1>1, ReturnType
  <1>3. CASE request.by = "finalize"
    <2>1. building /\ bytes' = Cancelled /\ building' = FALSE
      BY <1>1, <1>3 DEF IInv, StoreHolds, ProbeFinds
    <2>2. TypeOK'
      BY <1>1, <1>2, <2>1, CancelledStore, ReturnType DEF IInv, TypeOK
    <2>3. Committed' = Committed
      BY <2>1, CancelledStore DEF Committed
    <2>4. StoreHolds'
      BY <1>1, <1>2, <2>1, <2>3 DEF IInv, StoreHolds
    <2>5. \A k \in 1..Committed : bytes'[k] = bytes[k]
      BY <2>1, CancelledStore
    <2> QED
      BY <1>1, <1>2, <2>2, <2>4, <2>5, TableKept DEF IInv
  <1>4. CASE request.by # "finalize"
    <2>1. UNCHANGED <<bytes, building>>
      BY <1>4 DEF ProbeFinds
    <2>2. TypeOK'
      BY <1>1, <1>2, <2>1, ReturnType DEF IInv, TypeOK
    <2>3. Committed' = Committed /\ BuildView' = BuildView
      BY <1>1, <2>1 DEF Committed, BuildView, View
    <2>4. StoreHolds'
      BY <1>1, <1>2, <1>4, <2>1, <2>3 DEF IInv, StoreHolds
    <2> QED
      BY <1>1, <1>2, <2>1, <2>2, <2>4, TableKept DEF IInv
  <1> QED
    BY <1>3, <1>4

LEMMA LookupMissesKeeps == IInv /\ LookupMisses => IInv'
  <1> SUFFICES ASSUME IInv, LookupMisses PROVE IInv'
    OBVIOUS
  <1>1. Return(0) /\ UNCHANGED <<store, builder>>
    BY DEF LookupMisses
  <1>2. step' = "idle" /\ LoopsHold'
    BY <1>1, ReturnType
  <1>3. TypeOK'
    BY <1>1, <1>2, ReturnType DEF IInv, TypeOK, store, builder
  <1>4. Committed' = Committed /\ BuildView' = BuildView
    BY <1>1 DEF Committed, BuildView, View, store, builder
  <1>5. StoreHolds'
    BY <1>1, <1>2, <1>4 DEF IInv, StoreHolds, store, builder
  <1> QED
    BY <1>1, <1>2, <1>3, <1>5, TableKept DEF IInv, store

(* What an iteration that leaves the store, the builder and the request      *)
(* alone keeps.                                                              *)
LEMMA IterationKeeps ==
  ASSUME IInv, UNCHANGED <<store, builder, request, answer>>,
         step # "idle", step' \in {"probe", "rehash", "place"},
         index' \in Nat, fresh' \in Seq(Nat), moved' \in Nat, LoopsHold'
  PROVE  IInv'
  <1>1. TypeOK'
    BY DEF IInv, TypeOK, store, builder
  <1>2. Committed' = Committed /\ BuildView' = BuildView
    BY DEF Committed, BuildView, View, store, builder
  <1>3. StoreHolds'
    BY <1>2 DEF IInv, StoreHolds, store, builder
  <1> QED
    BY <1>1, <1>3, TableKept DEF IInv, store

LEMMA ProbeNextKeeps == IInv /\ ProbeNext => IInv'
  <1> SUFFICES ASSUME IInv, ProbeNext PROVE IInv'
    OBVIOUS
  <1> DEFINE n == Len(buckets)
             home == Home(request.text, n)
  <1>1. /\ step = "probe" /\ step' = "probe" /\ index' = After(index, n)
        /\ UNCHANGED <<bytes, entries, buckets, request, fresh, moved>>
        /\ buckets[index + 1] # 0 /\ EntryView(buckets[index + 1]) # request.text
    BY DEF ProbeNext, store, Handle
  <1>2. /\ index \in 0..n - 1
        /\ \A k \in Passed(home, index, n) :
             buckets[k + 1] # 0 /\ EntryView(buckets[k + 1]) # request.text
    BY <1>1 DEF IInv, LoopsHold, WayIsFull
  <1>3. home \in 0..n - 1 /\ n \in Nat
    BY BucketsType, HomeType
  <1> HIDE DEF home, n
  <1>4. /\ index' \in 0..n - 1
        /\ Passed(home, index', n) \subseteq Passed(home, index, n) \cup {index}
    BY <1>1, <1>2, <1>3, PassedNext
  <1>5. \A k \in Passed(home, index', n) :
             buckets[k + 1] # 0 /\ EntryView(buckets[k + 1]) # request.text
    BY <1>1, <1>2, <1>4
  <1>6. n' = n /\ home' = home /\ \A h : EntryView(h)' = EntryView(h)
    BY <1>1 DEF n, home, Home, EntryView, View
  <1>7. \A k \in Passed(home, index', n) :
             buckets'[k + 1] # 0 /\ EntryView(buckets[k + 1])' # request'.text
    BY <1>1, <1>5, <1>6
  <1>8. LoopsHold'
    BY <1>1, <1>4, <1>6, <1>7 DEF LoopsHold, WayIsFull, n, home
  <1>9. UNCHANGED <<store, builder, request, answer>>
    BY DEF ProbeNext
  <1> QED
    BY <1>1, <1>3, <1>4, <1>8, <1>9, BucketsType, IterationKeeps

LEMMA PlaceNextKeeps == IInv /\ PlaceNext => IInv'
  <1> SUFFICES ASSUME IInv, PlaceNext PROVE IInv'
    OBVIOUS
  <1> DEFINE n == Len(buckets)
             home == Home(request.text, n)
  <1>1. /\ step = "place" /\ step' = "place" /\ index' = After(index, n)
        /\ UNCHANGED <<bytes, entries, buckets, request, fresh, moved>>
        /\ buckets[index + 1] # 0
    BY DEF PlaceNext, store, Handle
  <1>2. /\ index \in 0..n - 1
        /\ \A k \in Passed(home, index, n) : buckets[k + 1] # 0
    BY <1>1 DEF IInv, LoopsHold, WayIsFull
  <1>3. home \in 0..n - 1 /\ n \in Nat
    BY BucketsType, HomeType
  <1>4. n' = n /\ home' = home /\ \A h : EntryView(h)' = EntryView(h)
    BY <1>1 DEF n, home, Home, EntryView, View
  <1> HIDE DEF home, n
  <1>5. /\ index' \in 0..n - 1
        /\ Passed(home, index', n) \subseteq Passed(home, index, n) \cup {index}
    BY <1>1, <1>2, <1>3, PassedNext
  <1>6. \A k \in Passed(home, index', n) : buckets'[k + 1] # 0
    BY <1>1, <1>2, <1>5
  <1>7. WayIsFull(buckets, request.text)'
    BY <1>4, <1>5, <1>6 DEF WayIsFull, n, home
  <1>8. Unknown(request.text)' /\ request'.by # "lookup" /\ ~Full(Len(entries) + 1, Len(buckets))'
    BY <1>1, <1>4 DEF IInv, LoopsHold, Unknown, Full
  <1>9. LoopsHold'
    BY <1>1, <1>7, <1>8 DEF LoopsHold
  <1>10. UNCHANGED <<store, builder, request, answer>>
    BY DEF PlaceNext
  <1> QED
    BY <1>1, <1>3, <1>5, <1>9, <1>10, BucketsType, IterationKeeps

LEMMA RehashNextKeeps == IInv /\ RehashNext => IInv'
  <1> SUFFICES ASSUME IInv, RehashNext PROVE IInv'
    OBVIOUS
  <1> DEFINE n == Len(fresh)
             home == Home(EntryView(moved + 1), n)
  <1>1. /\ step = "rehash" /\ step' = "rehash" /\ index' = After(index, n)
        /\ UNCHANGED <<bytes, entries, buckets, request, fresh, moved>>
        /\ fresh[index + 1] # 0
    BY DEF RehashNext, store
  <1>2. /\ index \in 0..n - 1
        /\ \A k \in Passed(home, index, n) : fresh[k + 1] # 0
        /\ moved + 1 \in DOMAIN entries
    BY <1>1, BucketsType DEF IInv, LoopsHold, WayIsFull
  <1>3. home \in 0..n - 1 /\ n \in Nat
    <2>1. EntryView(moved + 1) \in Text
      BY <1>2, EntryType DEF IInv
    <2> QED
      BY <1>2, <2>1, BucketsType, HomeType
  <1>4. n' = n /\ home' = home /\ \A h : EntryView(h)' = EntryView(h)
    BY <1>1 DEF n, home, Home, EntryView, View
  <1> HIDE DEF home, n
  <1>5. /\ index' \in 0..n - 1
        /\ Passed(home, index', n) \subseteq Passed(home, index, n) \cup {index}
    BY <1>1, <1>2, <1>3, PassedNext
  <1>6. \A k \in Passed(home, index', n) : fresh'[k + 1] # 0
    BY <1>1, <1>2, <1>5
  <1>7. WayIsFull(fresh, EntryView(moved + 1))'
    BY <1>4, <1>5, <1>6 DEF WayIsFull, n, home
  <1>8. Unknown(request.text)' /\ request'.by # "lookup"
    BY <1>1, <1>4 DEF IInv, LoopsHold, Unknown
  <1>9. Indexes(fresh, moved, Texts)'
    <2>1. Texts' = Texts
      BY <1>1, <1>4 DEF Texts
    <2>2. Indexes(fresh, moved, Texts)
      BY <1>1 DEF IInv, LoopsHold
    <2> QED
      BY <1>1, <2>1, <2>2
  <1>10. LoopsHold'
    BY <1>1, <1>7, <1>8, <1>9 DEF IInv, LoopsHold
  <1>11. UNCHANGED <<store, builder, request, answer>>
    BY DEF RehashNext
  <1> QED
    BY <1>1, <1>3, <1>5, <1>10, <1>11, BucketsType, IterationKeeps

LEMMA RehashPlacesKeeps == IInv /\ RehashPlaces => IInv'
  <1> SUFFICES ASSUME IInv, RehashPlaces PROVE IInv'
    OBVIOUS
  <1> DEFINE n == Len(fresh)
  <1>1. /\ step = "rehash" /\ fresh[index + 1] = 0
        /\ fresh' = [fresh EXCEPT ![index + 1] = moved + 1]
        /\ moved' = moved + 1
        /\ UNCHANGED <<bytes, entries, building, building_start, draft, request, answer>>
    BY DEF RehashPlaces, builder
  <1>2. /\ index \in 0..n - 1
        /\ \A k \in Passed(Home(EntryView(moved + 1), n), index, n) : fresh[k + 1] # 0
        /\ moved + 1 \in DOMAIN entries /\ moved + 1 <= Len(entries)
        /\ n = 2 * Len(buckets)
        /\ Indexes(fresh, moved, Texts) /\ Unknown(request.text) /\ request.by # "lookup"
    <2>1. /\ n = 2 * Len(buckets) /\ moved < Len(entries) /\ Indexes(fresh, moved, Texts)
          /\ WayIsFull(fresh, EntryView(moved + 1))
          /\ Unknown(request.text) /\ request.by # "lookup"
      BY <1>1 DEF IInv, LoopsHold
    <2>2. moved + 1 \in DOMAIN entries /\ moved + 1 <= Len(entries)
      BY <2>1, BucketsType
    <2>3. /\ index \in 0..n - 1
          /\ \A k \in Passed(Home(EntryView(moved + 1), n), index, n) : fresh[k + 1] # 0
      BY <2>1 DEF WayIsFull
    <2> QED
      BY <2>1, <2>2, <2>3
  <1>3. /\ fresh \in Seq(Nat) /\ n \in Nat /\ n > 2
        /\ fresh' \in Seq(Nat) /\ Len(fresh') = n
        /\ moved \in Nat /\ moved + 1 \in Nat
    BY <1>1, <1>2, BucketsType
  <1>4. \A h \in 1..moved + 1 : Texts[h] \in Text /\ Texts[h] = EntryView(h)
    <2> TAKE h \in 1..moved + 1
    <2>1. h \in DOMAIN entries
      BY <1>2, <1>3, BucketsType
    <2> QED
      BY <2>1, EntryType DEF IInv
  <1>5. Indexes(fresh', moved + 1, Texts)
    <2>1. \A k \in Passed(Home(Texts[moved + 1], n), index, n) : fresh[k + 1] # 0
      BY <1>2, <1>3, <1>4
    <2>2. n > 0 /\ \A h \in 1..moved + 1 : Texts[h] \in Text
      BY <1>3, <1>4
    <2> HIDE DEF Texts
    <2> QED
      BY <1>1, <1>2, <1>3, <2>1, <2>2, PlacedEntry
  <1>6. (\A h : EntryView(h)' = EntryView(h)) /\ Texts' = Texts
    BY <1>1 DEF EntryView, View, Texts
  <1>7. Indexes(fresh, moved, Texts)'
    BY <1>1, <1>5, <1>6
  <1>8. Unknown(request.text)' /\ request'.by # "lookup"
    BY <1>1, <1>2, <1>6 DEF Unknown
  <1>9. CASE moved + 1 < Len(entries)
    <2>1. /\ index' = Home(EntryView(moved + 2), n)
          /\ buckets' = buckets /\ step' = step
      BY <1>9 DEF RehashPlaces
    <2>2. moved + 2 \in DOMAIN entries
      BY <1>3, <1>9, BucketsType
    <2>3. index' \in 0..n - 1
      BY <2>1, <2>2, <1>3, EntryType, HomeType DEF IInv
    <2>4. Home(EntryView(moved + 1), Len(fresh))' = index'
      <3>1. moved' + 1 = moved + 2
        BY <1>1, <1>3
      <3>2. EntryView(moved + 1)' = EntryView(moved + 2)
        BY <3>1, <1>1 DEF EntryView, View
      <3> QED
        BY <1>3, <2>1, <3>2 DEF Home
    <2>5. WayIsFull(fresh, EntryView(moved + 1))'
      <3>1. Passed(index', index', n) = {}
        BY <1>3, <2>3, PassedNext
      <3> QED
        BY <1>3, <2>3, <2>4, <3>1 DEF WayIsFull
    <2>6. LoopsHold'
      BY <1>1, <1>2, <1>3, <1>7, <1>8, <1>9, <2>1, <2>5 DEF LoopsHold
    <2>7. UNCHANGED <<store, builder, request, answer>>
      BY <1>1, <2>1 DEF store, builder
    <2> QED
      BY <1>1, <1>3, <2>1, <2>3, <2>6, <2>7, IterationKeeps
  <1>10. CASE ~(moved + 1 < Len(entries))
    <2>1. /\ index' = Home(request.text, n)
          /\ buckets' = fresh' /\ step' = "place"
      BY <1>10 DEF RehashPlaces
    <2>2. moved + 1 = Len(entries)
      <3>1. Len(entries) \in Nat /\ moved \in Nat /\ moved + 1 <= Len(entries)
        BY <1>2, BucketsType
      <3> QED
        BY <1>10, <3>1
    <2>3. index' \in 0..n - 1
      <3>1. request.text \in Text /\ n > 0
        BY <1>3, BucketsType
      <3> QED
        BY <2>1, <1>3, <3>1, HomeType
    <2>4. TypeOK'
      BY <1>1, <1>3, <2>1, <2>3 DEF IInv, TypeOK
    <2>5. StoreHolds'
      <3>1. Committed' = Committed /\ BuildView' = BuildView
        BY <1>1 DEF Committed, BuildView, View
      <3> QED
        BY <1>1, <2>1, <3>1 DEF IInv, StoreHolds
    <2>6. TextsDiffer'
      BY <1>1, <1>6 DEF IInv, TextsDiffer
    <2>7. Indexes(buckets, Len(entries), Texts)'
      BY <1>1, <1>5, <1>6, <2>1, <2>2
    <2>8. ~Full(Len(entries), Len(buckets))' /\ ~Full(Len(entries) + 1, Len(buckets))'
      <3>1. Len(buckets') = 2 * Len(buckets) /\ Len(entries') = Len(entries)
        BY <1>1, <1>2, <1>3, <2>1
      <3>2. Len(buckets) \in Nat /\ Len(buckets) > 1 /\ Len(entries) \in Nat
        BY BucketsType
      <3>3. ~(3 * Len(entries) > 2 * Len(buckets))
        BY DEF IInv, Full
      <3>4. /\ ~(3 * Len(entries) > 2 * (2 * Len(buckets)))
            /\ ~(3 * (Len(entries) + 1) > 2 * (2 * Len(buckets)))
        BY <3>2, <3>3
      <3> QED
        BY <3>1, <3>4 DEF Full
    <2>9. WayIsFull(buckets, request.text)'
      <3>1. Passed(index', index', n) = {}
        BY <1>3, <2>3, PassedNext
      <3>2. Home(request.text, Len(buckets))' = index'
        BY <1>1, <1>3, <2>1 DEF Home
      <3> QED
        BY <1>3, <2>1, <2>3, <3>1, <3>2 DEF WayIsFull
    <2>10. LoopsHold'
      BY <1>8, <2>1, <2>8, <2>9 DEF LoopsHold
    <2> QED
      BY <2>4, <2>5, <2>6, <2>7, <2>8, <2>10 DEF IInv
  <1> QED
    BY <1>9, <1>10

LEMMA IndexesOfSameTexts ==
  ASSUME NEW table, NEW m \in Nat, NEW texts, NEW others, Indexes(table, m, texts),
         \A h \in 1..m : others[h] = texts[h]
  PROVE  Indexes(table, m, others)
  BY DEF Indexes

(* A new entry puts the text asked for behind the others. *)
LEMMA CommittedTexts ==
  ASSUME IInv, Commit, step # "idle", request.by # "lookup", index \in 0..Len(buckets) - 1
  PROVE  /\ TypeOK' /\ StoreHolds'
         /\ Len(entries') = Len(entries) + 1
         /\ \A h \in DOMAIN entries : EntryView(h)' = EntryView(h)
         /\ EntryView(Len(entries))' = request.text
         /\ buckets' = [buckets EXCEPT ![index + 1] = Len(entries) + 1]
         /\ step' = "idle" /\ LoopsHold'
  <1> DEFINE length == Len(request.text)
             last == Len(entries) + 1
  <1>1. /\ entries \in Seq(Entries) /\ bytes \in Seq(Character)
        /\ Len(entries) \in Nat /\ Len(bytes) \in Nat /\ last \in Nat
        /\ building \in BOOLEAN /\ building_start \in Nat
        /\ building <=> request.by = "finalize"
    BY DEF IInv, TypeOK, StoreHolds
  <1>2. /\ request.text \in Seq(Character) /\ length \in 0..MaxLength
        /\ request.text = [k \in 1..length |-> request.text[k]]
    BY BucketsType, TextIsSequence, SequenceFunction
  <1>3. /\ Return(last) /\ UNCHANGED building_start
        /\ buckets' = [buckets EXCEPT ![index + 1] = last]
    BY DEF Commit
  <1>4. /\ step' = "idle" /\ LoopsHold'
        /\ request' \in [by : {"none", "intern", "finalize", "lookup"}, text : Text]
        /\ index' \in Nat /\ fresh' \in Seq(Nat) /\ moved' \in Nat
        /\ answer' \in [text : Text, handle : Nat] /\ draft' \in Text
    BY <1>1, <1>3, ReturnType
  <1> DEFINE Extends(offset) ==
          /\ entries' = Append(entries, [offset |-> offset, length |-> length])
          /\ building' = FALSE
          /\ bytes' \in Seq(Character)
          /\ offset + length = Len(bytes')
          /\ \A k \in 1..Committed : bytes'[k] = bytes[k]
          /\ Committed <= Len(bytes')
          /\ \A k \in 1..length : bytes'[offset + k] = request.text[k]
  <1>5. PICK offset \in Nat : Extends(offset)
    <2>1. CASE request.by = "finalize"
      <3>1. /\ request.text = [k \in 1..Len(bytes) - building_start |-> bytes[building_start + k]]
            /\ building_start <= Len(bytes) /\ Committed = building_start
        BY <2>1, <1>1 DEF IInv, StoreHolds, BuildView, View, Committed
      <3>2. length = Len(bytes) - building_start
        BY <3>1, <1>1
      <3>3. /\ entries' = Append(entries, [offset |-> building_start, length |-> length])
            /\ bytes' = bytes /\ building' = FALSE
        BY <2>1 DEF Commit
      <3>4. building_start + length = Len(bytes)
        BY <1>1, <3>2
      <3>5. \A k \in 1..length : request.text[k] = bytes[building_start + k]
        BY <3>1, <3>2
      <3>6. Extends(building_start)
        BY <1>1, <3>1, <3>3, <3>4, <3>5
      <3> QED
        BY <1>1, <3>6
    <2>2. CASE request.by # "finalize"
      <3>1. /\ entries' = Append(entries, [offset |-> Len(bytes), length |-> length])
            /\ bytes' = bytes \o request.text /\ building' = building
        BY <2>2 DEF Commit
      <3>2. Committed = Len(bytes) /\ building' = FALSE
        BY <3>1, <2>2, <1>1 DEF Committed
      <3>3. /\ bytes' \in Seq(Character) /\ Len(bytes') = Len(bytes) + length
            /\ \A k \in 1..Len(bytes) : bytes'[k] = bytes[k]
            /\ \A k \in 1..length : bytes'[Len(bytes) + k] = request.text[k]
        BY <3>1, <1>1, <1>2
      <3>4. Extends(Len(bytes))
        BY <1>1, <1>2, <3>1, <3>2, <3>3
      <3> QED
        BY <1>1, <3>4
    <2> QED
      BY <2>1, <2>2
  <1>6. /\ [offset |-> offset, length |-> length] \in Entries
        /\ entries' \in Seq(Entries) /\ Len(entries') = last
        /\ \A h \in 1..Len(entries) : entries'[h] = entries[h]
        /\ entries'[last] = [offset |-> offset, length |-> length]
    <2>1. [offset |-> offset, length |-> length] \in Entries
      BY <1>2 DEF Entries
    <2> QED
      BY <1>1, <1>5, <2>1, AppendedSequence
  <1>7. \A h \in DOMAIN entries : EntryView(h)' = EntryView(h)
    <2> TAKE h \in DOMAIN entries
    <2>1. entries'[h] = entries[h]
      BY <1>1, <1>6
    <2>2. \A k \in 1..Committed : bytes'[k] = bytes[k]
      BY <1>5
    <2> QED
      BY <2>1, <2>2, ViewKept DEF IInv
  <1>8. EntryView(Len(entries))' = request.text
    <2>1. /\ entries'[Len(entries')].offset = offset
          /\ entries'[Len(entries')].length = length
      BY <1>6
    <2>2. \A k \in 1..length : bytes'[offset + k] = request.text[k]
      BY <1>5
    <2>3. EntryView(Len(entries))' = [k \in 1..length |-> bytes'[offset + k]]
      BY <2>1 DEF EntryView, View
    <2>4. [k \in 1..length |-> bytes'[offset + k]] = [k \in 1..length |-> request.text[k]]
      BY <2>2
    <2> QED
      BY <1>2, <2>3, <2>4
  <1>9. TypeOK'
    <2>1. buckets' \in Seq(Nat) /\ Len(buckets') = Len(buckets)
      <3>1. index + 1 \in 1..Len(buckets)
        BY BucketsType
      <3> QED
        BY <1>1, <1>3, <3>1, BucketsType, ChangedSequence
    <2> QED
      BY <1>3, <1>4, <1>5, <1>6, <2>1, BucketsType DEF IInv, TypeOK
  <1>10. StoreHolds'
    <2>1. Committed' = Len(bytes')
      BY <1>5 DEF Committed
    <2>2. DOMAIN entries' = 1..Len(entries) + 1
      BY <1>6
    <2>3. ASSUME NEW h \in DOMAIN entries'
          PROVE  /\ entries'[h].length <= MaxLength
                 /\ entries'[h].offset + entries'[h].length <= Committed'
      <3>1. CASE h = last
        BY <3>1, <1>2, <1>5, <1>6, <2>1, Bound
      <3>2. CASE h \in 1..Len(entries)
        <4>1. /\ entries[h].length <= MaxLength
              /\ entries[h].offset + entries[h].length <= Committed
          BY <3>2, <1>1 DEF IInv, StoreHolds
        <4>2. entries[h] \in Entries /\ Committed \in Nat
          BY <3>2, <1>1 DEF Committed
        <4>3. entries'[h] = entries[h] /\ Committed <= Len(bytes') /\ Len(bytes') \in Nat
          BY <3>2, <1>5, <1>6
        <4>4. entries[h].offset \in Nat /\ entries[h].length \in Nat
          BY <4>2 DEF Entries
        <4> QED
          BY <4>1, <4>2, <4>3, <4>4, <2>1
      <3> QED
        BY <2>2, <3>1, <3>2, <1>1
    <2> QED
      BY <1>4, <1>5, <2>3 DEF StoreHolds
  <1> QED
    BY <1>3, <1>4, <1>6, <1>7, <1>8, <1>9, <1>10

LEMMA CommitKeeps ==
  ASSUME IInv, Commit, step # "idle", request.by # "lookup",
         Handle = 0, Unknown(request.text), WayIsFull(buckets, request.text),
         ~Full(Len(entries) + 1, Len(buckets))
  PROVE  IInv'
  <1> DEFINE n == Len(buckets)
             m == Len(entries)
  <1>1. /\ buckets \in Seq(Nat) /\ n \in Nat /\ n > 0
        /\ m \in Nat /\ DOMAIN entries = 1..m /\ request.text \in Text
        /\ Indexes(buckets, m, Texts) /\ index \in 0..n - 1 /\ buckets[index + 1] = 0
        /\ \A k \in Passed(Home(request.text, n), index, n) : buckets[k + 1] # 0
    BY BucketsType DEF IInv, WayIsFull, Handle
  <1>2. /\ TypeOK' /\ StoreHolds' /\ LoopsHold' /\ Len(entries') = m + 1
        /\ \A h \in 1..m : EntryView(h)' = EntryView(h)
        /\ EntryView(Len(entries))' = request.text
        /\ buckets' = [buckets EXCEPT ![index + 1] = m + 1]
    BY <1>1, CommittedTexts
  <1>3. DOMAIN entries' = 1..m + 1
    BY <1>2 DEF TypeOK
  <1>4. \A h \in 1..m : Texts'[h] = Texts[h] /\ Texts[h] \in Text
    <2> TAKE h \in 1..m
    <2>1. Texts[h] = EntryView(h) /\ EntryView(h) \in Text
      BY <1>1, EntryType DEF IInv
    <2>2. Texts'[h] = EntryView(h)'
      BY <1>1, <1>3 DEF Texts
    <2> QED
      BY <1>2, <2>1, <2>2
  <1>5. Texts'[m + 1] = request.text
    <2>1. Texts'[Len(entries')] = EntryView(Len(entries))'
      BY <1>1, <1>2, <1>3 DEF Texts
    <2> QED
      BY <1>2, <2>1
  <1>6. TextsDiffer'
    <2>1. \A h \in 1..m : Texts[h] = EntryView(h)
      BY <1>1 DEF Texts
    <2>2. \A h \in 1..m : Texts[h] # request.text
      BY <1>1, <2>1 DEF Unknown
    <2>3. \A g, h \in 1..m : Texts[g] = Texts[h] => g = h
      <3>1. \A g, h \in 1..m : EntryView(g) = EntryView(h) => g = h
        BY <1>1 DEF IInv, TextsDiffer
      <3> QED
        BY <2>1, <3>1
    <2>4. \A g, h \in 1..m + 1 : Texts'[g] = Texts'[h] => g = h
      <3> TAKE g, h \in 1..m + 1
      <3>1. (g \in 1..m \/ g = m + 1) /\ (h \in 1..m \/ h = m + 1)
        BY <1>1
      <3> QED
        BY <1>4, <1>5, <2>2, <2>3, <3>1
    <2>5. \A h \in 1..m + 1 : EntryView(h)' = Texts'[h]
      BY <1>3 DEF Texts
    <2> QED
      BY <1>3, <2>4, <2>5 DEF TextsDiffer
  <1>7. Indexes(buckets', m + 1, Texts')
    <2>1. Indexes(buckets, m, Texts')
      BY <1>1, <1>4, IndexesOfSameTexts
    <2>2. \A h \in 1..m + 1 : Texts'[h] \in Text
      BY <1>1, <1>4, <1>5
    <2> HIDE DEF Texts
    <2> QED
      BY <1>1, <1>2, <1>5, <2>1, <2>2, PlacedEntry
  <1>8. ~Full(Len(entries), Len(buckets))'
    BY <1>1, <1>2 DEF Full
  <1> QED
    BY <1>2, <1>6, <1>7, <1>8 DEF IInv

LEMMA PlaceEndsKeeps == IInv /\ PlaceEnds => IInv'
  BY CommitKeeps DEF PlaceEnds, IInv, LoopsHold

(* A probe that stops at an empty bucket knows that the text is not stored. *)
LEMMA ProbedIsUnknown ==
  ASSUME IInv, step = "probe", Handle = 0
  PROVE  Unknown(request.text)
  <1> DEFINE n == Len(buckets)
  <1>1. /\ buckets \in Seq(Nat) /\ n \in Nat /\ n > 0
        /\ Len(entries) \in Nat /\ DOMAIN entries = 1..Len(entries) /\ request.text \in Text
        /\ Indexes(buckets, Len(entries), Texts) /\ index \in 0..n - 1 /\ buckets[index + 1] = 0
    BY BucketsType DEF IInv, LoopsHold, WayIsFull, Handle
  <1>2. \A h \in 1..Len(entries) : Texts[h] = EntryView(h) /\ Texts[h] \in Text
    BY <1>1, EntryType DEF IInv
  <1>3. \A k \in Passed(Home(request.text, n), index, n) :
          buckets[k + 1] # 0 /\ Texts[buckets[k + 1]] # request.text
    <2> TAKE k \in Passed(Home(request.text, n), index, n)
    <2>1. buckets[k + 1] # 0 /\ EntryView(buckets[k + 1]) # request.text
      BY DEF IInv, LoopsHold, WayIsFull
    <2>2. k \in 0..n - 1
      BY <1>1, HomeType, PassedNext
    <2>3. buckets[k + 1] \in 1..Len(entries)
      <3>1. buckets[k + 1] <= Len(entries)
        BY <1>1, <2>2 DEF Indexes
      <3>2. buckets[k + 1] \in Nat
        BY <1>1, <2>2
      <3> QED
        BY <1>1, <2>1, <3>1, <3>2
    <2> QED
      BY <1>2, <2>1, <2>3
  <1>4. \A h \in 1..Len(entries) : Texts[h] # request.text
    <2>1. \A h \in 1..Len(entries) : Texts[h] \in Text
      BY <1>2
    <2> QED
      BY <1>1, <1>3, <2>1, ProbeIsComplete
  <1> QED
    BY <1>1, <1>2, <1>4 DEF Unknown

LEMMA ProbeMissesKeeps == IInv /\ ProbeMisses => IInv'
  <1> SUFFICES ASSUME IInv, ProbeMisses PROVE IInv'
    OBVIOUS
  <1>1. step = "probe" /\ Handle = 0 /\ request.by # "lookup"
    BY DEF ProbeMisses
  <1>2. Unknown(request.text) /\ WayIsFull(buckets, request.text)
    BY <1>1, ProbedIsUnknown DEF IInv, LoopsHold
  <1>3. CASE ~Full(Len(entries) + 1, Len(buckets))
    BY <1>1, <1>2, <1>3, CommitKeeps DEF ProbeMisses
  <1>4. CASE Full(Len(entries) + 1, Len(buckets))
    <2> DEFINE n == 2 * Len(buckets)
    <2>1. /\ step' = "rehash" /\ fresh' = [i \in 1..n |-> 0] /\ moved' = 0
          /\ index' = Home(EntryView(1), n)
          /\ UNCHANGED <<store, builder, request, answer>>
      BY <1>4 DEF ProbeMisses
    <2>2. n \in Nat /\ n > 0 /\ fresh' \in Seq(Nat) /\ Len(fresh') = n
      BY <2>1, BucketsType
    <2>3. 0 < Len(entries) /\ 1 \in DOMAIN entries
      BY <1>4, BucketsType DEF Full
    <2>4. index' \in 0..n - 1
      BY <2>1, <2>2, <2>3, EntryType, HomeType DEF IInv
    <2>5. EntryView(1)' = EntryView(1) /\ Unknown(request.text)' /\ Len(entries') = Len(entries)
      BY <1>2, <2>1 DEF store, EntryView, View, Unknown
    <2>6. Indexes(fresh, moved, Texts)'
      <3>1. \A i \in 0..Len(fresh') - 1 : fresh'[i + 1] = 0
        BY <2>1, <2>2
      <3>2. moved' = 0
        BY <2>1
      <3> QED
        BY <3>1, <3>2 DEF Indexes
    <2>7. WayIsFull(fresh, EntryView(moved + 1))'
      <3>1. EntryView(moved + 1)' = EntryView(1)'
        BY <2>1 DEF EntryView, View
      <3>2. Home(EntryView(moved + 1), Len(fresh))' = index'
        BY <2>1, <2>2, <2>5, <3>1 DEF Home
      <3>3. Passed(index', index', n) = {}
        BY <2>2, <2>4, PassedNext
      <3> QED
        BY <2>2, <2>4, <3>2, <3>3 DEF WayIsFull
    <2>8. LoopsHold'
      BY <1>1, <2>1, <2>2, <2>3, <2>5, <2>6, <2>7 DEF LoopsHold, store
    <2> QED
      BY <1>1, <2>1, <2>2, <2>4, <2>8, IterationKeeps
  <1> QED
    BY <1>3, <1>4

----------------------------------------------------------------------------
LEMMA InitHolds == Init => IInv
  <1> SUFFICES ASSUME Init PROVE IInv
    OBVIOUS
  <1>1. /\ buckets = [i \in 1..InitialBuckets |-> 0] /\ entries = << >> /\ bytes = << >>
        /\ step = "idle" /\ building = FALSE
    BY DEF Init
  <1>2. buckets \in Seq(Nat) /\ Len(buckets) = InitialBuckets
    BY <1>1, Bound
  <1>3. TypeOK
    <2>1. request \in [by : {"none", "intern", "finalize", "lookup"}, text : Text]
      BY EmptyText DEF Init, NoRequest
    <2>2. draft \in Text /\ answer \in [text : Text, handle : Nat]
      BY EmptyText DEF Init
    <2>3. bytes \in Seq(Character) /\ entries \in Seq(Entries) /\ fresh \in Seq(Nat)
      BY DEF Init
    <2>4. buckets \in Seq(Nat) /\ Len(buckets) > 1
      BY <1>2, Bound
    <2>5. /\ building \in BOOLEAN /\ building_start \in Nat /\ index \in Nat /\ moved \in Nat
          /\ step \in {"idle", "probe", "rehash", "place"}
      BY DEF Init
    <2> QED
      BY <2>1, <2>2, <2>3, <2>4, <2>5 DEF TypeOK
  <1>4. Indexes(buckets, Len(entries), Texts)
    <2>1. \A i \in 0..Len(buckets) - 1 : buckets[i + 1] = 0
      BY <1>1, <1>2, Bound
    <2>2. Len(entries) = 0
      BY <1>1
    <2> QED
      BY <2>1, <2>2 DEF Indexes
  <1>5. StoreHolds /\ TextsDiffer /\ LoopsHold
    BY <1>1 DEF StoreHolds, TextsDiffer, LoopsHold
  <1>6. ~Full(Len(entries), Len(buckets))
    BY <1>1, <1>2, Bound DEF Full
  <1> QED
    BY <1>3, <1>4, <1>5, <1>6 DEF IInv

LEMMA StutterKeeps == IInv /\ UNCHANGED vars => IInv'
  <1> SUFFICES ASSUME IInv, UNCHANGED vars PROVE IInv'
    OBVIOUS
  <1> USE DEF vars, store, builder, loop
  <1>1. TypeOK'
    BY DEF IInv, TypeOK
  <1>2. Committed' = Committed /\ BuildView' = BuildView
    BY DEF Committed, BuildView, View
  <1>3. StoreHolds'
    BY <1>2 DEF IInv, StoreHolds
  <1>4. (\A h : EntryView(h)' = EntryView(h)) /\ Texts' = Texts
    BY DEF EntryView, View, Texts
  <1>5. LoopsHold'
    <2>1. EntryView(moved + 1)' = EntryView(moved + 1)
      BY DEF EntryView, View
    <2>2. WayIsFull(fresh, EntryView(moved + 1))' = WayIsFull(fresh, EntryView(moved + 1))
      BY <2>1 DEF WayIsFull, Home
    <2>3. WayIsFull(buckets, request.text)' = WayIsFull(buckets, request.text)
      BY DEF WayIsFull, Home
    <2>4. Indexes(fresh, moved, Texts)' = Indexes(fresh, moved, Texts)
      BY <1>4
    <2>5. Unknown(request.text)' = Unknown(request.text)
      BY <1>4 DEF Unknown
    <2>6. step = "probe" =>
            (\A k \in Passed(Home(request.text, Len(buckets)), index, Len(buckets)) :
               EntryView(buckets[k + 1]) # request.text)'
      BY DEF IInv, LoopsHold, EntryView, View, Home
    <2> QED
      BY <2>2, <2>3, <2>4, <2>5, <2>6 DEF IInv, LoopsHold, Full
  <1> QED
    BY <1>1, <1>3, <1>5, TableKept DEF IInv

LEMMA NextKeeps == IInv /\ [Next]_vars => IInv'
  <1> SUFFICES ASSUME IInv, [Next]_vars PROVE IInv'
    OBVIOUS
  <1> QED
    BY ClientKeeps, ProbeFindsKeeps, ProbeNextKeeps, LookupMissesKeeps, ProbeMissesKeeps,
       RehashNextKeeps, RehashPlacesKeeps, PlaceNextKeeps, PlaceEndsKeeps, StutterKeeps
    DEF Next, Step

(* The inductive invariant: the entries of the store are different texts     *)
(* before whatever is being built, each is in one bucket, where a probe      *)
(* comes to it without meeting an empty one, and two thirds of the buckets   *)
(* at most are taken; rehash() keeps this of the buckets it fills.           *)
THEOREM TableIsIndexed == Spec => []IInv
  BY InitHolds, NextKeeps, PTL DEF Spec

LEMMA FewEntriesLeaveEmpty ==
  ASSUME NEW table \in Seq(Nat), NEW m \in Nat, m < Len(table), NEW texts,
         Indexes(table, m, texts)
  PROVE  \E i \in DOMAIN table : table[i] = 0
  BY EmptyPlace DEF Indexes

(* The loops of finalize(), intern(), lookup() and rehash(), which stop at   *)
(* an empty bucket only, always have one (spelling.h:97, :190, :211, :316).  *)
THEOREM ALoopHasItsEnd == Spec => []EmptyBucket
  <1>1. IInv => EmptyBucket
    <2> SUFFICES ASSUME IInv PROVE EmptyBucket
      OBVIOUS
    <2>1. Len(entries) < Len(buckets)
      BY BucketsType DEF IInv, Full
    <2>2. \E i \in DOMAIN buckets : buckets[i] = 0
      BY <2>1, BucketsType, FewEntriesLeaveEmpty DEF IInv
    <2>3. ASSUME step = "rehash"
          PROVE  \E i \in DOMAIN fresh : fresh[i] = 0
      <3>1. moved < Len(fresh) /\ Indexes(fresh, moved, Texts)
        BY <2>1, <2>3, BucketsType DEF IInv, LoopsHold
      <3> QED
        BY <3>1, BucketsType, FewEntriesLeaveEmpty
    <2> QED
      BY <2>2, <2>3 DEF EmptyBucket
  <1> QED
    BY <1>1, TableIsIndexed, PTL

----------------------------------------------------------------------------
(* The promise of Interning. *)

LEMMA InitPromised == Init => Promise!Init
  BY DEF Init, Texts, Promise!Init, Promise!NoAnswer

(* The client's steps, and the iterations of a loop, do not show. *)
LEMMA HiddenStep ==
  ASSUME IInv, entries' = entries, answer' = answer,
         \A k \in 1..Committed : bytes'[k] = bytes[k]
  PROVE  UNCHANGED <<Texts, answer>>
  BY TextsKept DEF IInv

LEMMA ClientHidden == IInv /\ Client => UNCHANGED <<Texts, answer>>
  <1> SUFFICES ASSUME IInv, Client PROVE UNCHANGED <<Texts, answer>>
    OBVIOUS
  <1>1. CASE MakeBuilder
    BY <1>1, HiddenStep DEF MakeBuilder, store
  <1>2. ASSUME NEW c \in Character, AppendToBuilder(c)
        PROVE  UNCHANGED <<Texts, answer>>
    <2>1. /\ bytes \in Seq(Character) /\ building
          /\ Committed = building_start /\ building_start \in Nat
          /\ building_start <= Len(bytes)
      BY <1>2 DEF AppendToBuilder, IInv, TypeOK, StoreHolds, Committed
    <2>2. \A k \in 1..Len(bytes) : bytes'[k] = bytes[k]
      BY <1>2, <2>1, AppendedSequence DEF AppendToBuilder
    <2>3. \A k \in 1..Committed : bytes'[k] = bytes[k]
      BY <2>1, <2>2
    <2> QED
      BY <1>2, <2>3, HiddenStep DEF AppendToBuilder
  <1>3. CASE DestroyBuilder
    BY <1>3, CancelledStore, HiddenStep DEF DestroyBuilder
  <1>4. ASSUME NEW by, NEW text, Begin(by, text)
        PROVE  UNCHANGED <<Texts, answer>>
    BY <1>4, HiddenStep DEF Begin, store
  <1> QED
    BY <1>1, <1>2, <1>3, <1>4 DEF Client, Finalize, Intern, Lookup

LEMMA AskedIsRequest ==
  ASSUME IInv, step # "idle"
  PROVE  Asked = request.text
  BY DEF IInv, StoreHolds, Asked

LEMMA FoundIsRecalled == IInv /\ ProbeFinds => Promise!Recall
  <1> SUFFICES ASSUME IInv, ProbeFinds PROVE Promise!Recall
    OBVIOUS
  <1>1. /\ Handle \in DOMAIN entries /\ Texts[Handle] = request.text
        /\ answer' = [text |-> request.text, handle |-> Handle]
        /\ entries' = entries
    BY HandleType, EntryType, AskedIsRequest
    DEF IInv, LoopsHold, WayIsFull, ProbeFinds, Return
  <1>2. \A k \in 1..Committed : bytes'[k] = bytes[k]
    BY CancelledStore DEF ProbeFinds, IInv, StoreHolds
  <1>3. Texts' = Texts
    BY <1>1, <1>2, TextsKept DEF IInv
  <1>4. Handle \in DOMAIN Texts
    BY <1>1 DEF Texts
  <1> QED
    BY <1>1, <1>3, <1>4 DEF Promise!Recall

LEMMA MissedIsUnknown == IInv /\ LookupMisses => Promise!Miss
  <1> SUFFICES ASSUME IInv, LookupMisses PROVE Promise!Miss
    OBVIOUS
  <1>1. /\ answer' = [text |-> request.text, handle |-> 0]
        /\ entries' = entries /\ bytes' = bytes
    BY AskedIsRequest DEF LookupMisses, Return, store
  <1>2. Texts' = Texts
    BY <1>1, TextsKept DEF IInv
  <1>3. \A h \in DOMAIN Texts : Texts[h] # request.text
    BY ProbedIsUnknown DEF LookupMisses, Unknown, Texts
  <1> QED
    BY <1>1, <1>2, <1>3 DEF Promise!Miss, Promise!Knows

LEMMA CommittedIsLearnt ==
  ASSUME IInv, Commit, step # "idle", request.by # "lookup",
         Unknown(request.text), WayIsFull(buckets, request.text)
  PROVE  Promise!Learn
  <1>1. /\ index \in 0..Len(buckets) - 1
        /\ answer' = [text |-> request.text, handle |-> Len(entries) + 1]
    BY AskedIsRequest DEF WayIsFull, Commit, Return
  <1>2. /\ Len(entries') = Len(entries) + 1 /\ entries' \in Seq(Entries)
        /\ \A h \in DOMAIN entries : EntryView(h)' = EntryView(h)
        /\ EntryView(Len(entries))' = request.text
    BY <1>1, CommittedTexts DEF TypeOK
  <1>3. \A h \in DOMAIN Texts : Texts[h] # request.text
    BY DEF Unknown, Texts
  <1>4. Texts \in Seq(Text) /\ Len(Texts) = Len(entries)
    BY TextsType DEF IInv
  <1>5. Texts' = Append(Texts, request.text)
    <2>1. /\ DOMAIN entries = 1..Len(entries) /\ Len(entries) \in Nat
          /\ DOMAIN entries' = 1..Len(entries) + 1
      BY <1>2, BucketsType
    <2>2. \A h \in 1..Len(entries) : EntryView(h)' = Texts[h]
      BY <1>2, <2>1 DEF Texts
    <2>3. Texts' = [h \in 1..Len(entries) + 1 |-> EntryView(h)']
      BY <2>1 DEF Texts
    <2>4. Texts'[Len(entries')] = EntryView(Len(entries))'
      BY <1>2, <2>1 DEF Texts
    <2>5. /\ \A h \in 1..Len(entries) : Texts'[h] = Texts[h]
          /\ Texts'[Len(entries) + 1] = request.text
      BY <1>2, <2>1, <2>2, <2>3, <2>4
    <2>6. Texts' = [h \in 1..Len(entries) + 1 |-> Texts'[h]]
      BY <2>3
    <2>7. Append(Texts, request.text)
            = [h \in 1..Len(entries) + 1 |-> Append(Texts, request.text)[h]]
      <3>1. request.text \in Text
        BY BucketsType
      <3>2. /\ Append(Texts, request.text) \in Seq(Text)
            /\ Len(Append(Texts, request.text)) = Len(entries) + 1
        BY <1>4, <3>1, AppendedSequence
      <3> QED
        BY <3>2, SequenceFunction
    <2>8. ASSUME NEW h \in 1..Len(entries) + 1
          PROVE  Texts'[h] = Append(Texts, request.text)[h]
      <3>1. h \in 1..Len(entries) \/ h = Len(entries) + 1
        BY <2>1
      <3>2. request.text \in Text
        BY BucketsType
      <3>3. /\ \A j \in 1..Len(entries) : Append(Texts, request.text)[j] = Texts[j]
            /\ Append(Texts, request.text)[Len(entries) + 1] = request.text
        BY <1>4, <3>2, AppendedSequence
      <3> QED
        BY <2>5, <3>1, <3>3
    <2> QED
      BY <2>6, <2>7, <2>8
  <1> QED
    BY <1>1, <1>3, <1>4, <1>5 DEF Promise!Learn, Promise!Knows

LEMMA NextPromised ==
  IInv /\ [Next]_vars => [Promise!Next]_<<Texts, answer>>
  <1> SUFFICES ASSUME IInv, [Next]_vars
               PROVE  Promise!Next \/ UNCHANGED <<Texts, answer>>
    OBVIOUS
  <1>1. CASE ProbeNext \/ RehashNext \/ PlaceNext
    BY <1>1, HiddenStep DEF ProbeNext, RehashNext, PlaceNext, store
  <1>2. CASE RehashPlaces
    BY <1>2, HiddenStep DEF RehashPlaces
  <1>3. CASE ProbeMisses
    <2>1. CASE Full(Len(entries) + 1, Len(buckets))
      BY <1>3, <2>1, HiddenStep DEF ProbeMisses, store
    <2>2. CASE ~Full(Len(entries) + 1, Len(buckets))
      BY <1>3, <2>2, ProbedIsUnknown, CommittedIsLearnt
      DEF ProbeMisses, IInv, LoopsHold, Promise!Next
    <2> QED
      BY <2>1, <2>2
  <1>4. CASE PlaceEnds
    BY <1>4, CommittedIsLearnt DEF PlaceEnds, IInv, LoopsHold, Promise!Next
  <1>5. CASE UNCHANGED vars
    BY <1>5, HiddenStep DEF vars, store
  <1> QED
    BY <1>1, <1>2, <1>3, <1>4, <1>5, ClientHidden, FoundIsRecalled, MissedIsUnknown
    DEF Next, Step, Promise!Next

(* The table implements Interning: whatever is built, cancelled, interned or *)
(* rehashed, a handle given out denotes its text forever, a text has one     *)
(* handle, and an operation answers with the handle of the text asked for.   *)
THEOREM TheTableKeepsItsPromise == Spec => HandlesDenoteTheirTexts
  BY InitPromised, NextPromised, TableIsIndexed, PTL
  DEF Spec, HandlesDenoteTheirTexts, Promise!Spec
=============================================================================
