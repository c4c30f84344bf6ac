-------------------------- MODULE RingBufferProofs --------------------------
(***************************************************************************)
(* Proofs about the operations of RingBuffer, for a buffer of any size: on *)
(* the elements between tail and head they are the operations of Fifo. The *)
(* modules about the buffer's clients rest on these lemmas.                *)
(***************************************************************************)
EXTENDS RingBuffer, SequenceTheorems, TLAPS

Elements == Data \cup {Zero}

(* Both indices are slots, and a full buffer has them equal. *)
RBInv ==
    /\ buffer \in [Slots -> Elements]
    /\ head_idx \in Slots /\ tail_idx \in Slots
    /\ full => head_idx = tail_idx

LEMMA SizeIsNat == buffer_size \in Nat /\ buffer_size > 0
BY BufferSizeAssumption

LEMMA RBInitInv == RBInit => RBInv /\ Contents = << >>
BY SizeIsNat DEF RBInit, RBInv, Slots, Elements, Contents, Occupied

(* The contents, slot by slot. *)
ContentsInv ==
    /\ Occupied \in 0 .. buffer_size
    /\ \A i \in 0 .. buffer_size - 1 : SlotAt(i) \in Slots
    /\ Contents \in Seq(Elements)
    /\ Len(Contents) = Occupied
    /\ \A i \in 0 .. Occupied - 1 : Contents[i + 1] = buffer[SlotAt(i)]

LEMMA ContentsIsSeq == RBInv => ContentsInv
<1> SUFFICES ASSUME RBInv
             PROVE  ContentsInv
  OBVIOUS
<1> USE SizeIsNat DEF RBInv, Slots
<1>1. Occupied \in 0 .. buffer_size
  BY DEF Occupied
<1>2. \A i \in 0 .. buffer_size - 1 : SlotAt(i) \in Slots
  BY DEF SlotAt
<1>3. \A i \in 1 .. Occupied : buffer[SlotAt(i - 1)] \in Elements
  BY <1>1, <1>2
<1>4. Contents \in Seq(Elements) /\ Len(Contents) = Occupied
  BY <1>1, <1>3 DEF Contents
<1>5. ASSUME NEW i \in 0 .. Occupied - 1
      PROVE  Contents[i + 1] = buffer[SlotAt(i)]
  <2>1. i + 1 \in 1 .. Occupied /\ (i + 1) - 1 = i
    BY <1>1
  <2>2. QED
    BY <2>1 DEF Contents
<1>6. QED
  BY <1>1, <1>2, <1>4, <1>5 DEF ContentsInv

(* Sequences are equal if they are so element by element, counted from 0.  *)
LEMMA SameElements ==
    ASSUME NEW S, NEW s \in Seq(S), NEW t \in Seq(S), Len(s) = Len(t),
           \A i \in 0 .. Len(s) - 1 : s[i + 1] = t[i + 1]
    PROVE  s = t
<1>1. ASSUME NEW j \in 1 .. Len(s)
      PROVE  s[j] = t[j]
  <2>1. j - 1 \in 0 .. Len(s) - 1 /\ (j - 1) + 1 = j
    BY LenProperties
  <2>2. QED
    BY <2>1
<1>2. QED
  BY <1>1, SeqEqual

(* The head is the slot after the last occupied one, or the oldest one.    *)
LEMMA HeadSlot ==
    ASSUME RBInv
    PROVE  head_idx = IF full THEN tail_idx ELSE SlotAt(Occupied)
BY SizeIsNat DEF RBInv, Slots, Occupied, SlotAt

LEMMA EmptyContents ==
    ASSUME RBInv
    PROVE  /\ ring_buffer_empty <=> Contents = << >>
           /\ ~ring_buffer_empty => ring_buffer_peek_tail = Head(Contents)
<1> USE SizeIsNat DEF RBInv, Slots
<1>1. ring_buffer_empty <=> Occupied = 0
  BY DEF ring_buffer_empty, Occupied
<1>2. ContentsInv
  BY ContentsIsSeq
<1>3. Contents = << >> <=> Occupied = 0
  BY <1>2, EmptySeq DEF ContentsInv
<1>4. Occupied # 0 => Head(Contents) = buffer[SlotAt(0)]
  BY <1>2 DEF ContentsInv
<1>5. SlotAt(0) = tail_idx
  BY DEF SlotAt
<1>6. QED
  BY <1>1, <1>3, <1>4, <1>5 DEF ring_buffer_peek_tail

(* A get takes off the oldest element. *)
LEMMA GetTakesOldest ==
    ASSUME RBInv, ring_buffer_get
    PROVE  RBInv' /\ Contents # << >> /\ Contents' = Tail(Contents)
<1> USE SizeIsNat DEF Slots
<1>1. /\ ~ring_buffer_empty /\ ~full'
      /\ tail_idx' = Incremented(tail_idx)
      /\ UNCHANGED <<buffer, head_idx>>
  BY DEF ring_buffer_get
<1>2. RBInv'
  BY <1>1 DEF RBInv, Incremented
<1>3. ContentsInv /\ ContentsInv'
  BY <1>2, ContentsIsSeq, PTL
<1>4. Occupied > 0 /\ Occupied' = Occupied - 1
  BY <1>1 DEF RBInv, Occupied, ring_buffer_empty, Incremented
<1>5. \A i \in 0 .. Occupied - 2 : SlotAt(i)' = SlotAt(i + 1)
  <2>1. Occupied \in 0 .. buffer_size /\ tail_idx \in 0 .. buffer_size - 1
    BY <1>3 DEF ContentsInv, RBInv
  <2>2. QED
    BY <1>1, <2>1 DEF SlotAt, Incremented
<1>6. Contents # << >>
  BY <1>3, <1>4, EmptySeq DEF ContentsInv
<1>7. /\ Tail(Contents) \in Seq(Elements)
      /\ Len(Tail(Contents)) = Occupied - 1
      /\ \A i \in 1 .. Occupied - 1 : Tail(Contents)[i] = Contents[i + 1]
  BY <1>3, <1>6, HeadTailProperties DEF ContentsInv
<1>8. /\ Contents' \in Seq(Elements)
      /\ Len(Contents') = Occupied - 1
      /\ \A i \in 0 .. Occupied' - 1 : Contents'[i + 1] = buffer'[SlotAt(i)']
  BY <1>3, <1>4 DEF ContentsInv
<1>9. ASSUME NEW i \in 0 .. Occupied - 2
      PROVE  Contents'[i + 1] = Tail(Contents)[i + 1]
  <2> DEFINE j == i + 1
  <2>1. Occupied \in Nat
    BY <1>3 DEF ContentsInv
  <2>2. i \in 0 .. Occupied' - 1 /\ j \in 0 .. Occupied - 1 /\ j \in 1 .. Occupied - 1
    BY <1>4, <2>1
  <2>3. Contents'[i + 1] = buffer'[SlotAt(i)']
    BY <1>8, <2>2
  <2>4. Contents'[i + 1] = buffer[SlotAt(j)]
    BY <1>1, <1>5, <2>3
  <2>5. Contents[j + 1] = buffer[SlotAt(j)]
    BY <1>3, <2>2 DEF ContentsInv
  <2>6. Tail(Contents)[j] = Contents[j + 1]
    BY <1>7, <2>2
  <2>7. QED
    BY <2>4, <2>5, <2>6
<1>10. Contents' = Tail(Contents)
  <2>1. Len(Contents') = Len(Tail(Contents))
    BY <1>7, <1>8
  <2>2. \A i \in 0 .. Len(Contents') - 1 : Contents'[i + 1] = Tail(Contents)[i + 1]
    <3>1. Len(Contents') - 1 = Occupied - 2
      BY <1>3, <1>8 DEF ContentsInv
    <3>2. QED
      BY <1>9, <3>1
  <2>3. QED
    BY <1>7, <1>8, <2>1, <2>2, SameElements
<1>11. QED
  BY <1>2, <1>6, <1>10

(* A put appends to the contents, and drops the oldest element of a full   *)
(* buffer.                                                                 *)
LEMMA PutAppends ==
    ASSUME RBInv, NEW d \in Data, ring_buffer_put(d)
    PROVE  /\ RBInv'
           /\ Contents' = Append(IF Len(Contents) = buffer_size THEN Tail(Contents)
                                                                ELSE Contents, d)
<1> USE SizeIsNat DEF Slots
<1> DEFINE Kept == IF Len(Contents) = buffer_size THEN Tail(Contents) ELSE Contents
<1>1. /\ buffer' = [buffer EXCEPT ![head_idx] = d]
      /\ tail_idx' = IF full THEN Incremented(tail_idx) ELSE tail_idx
      /\ head_idx' = Incremented(head_idx)
      /\ full' <=> head_idx' = tail_idx'
  BY DEF ring_buffer_put, TailAfterPut
<1>2. RBInv'
  BY <1>1 DEF RBInv, Incremented, Elements
<1>3. ContentsInv /\ ContentsInv'
  BY <1>2, ContentsIsSeq, PTL
<1>4. /\ Len(Contents) = Occupied /\ Contents \in Seq(Elements)
      /\ \A i \in 0 .. Occupied - 1 : Contents[i + 1] = buffer[SlotAt(i)]
  BY <1>3 DEF ContentsInv
<1>5. (Occupied = buffer_size) <=> full
  BY DEF RBInv, Occupied
<1>6. PICK n \in 0 .. buffer_size - 1 : /\ n = IF full THEN buffer_size - 1 ELSE Occupied
                                       /\ Occupied' = n + 1
  <2>1. (IF full THEN buffer_size - 1 ELSE Occupied) \in 0 .. buffer_size - 1
    BY DEF RBInv, Occupied
  <2>2. Occupied' = (IF full THEN buffer_size - 1 ELSE Occupied) + 1
    BY <1>1 DEF RBInv, Occupied, Incremented
  <2>3. QED
    BY <2>1, <2>2
(* The slots of the elements that are kept are those they had. *)
<1>7. /\ \A i \in 0 .. n - 1 : /\ SlotAt(i)' = IF full THEN SlotAt(i + 1) ELSE SlotAt(i)
                               /\ SlotAt(i)' # head_idx
                               /\ SlotAt(i)' \in Slots
      /\ SlotAt(n)' = head_idx
  <2>1. CASE full
    <3>1. head_idx = tail_idx /\ tail_idx' = Incremented(tail_idx) /\ n = buffer_size - 1
      BY <1>1, <1>6, <2>1 DEF RBInv
    <3>2. QED
      BY <2>1, <3>1 DEF RBInv, SlotAt, Incremented
  <2>2. CASE ~full
    <3>1. tail_idx' = tail_idx /\ n = Occupied
      BY <1>1, <1>6, <2>2
    <3>2. head_idx = SlotAt(Occupied)
      BY <2>2, HeadSlot
    <3>3. QED
      BY <1>6, <2>2, <3>1, <3>2 DEF RBInv, SlotAt
  <2>3. QED
    BY <2>1, <2>2
<1>8. /\ Kept \in Seq(Elements) /\ Len(Kept) = n
      /\ \A i \in 0 .. n - 1 : Kept[i + 1] = buffer[SlotAt(i)']
  <2>1. CASE full
    <3>1. Contents # << >> /\ Kept = Tail(Contents) /\ n = buffer_size - 1
      BY <1>4, <1>5, <1>6, <2>1, EmptySeq
    <3>2. /\ Kept \in Seq(Elements) /\ Len(Kept) = n
          /\ \A i \in 1 .. n : Kept[i] = Contents[i + 1]
      BY <1>4, <1>5, <2>1, <3>1, HeadTailProperties
    <3>3. ASSUME NEW i \in 0 .. n - 1
          PROVE  Kept[i + 1] = buffer[SlotAt(i)']
      <4> DEFINE j == i + 1
      <4>1. j \in 1 .. n /\ j \in 0 .. Occupied - 1
        BY <1>5, <2>1, <3>1
      <4>2. SlotAt(i)' = SlotAt(j)
        BY <1>7, <2>1
      <4>3. Kept[j] = Contents[j + 1]
        BY <3>2, <4>1
      <4>4. Contents[j + 1] = buffer[SlotAt(j)]
        BY <1>4, <4>1
      <4>5. QED
        BY <4>2, <4>3, <4>4
    <3>4. QED
      BY <3>2, <3>3
  <2>2. CASE ~full
    <3>1. Kept = Contents /\ n = Occupied
      BY <1>4, <1>5, <1>6, <2>2
    <3>2. ASSUME NEW i \in 0 .. n - 1
          PROVE  Kept[i + 1] = buffer[SlotAt(i)']
      <4>1. SlotAt(i)' = SlotAt(i)
        BY <1>7, <2>2
      <4>2. QED
        BY <1>4, <3>1, <4>1
    <3>3. QED
      BY <1>4, <3>1, <3>2
  <2>3. QED
    BY <2>1, <2>2
<1>9. /\ Append(Kept, d) \in Seq(Elements) /\ Len(Append(Kept, d)) = n + 1
      /\ \A i \in 1 .. n : Append(Kept, d)[i] = Kept[i]
      /\ Append(Kept, d)[n + 1] = d
  <2>1. d \in Elements
    BY DEF Elements
  <2>2. QED
    BY <1>8, <2>1, AppendProperties
<1>10. /\ Contents' \in Seq(Elements)
       /\ Len(Contents') = n + 1
       /\ \A i \in 0 .. n : Contents'[i + 1] = buffer'[SlotAt(i)']
  <2>1. /\ Contents' \in Seq(Elements)
        /\ Len(Contents') = Occupied'
        /\ \A i \in 0 .. Occupied' - 1 : Contents'[i + 1] = buffer'[SlotAt(i)']
    BY <1>3 DEF ContentsInv
  <2>2. Occupied' - 1 = n
    BY <1>6
  <2>3. QED
    BY <1>6, <2>1, <2>2
<1>11. ASSUME NEW i \in 0 .. n
       PROVE  Contents'[i + 1] = Append(Kept, d)[i + 1]
  <2>1. Contents'[i + 1] = buffer'[SlotAt(i)']
    BY <1>10
  <2>2. CASE i = n
    <3>1. buffer'[head_idx] = d
      BY <1>1 DEF RBInv
    <3>2. QED
      BY <1>7, <1>9, <2>1, <2>2, <3>1
  <2>3. CASE i # n
    <3>1. i \in 0 .. n - 1 /\ i + 1 \in 1 .. n
      <4>1. n \in Nat
        BY <1>6
      <4>2. QED
        BY <2>3, <4>1
    <3>2. Append(Kept, d)[i + 1] = Kept[i + 1]
      BY <1>9, <3>1
    <3>3. buffer'[SlotAt(i)'] = buffer[SlotAt(i)']
      BY <1>1, <1>7, <3>1 DEF RBInv
    <3>4. QED
      BY <1>8, <2>1, <3>1, <3>2, <3>3
  <2>4. QED
    BY <2>2, <2>3
<1>12. Contents' = Append(Kept, d)
  <2>1. Len(Contents') - 1 = n /\ Len(Contents') = Len(Append(Kept, d))
    BY <1>6, <1>9, <1>10
  <2>2. \A i \in 0 .. Len(Contents') - 1 : Contents'[i + 1] = Append(Kept, d)[i + 1]
    BY <1>11, <2>1
  <2>3. QED
    BY <1>9, <1>10, <2>1, <2>2, SameElements
<1>13. QED
  BY <1>2, <1>12

-----------------------------------------------------------------------------
(* The operations of the buffer are those of the FIFO it stands for, and a *)
(* step that leaves the buffer alone leaves its contents alone.            *)
LEMMA PutIsFifoPut ==
    ASSUME RBInv, NEW d \in Data, ring_buffer_put(d)
    PROVE  F!FifoPut(d)
BY PutAppends DEF F!FifoPut

LEMMA GetIsFifoGet ==
    ASSUME RBInv, ring_buffer_get
    PROVE  F!FifoGet
BY GetTakesOldest DEF F!FifoGet

LEMMA UnchangedContents ==
    ASSUME UNCHANGED rbVars
    PROVE  /\ Contents' = Contents
           /\ RBInv => RBInv'
<1>1. /\ buffer' = buffer /\ head_idx' = head_idx
      /\ tail_idx' = tail_idx /\ full' = full
  BY DEF rbVars
<1>2. Contents' = Contents
  BY <1>1 DEF Contents, Occupied, SlotAt
<1>3. RBInv => RBInv'
  BY <1>1 DEF RBInv
<1>4. QED
  BY <1>2, <1>3

=============================================================================
