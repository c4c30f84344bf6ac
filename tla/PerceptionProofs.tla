-------------------------- MODULE PerceptionProofs --------------------------
(***************************************************************************)
(* Proofs about Perception for measurements of every kind and a history of *)
(* every size: left and right are treated alike, the ring buffer saves the *)
(* inputs as the sequence of InputHistory does, and the search through it  *)
(* finds the side on which the enemy was last seen.                        *)
(***************************************************************************)
EXTENDS Perception, RingBufferProofs

Sensors == {"front_left", "front", "front_right"}
Corners == {"fl", "fr", "bl", "br"}

(* The decision tree of enemy_get answers every set of sensors as it       *)
(* answers the set on the other side.                                      *)
LEMMA PositionMirrored ==
    ASSUME NEW S \in SUBSET Sensors, NEW T \in SUBSET Sensors,
           "front_left" \in T <=> "front_right" \in S,
           "front" \in T <=> "front" \in S,
           "front_right" \in T <=> "front_left" \in S
    PROVE  PositionOf(T) = MirroredPosition[PositionOf(S)]
<1> USE DEF Sensors, PositionOf, MirroredPosition, enemy_pos_e
<1>1. CASE "front" \in S
  <2>1. CASE "front_left" \in S /\ "front_right" \in S
    <3>1. S = Sensors /\ T = Sensors
      BY <1>1, <2>1
    <3>2. QED
      BY <3>1
  <2>2. CASE "front_left" \in S /\ "front_right" \notin S
    <3>1. S = {"front_left", "front"} /\ T = {"front_right", "front"}
      BY <1>1, <2>2
    <3>2. QED
      BY <3>1
  <2>3. CASE "front_left" \notin S /\ "front_right" \in S
    <3>1. S = {"front_right", "front"} /\ T = {"front_left", "front"}
      BY <1>1, <2>3
    <3>2. QED
      BY <3>1
  <2>4. CASE "front_left" \notin S /\ "front_right" \notin S
    <3>1. S = {"front"} /\ T = {"front"}
      BY <1>1, <2>4
    <3>2. QED
      BY <3>1
  <2>5. QED
    BY <2>1, <2>2, <2>3, <2>4
<1>2. CASE "front" \notin S
  <2>1. CASE "front_left" \in S /\ "front_right" \in S
    <3>1. S = {"front_left", "front_right"} /\ T = {"front_left", "front_right"}
      BY <1>2, <2>1
    <3>2. QED
      BY <3>1
  <2>2. CASE "front_left" \in S /\ "front_right" \notin S
    <3>1. S = {"front_left"} /\ T = {"front_right"}
      BY <1>2, <2>2
    <3>2. QED
      BY <3>1
  <2>3. CASE "front_left" \notin S /\ "front_right" \in S
    <3>1. S = {"front_right"} /\ T = {"front_left"}
      BY <1>2, <2>3
    <3>2. QED
      BY <3>1
  <2>4. CASE "front_left" \notin S /\ "front_right" \notin S
    <3>1. S = {} /\ T = {}
      BY <1>2, <2>4
    <3>2. QED
      BY <3>1
  <2>5. QED
    BY <2>1, <2>2, <2>3, <2>4
<1>3. QED
  BY <1>1, <1>2

(* The same of the decision tree of line_get and the corners.              *)
LEMMA LineMirrored ==
    ASSUME NEW S \in SUBSET Corners, NEW T \in SUBSET Corners,
           "fl" \in T <=> "fr" \in S, "fr" \in T <=> "fl" \in S,
           "bl" \in T <=> "br" \in S, "br" \in T <=> "bl" \in S
    PROVE  LineOf(T) = MirroredLine[LineOf(S)]
<1> USE DEF Corners, LineOf, MirroredLine, line_e
<1>1. CASE "fl" \in S /\ "fr" \in S
  <2>1. LineOf(S) = "FRONT" /\ LineOf(T) = "FRONT"
    BY <1>1
  <2>2. QED
    BY <2>1
<1>2. CASE "fl" \in S /\ "fr" \notin S
  <2>1. CASE "bl" \in S
    <3>1. LineOf(S) = "LEFT"
      BY <1>2, <2>1
    <3>2. LineOf(T) = "RIGHT"
      BY <1>2, <2>1
    <3>3. QED
      BY <3>1, <3>2
  <2>2. CASE "bl" \notin S /\ "br" \in S
    <3>1. LineOf(S) = "DIAGONAL_LEFT"
      BY <1>2, <2>2
    <3>2. T = {"fr", "bl"}
      BY <1>2, <2>2
    <3>3. LineOf(T) = "DIAGONAL_RIGHT"
      BY <3>2
    <3>4. QED
      BY <3>1, <3>3
  <2>3. CASE "bl" \notin S /\ "br" \notin S
    <3>1. LineOf(S) = "FRONT_LEFT"
      BY <1>2, <2>3
    <3>2. T = {"fr"}
      BY <1>2, <2>3
    <3>3. LineOf(T) = "FRONT_RIGHT"
      BY <3>2
    <3>4. QED
      BY <3>1, <3>3
  <2>4. QED
    BY <2>1, <2>2, <2>3
<1>3. CASE "fl" \notin S /\ "fr" \in S
  <2>1. CASE "br" \in S
    <3>1. LineOf(S) = "RIGHT"
      BY <1>3, <2>1
    <3>2. LineOf(T) = "LEFT"
      BY <1>3, <2>1
    <3>3. QED
      BY <3>1, <3>2
  <2>2. CASE "br" \notin S /\ "bl" \in S
    <3>1. S = {"fr", "bl"}
      BY <1>3, <2>2
    <3>2. LineOf(S) = "DIAGONAL_RIGHT"
      BY <3>1
    <3>3. LineOf(T) = "DIAGONAL_LEFT"
      BY <1>3, <2>2
    <3>4. QED
      BY <3>2, <3>3
  <2>3. CASE "br" \notin S /\ "bl" \notin S
    <3>1. S = {"fr"}
      BY <1>3, <2>3
    <3>2. LineOf(S) = "FRONT_RIGHT"
      BY <3>1
    <3>3. LineOf(T) = "FRONT_LEFT"
      BY <1>3, <2>3
    <3>4. QED
      BY <3>2, <3>3
  <2>4. QED
    BY <2>1, <2>2, <2>3
<1>4. CASE "fl" \notin S /\ "fr" \notin S
  <2>1. CASE "bl" \in S /\ "br" \in S
    <3>1. S = {"bl", "br"} /\ T = {"bl", "br"}
      BY <1>4, <2>1
    <3>2. QED
      BY <3>1
  <2>2. CASE "bl" \in S /\ "br" \notin S
    <3>1. S = {"bl"} /\ T = {"br"}
      BY <1>4, <2>2
    <3>2. QED
      BY <3>1
  <2>3. CASE "bl" \notin S /\ "br" \in S
    <3>1. S = {"br"} /\ T = {"bl"}
      BY <1>4, <2>3
    <3>2. QED
      BY <3>1
  <2>4. CASE "bl" \notin S /\ "br" \notin S
    <3>1. S = {} /\ T = {}
      BY <1>4, <2>4
    <3>2. QED
      BY <3>1
  <2>5. QED
    BY <2>1, <2>2, <2>3, <2>4
<1>5. QED
  BY <1>1, <1>2, <1>3, <1>4

Measured == ranges \in RangesType /\ voltages \in VoltagesType

LEMMA MeasuredIsMirrored == Measured => MirrorImage
<1> SUFFICES ASSUME Measured
             PROVE  MirrorImage
  OBVIOUS
<1>1. enemy_get(MirroredRanges(ranges)).position = MirroredPosition[enemy_get(ranges).position]
  <2> DEFINE S == Seen(ranges)
             T == Seen(MirroredRanges(ranges))
  <2>1. /\ S \in SUBSET Sensors /\ T \in SUBSET Sensors
        /\ "front_left" \in T <=> "front_right" \in S
        /\ "front" \in T <=> "front" \in S
        /\ "front_right" \in T <=> "front_left" \in S
    BY DEF Seen, MirroredRanges, Sensors
  <2>2. PositionOf(T) = MirroredPosition[PositionOf(S)]
    BY <2>1, PositionMirrored
  <2>3. QED
    BY <2>2 DEF enemy_get
<1>2. line_get(MirroredVoltages(voltages)) = MirroredLine[line_get(voltages)]
  <2> DEFINE S == OverLine(voltages)
             T == OverLine(MirroredVoltages(voltages))
  <2>1. /\ S \in SUBSET Corners /\ T \in SUBSET Corners
        /\ "fl" \in T <=> "fr" \in S
        /\ "fr" \in T <=> "fl" \in S
        /\ "bl" \in T <=> "br" \in S
        /\ "br" \in T <=> "bl" \in S
    BY DEF OverLine, MirroredVoltages, Corners
  <2>2. LineOf(T) = MirroredLine[LineOf(S)]
    BY <2>1, LineMirrored
  <2>3. QED
    BY <2>2 DEF line_get
<1>3. QED
  BY <1>1, <1>2 DEF MirrorImage

LEMMA InitMeasured == PerceptionInit => Measured
BY SurroundingsAssumption DEF PerceptionInit, Measured

LEMMA StepMeasured == Measured /\ [Iteration]_perceptionVars => Measured'
<1> SUFFICES ASSUME Measured, [Iteration]_perceptionVars
             PROVE  Measured'
  OBVIOUS
<1>1. CASE Iteration
  BY <1>1, SurroundingsAssumption DEF Iteration, Measured
<1>2. CASE UNCHANGED perceptionVars
  BY <1>2 DEF perceptionVars, Measured
<1>3. QED
  BY <1>1, <1>2

(* The two decision trees treat left and right alike, for every            *)
(* measurement: what they answer to the mirrored one is the mirror image   *)
(* of what they answer.                                                    *)
THEOREM LeftAndRightAreAlike == PerceptionSpec => []MirrorImage
BY InitMeasured, StepMeasured, MeasuredIsMirrored, PTL DEF PerceptionSpec

-----------------------------------------------------------------------------
(* What is sampled is an input, of the kind the history holds.             *)
LEMMA SampledIsInput == Sampled \in Data
<1>1. PositionOf(Seen(ranges)) \in enemy_pos_e
  BY DEF PositionOf, enemy_pos_e
<1>2. \A mm : RangeClass(mm) \in enemy_range_e
  BY DEF RangeClass, enemy_range_e
<1>3. enemy_get(ranges) \in EnemyType
  BY <1>1, <1>2 DEF enemy_get, EnemyType
<1>4. line_get(voltages) \in line_e
  BY DEF line_get, LineOf, line_e
<1>5. QED
  BY <1>3, <1>4, HistoryDataAssumption DEF Sampled, InputType

(* The slot before the head holds the newest element.                      *)
LEMMA NewestElement ==
    ASSUME RBInv
    PROVE  /\ ring_buffer_count # 0 <=> Contents # << >>
           /\ Contents # << >> => ring_buffer_peek_head(0) = Contents[Len(Contents)]
<1> USE SizeIsNat DEF RBInv, Slots
<1>1. ContentsInv
  BY ContentsIsSeq
<1>2. ring_buffer_count # 0 <=> Occupied # 0
  BY DEF ring_buffer_count, Occupied
<1>3. Contents = << >> <=> Occupied = 0
  BY <1>1, EmptySeq DEF ContentsInv
<1>4. ASSUME Occupied # 0
      PROVE  ring_buffer_peek_head(0) = Contents[Len(Contents)]
  <2>1. Occupied - 1 \in 0 .. Occupied - 1 /\ (Occupied - 1) + 1 = Occupied
    BY <1>1, <1>4 DEF ContentsInv
  <2>2. Contents[Occupied] = buffer[SlotAt(Occupied - 1)]
    BY <1>1, <2>1 DEF ContentsInv
  <2>3. PeekIndex(0) = SlotAt(Occupied - 1)
    BY <1>4 DEF PeekIndex, SlotAt, Occupied
  <2>4. QED
    BY <1>1, <2>2, <2>3 DEF ring_buffer_peek_head, ContentsInv
<1>5. QED
  BY <1>2, <1>3, <1>4

(* A save on the buffer is input_history_save on its contents.             *)
LEMMA SaveOnContents ==
    ASSUME RBInv, NEW input \in Data, Save(input)
    PROVE  /\ RBInv'
           /\ Contents' = input_history_save(Contents, input, buffer_size)
<1>1. Skipped(input) <=>
        NothingDetected(input) \/ (Contents # << >> /\ Contents[Len(Contents)] = input)
  BY NewestElement DEF Skipped
<1>2. CASE Skipped(input)
  <2>1. UNCHANGED rbVars
    BY <1>2 DEF Save
  <2>2. RBInv' /\ Contents' = Contents
    BY <2>1, UnchangedContents
  <2>3. QED
    BY <1>1, <1>2, <2>2 DEF input_history_save
<1>3. CASE ~Skipped(input)
  <2>1. ring_buffer_put(input)
    BY <1>3 DEF Save
  <2>2. RBInv' /\ Contents' = PutDropOldest(Contents, input, buffer_size)
    BY <2>1, PutAppends DEF PutDropOldest
  <2>3. QED
    BY <1>1, <1>3, <2>2 DEF input_history_save
<1>4. QED
  BY <1>2, <1>3

LEMMA StepBuffer ==
    RBInv /\ [Iteration]_perceptionVars =>
        /\ RBInv'
        /\ [Contents' = input_history_save(Contents, Sampled, buffer_size)]_perceptionVars
<1>1. ASSUME RBInv, Iteration
      PROVE  RBInv' /\ Contents' = input_history_save(Contents, Sampled, buffer_size)
  BY <1>1, SaveOnContents, SampledIsInput DEF Iteration
<1>2. ASSUME RBInv, UNCHANGED perceptionVars
      PROVE  RBInv'
  BY <1>2, UnchangedContents DEF perceptionVars, historyVars
<1>3. QED
  BY <1>1, <1>2

(* Every save on the ring buffer, whatever its size and the indices it has *)
(* reached, is the save on a sequence that StateMachine works with.        *)
THEOREM HistoryIsSequence == PerceptionSpec => SavesAsSequence
<1>1. PerceptionInit => RBInv
  BY RBInitInv DEF PerceptionInit, HistoryInit
<1>2. QED
  BY <1>1, StepBuffer, PTL DEF PerceptionSpec, SavesAsSequence

-----------------------------------------------------------------------------
(* Where the enemy last seen on a side is in the buffer: behind as many    *)
(* entries as were saved since, none of them with an enemy on a side.      *)
SideInv ==
    /\ RBInv
    /\ undirected \in 0 .. buffer_size
    /\ last_seen = EnemyNone => \A i \in Slots : ~Directed(buffer[i])
    /\ last_seen # EnemyNone /\ undirected < buffer_size =>
           /\ undirected < Occupied
           /\ Directed(ring_buffer_peek_head(undirected))
           /\ ring_buffer_peek_head(undirected).enemy = last_seen
           /\ \A k \in 0 .. undirected - 1 : ~Directed(ring_buffer_peek_head(k))

(* A put moves every entry but the oldest one place away from the newest.  *)
LEMMA PeekAfterPut ==
    ASSUME RBInv, NEW d \in Data, ring_buffer_put(d)
    PROVE  /\ ring_buffer_peek_head(0)' = d
           /\ \A k \in 0 .. buffer_size - 2 :
                  ring_buffer_peek_head(k + 1)' = ring_buffer_peek_head(k)
           /\ Occupied' = IF full THEN buffer_size ELSE Occupied + 1
           /\ \A i \in Slots : buffer'[i] = d \/ buffer'[i] = buffer[i]
<1> USE SizeIsNat DEF Slots
<1>1. /\ buffer' = [buffer EXCEPT ![head_idx] = d]
      /\ tail_idx' = IF full THEN Incremented(tail_idx) ELSE tail_idx
      /\ head_idx' = Incremented(head_idx)
      /\ full' <=> head_idx' = tail_idx'
  BY DEF ring_buffer_put, TailAfterPut
<1>2. head_idx \in 0 .. buffer_size - 1
  BY DEF RBInv
<1>3. PeekIndex(0)' = head_idx
  BY <1>1, <1>2 DEF PeekIndex, Incremented
<1>4. ring_buffer_peek_head(0)' = d
  BY <1>1, <1>3 DEF ring_buffer_peek_head, RBInv
<1>5. ASSUME NEW k \in 0 .. buffer_size - 2
      PROVE  ring_buffer_peek_head(k + 1)' = ring_buffer_peek_head(k)
  <2>1. PeekIndex(k + 1)' = PeekIndex(k)
    BY <1>1, <1>2 DEF PeekIndex, Incremented
  <2>2. PeekIndex(k) \in Slots /\ PeekIndex(k) # head_idx
    BY <1>2 DEF PeekIndex
  <2>3. buffer'[PeekIndex(k)] = buffer[PeekIndex(k)]
    BY <1>1, <2>2 DEF RBInv
  <2>4. QED
    BY <2>1, <2>3 DEF ring_buffer_peek_head
<1>6. Occupied' = IF full THEN buffer_size ELSE Occupied + 1
  BY <1>1 DEF RBInv, Occupied, Incremented
<1>7. \A i \in Slots : buffer'[i] = d \/ buffer'[i] = buffer[i]
  BY <1>1 DEF RBInv
<1>8. QED
  BY <1>4, <1>5, <1>6, <1>7

(* An enemy on a side is not the absence of one.                           *)
LEMMA DirectedIsSomething ==
    ASSUME NEW input \in InputType, Directed(input)
    PROVE  input.enemy # EnemyNone /\ ~NothingDetected(input)
BY DEF Directed, enemy_at_left, enemy_at_right, EnemyNone, NothingDetected

LEMMA SaveKeepsSide ==
    ASSUME SideInv, NEW input \in Data, Save(input)
    PROVE  SideInv'
<1> USE SizeIsNat
<1>1. RBInv /\ RBInv' /\ input \in InputType
  BY SaveOnContents, HistoryDataAssumption DEF SideInv
<1>2. undirected \in 0 .. buffer_size
  BY DEF SideInv
<1>3. CASE Skipped(input)
  <2>1. /\ buffer' = buffer /\ head_idx' = head_idx
        /\ tail_idx' = tail_idx /\ full' = full
    BY <1>3 DEF Save, rbVars
  <2>2. Occupied' = Occupied /\ \A k : ring_buffer_peek_head(k)' = ring_buffer_peek_head(k)
    BY <2>1 DEF Occupied, ring_buffer_peek_head, PeekIndex
  <2>3. CASE Directed(input)
    (* The newest entry is this input. *)
    <3>1. last_seen' = input.enemy /\ undirected' = 0 /\ input.enemy # EnemyNone
      BY <1>1, <2>3, DirectedIsSomething DEF Save
    <3>2. ring_buffer_count # 0 /\ ring_buffer_peek_head(0) = input
      BY <1>1, <1>3, <2>3, DirectedIsSomething DEF Skipped
    <3>3. 0 < Occupied
      BY <1>1, <3>2 DEF RBInv, Slots, ring_buffer_count, Occupied
    <3>4. ring_buffer_peek_head(0)' = input
      BY <2>2, <3>2
    <3>5. ring_buffer_peek_head(undirected)' = input
      BY <3>1, <3>4 DEF ring_buffer_peek_head, PeekIndex
    <3>6. QED
      BY <1>1, <2>2, <2>3, <3>1, <3>3, <3>5 DEF SideInv
  <2>4. CASE ~Directed(input)
    <3>1. last_seen' = last_seen /\ undirected' = undirected
      BY <1>3, <2>4 DEF Save
    <3>2. QED
      BY <1>1, <2>1, <3>1 DEF SideInv, Occupied, ring_buffer_peek_head, PeekIndex
  <2>5. QED
    BY <2>3, <2>4
<1>4. CASE ~Skipped(input)
  <2>1. /\ ring_buffer_peek_head(0)' = input
        /\ \A k \in 0 .. buffer_size - 2 :
               ring_buffer_peek_head(k + 1)' = ring_buffer_peek_head(k)
        /\ Occupied' = IF full THEN buffer_size ELSE Occupied + 1
        /\ \A i \in Slots : buffer'[i] = input \/ buffer'[i] = buffer[i]
    BY <1>1, <1>4, PeekAfterPut DEF Save
  <2>2. Occupied \in 0 .. buffer_size
    BY <1>1, ContentsIsSeq DEF ContentsInv
  <2>3. CASE Directed(input)
    <3>1. last_seen' = input.enemy /\ undirected' = 0 /\ input.enemy # EnemyNone
      BY <1>1, <2>3, DirectedIsSomething DEF Save
    <3>2. ring_buffer_peek_head(undirected)' = input
      BY <2>1, <3>1 DEF ring_buffer_peek_head, PeekIndex
    <3>3. 0 < Occupied'
      BY <2>1, <2>2
    <3>4. QED
      BY <1>1, <2>3, <3>1, <3>2, <3>3 DEF SideInv
  <2>4. CASE ~Directed(input)
    <3>1. /\ last_seen' = last_seen
          /\ undirected' = IF undirected = buffer_size THEN undirected ELSE undirected + 1
      BY <1>4, <2>4 DEF Save
    <3>2. undirected' \in 0 .. buffer_size
      BY <1>2, <3>1
    <3>3. ASSUME last_seen = EnemyNone, NEW i \in Slots
          PROVE  ~Directed(buffer'[i])
      BY <2>1, <2>4, <3>3 DEF SideInv
    <3>4. ASSUME last_seen # EnemyNone, undirected' < buffer_size
          PROVE  /\ undirected' < Occupied'
                 /\ Directed(ring_buffer_peek_head(undirected)')
                 /\ ring_buffer_peek_head(undirected)'.enemy = last_seen
                 /\ \A k \in 0 .. undirected' - 1 : ~Directed(ring_buffer_peek_head(k)')
      <4>1. undirected' = undirected + 1 /\ undirected \in 0 .. buffer_size - 2
        BY <1>2, <3>1, <3>4
      <4>2. /\ undirected < Occupied
            /\ Directed(ring_buffer_peek_head(undirected))
            /\ ring_buffer_peek_head(undirected).enemy = last_seen
            /\ \A k \in 0 .. undirected - 1 : ~Directed(ring_buffer_peek_head(k))
        BY <3>4, <4>1 DEF SideInv
      <4>3. ring_buffer_peek_head(undirected)' = ring_buffer_peek_head(undirected)
        <5> PICK u \in 0 .. buffer_size - 2 : u = undirected
          BY <4>1
        <5>1. ring_buffer_peek_head(u + 1)' = ring_buffer_peek_head(u)
          BY <2>1
        <5>2. ring_buffer_peek_head(undirected)' = ring_buffer_peek_head(u + 1)'
          BY <4>1 DEF ring_buffer_peek_head, PeekIndex
        <5>3. QED
          BY <5>1, <5>2
      <4>4. undirected' < Occupied'
        BY <2>1, <2>2, <4>1, <4>2
      <4>5. ASSUME NEW k \in 0 .. undirected
            PROVE  ~Directed(ring_buffer_peek_head(k)')
        <5>1. CASE k = 0
          BY <2>1, <2>4, <5>1 DEF ring_buffer_peek_head, PeekIndex
        <5>2. CASE k # 0
          <6> PICK j \in 0 .. undirected - 1 : k = j + 1
            BY <4>1, <5>2
          <6>1. ring_buffer_peek_head(j + 1)' = ring_buffer_peek_head(j)
            BY <2>1, <4>1
          <6>2. QED
            BY <4>2, <6>1
        <5>3. QED
          BY <5>1, <5>2
      <4>6. QED
        BY <4>1, <4>2, <4>3, <4>4, <4>5
    <3>5. QED
      BY <1>1, <3>1, <3>2, <3>3, <3>4 DEF SideInv
  <2>5. QED
    BY <2>3, <2>4
<1>5. QED
  BY <1>3, <1>4

(* The loop stops at the offset of the enemy last seen on a side.          *)
LEMMA SideIsFound ==
    ASSUME SideInv
    PROVE  RemembersLastSide
<1> USE SizeIsNat
<1> DEFINE offsets == {k \in 0 .. buffer_size - 1 :
                          k < ring_buffer_count /\ Directed(ring_buffer_peek_head(k))}
<1> SUFFICES ASSUME undirected < buffer_size
             PROVE  last_directed_enemy = last_seen
  BY DEF RemembersLastSide
<1>1. RBInv
  BY DEF SideInv
<1>2. CASE last_seen = EnemyNone
  <2>1. ASSUME NEW k \in 0 .. buffer_size - 1
        PROVE  ~Directed(ring_buffer_peek_head(k))
    <3>1. PeekIndex(k) \in Slots
      BY <1>1 DEF RBInv, Slots, PeekIndex
    <3>2. QED
      BY <1>2, <3>1 DEF SideInv, ring_buffer_peek_head
  <2>2. offsets = {}
    BY <2>1
  <2>3. QED
    BY <1>2, <2>2 DEF last_directed_enemy
<1>3. CASE last_seen # EnemyNone
  <2> DEFINE u == undirected
  <2>1. u \in 0 .. buffer_size - 1
    BY DEF SideInv
  <2>2. /\ u < Occupied
        /\ Directed(ring_buffer_peek_head(u))
        /\ ring_buffer_peek_head(u).enemy = last_seen
        /\ \A k \in 0 .. u - 1 : ~Directed(ring_buffer_peek_head(k))
    BY <1>3 DEF SideInv
  <2>3. u < ring_buffer_count
    BY <1>1, <2>1, <2>2 DEF RBInv, Slots, Occupied, ring_buffer_count
  <2>4. u \in offsets
    BY <2>1, <2>2, <2>3
  <2>5. \A j \in offsets : u <= j
    <3> TAKE j \in offsets
    <3>1. j \in 0 .. buffer_size - 1 /\ Directed(ring_buffer_peek_head(j))
      OBVIOUS
    <3>2. ~(j < u)
      BY <2>1, <2>2, <3>1
    <3>3. QED
      BY <2>1, <3>1, <3>2
  <2>6. Nearest(offsets) = u
    <3>1. \A k \in offsets : (\A j \in offsets : k <= j) => k = u
      <4> TAKE k \in offsets
      <4>1. k \in 0 .. buffer_size - 1
        OBVIOUS
      <4>2. (\A j \in offsets : k <= j) => k <= u
        BY <2>4
      <4>3. u <= k
        BY <2>5
      <4> HIDE DEF offsets
      <4>4. QED
        BY <2>1, <4>1, <4>2, <4>3
    <3> HIDE DEF offsets
    <3>2. QED
      BY <2>4, <2>5, <3>1 DEF Nearest
  <2>7. QED
    BY <2>2, <2>4, <2>6 DEF last_directed_enemy
<1>4. QED
  BY <1>2, <1>3

LEMMA InitSide ==
    ASSUME ~Directed(Zero)
    PROVE  PerceptionInit => SideInv
<1> SUFFICES ASSUME PerceptionInit
             PROVE  SideInv
  OBVIOUS
<1>1. RBInit /\ last_seen = EnemyNone /\ undirected = 0
  BY DEF PerceptionInit, HistoryInit
<1>2. RBInv
  BY <1>1, RBInitInv
<1>3. \A i \in Slots : ~Directed(buffer[i])
  BY <1>1 DEF RBInit
<1>4. QED
  BY <1>1, <1>2, <1>3, SizeIsNat DEF SideInv

LEMMA StepSide == SideInv /\ [Iteration]_perceptionVars => SideInv'
<1>1. ASSUME SideInv, Iteration
      PROVE  SideInv'
  BY <1>1, SaveKeepsSide, SampledIsInput DEF Iteration
<1>2. ASSUME SideInv, UNCHANGED perceptionVars
      PROVE  SideInv'
  <2>1. UNCHANGED <<buffer, head_idx, tail_idx, full, last_seen, undirected>>
    BY <1>2 DEF perceptionVars, historyVars, rbVars
  <2>2. QED
    BY <1>2, <2>1 DEF SideInv, RBInv, Occupied, ring_buffer_peek_head, PeekIndex
<1>3. QED
  BY <1>1, <1>2

(* The loop of input_history_last_directed_enemy finds the enemy that was  *)
(* last seen on a side, as long as the entries saved since leave room for  *)
(* it. A slot of the static buffer that was never written is all zeroes,   *)
(* which is no enemy; with that the invariant need not say that the loop   *)
(* stays among the slots that have been written.                           *)
THEOREM LastSideIsRemembered ==
    ASSUME ~Directed(Zero)
    PROVE  PerceptionSpec => []RemembersLastSide
<1>1. PerceptionInit => SideInv
  BY InitSide
<1>2. SideInv => RemembersLastSide
  BY SideIsFound
<1>3. QED
  BY <1>1, <1>2, StepSide, PTL DEF PerceptionSpec

=============================================================================
