---------------------------- MODULE SerialProofs ----------------------------
(***************************************************************************)
(* Proofs about what leaves through the UART and what comes in from the    *)
(* remote. Uart: no interrupt finds the buffer empty, the bytes traced are *)
(* sent in order, and the buffer is a FIFO to the program and to the       *)
(* interrupt. IrPort2: a get that is interrupted loses and doubles no      *)
(* command. IrRemote: the commands put are those that are sent. Buffers    *)
(* are of any size, and so are texts and what the remote sends.            *)
(***************************************************************************)
EXTENDS Uart, IrPort2, IrRemote, RingBufferProofs

-----------------------------------------------------------------------------
(* Uart *)
WireBytes == Elements \cup {Garbled}

(* The interrupt runs only while the main program is where it is enabled,  *)
(* and nothing fills the buffer between the poll and the put.              *)
ControlInv ==
    /\ isr \in {"none", "clear", "start"}
    /\ isr # "none" => TXIE
    /\ TXIE => pc \in {"idle", "poll", "mask"}
    /\ pc \in {"poll", "mask", "put", "start", "enable"} => todo \in Seq(Data) /\ todo # << >>
    /\ pc \in {"mask", "put"} => ~full

(* While nobody is between two bytes, the buffer is empty and the peripheral *)
(* has asked for nothing, or its oldest byte is under way: it waits in     *)
(* TXBUF, or the flag is set and its interrupt is to come.                 *)
TransmissionInv ==
    /\ pc = "boot" => Contents = << >> /\ txbuf = << >>
    /\ isr = "none" /\ pc \notin {"boot", "start"} =>
           IF Contents = << >> THEN txbuf = << >> /\ ~TXIFG
                               ELSE TXIFG <=> txbuf = << >>
    /\ pc = "start" \/ isr = "start" => Contents # << >> /\ txbuf = << >> /\ ~TXIFG
    /\ isr = "clear" => txbuf = << >>

BytesInv == /\ wire \in Seq(WireBytes) /\ shift \in Seq(WireBytes)
            /\ txbuf \in Seq(WireBytes) /\ traced \in Seq(WireBytes)

UartInv ==
    /\ RBInv
    /\ ControlInv
    /\ ~Reporting => TransmissionInv /\ BytesInv /\ SentInOrder

-----------------------------------------------------------------------------
(* What the contents are as a sequence, and who takes part in a step.      *)
LEMMA ContentsFacts ==
    ASSUME RBInv
    PROVE  /\ Contents \in Seq(Elements) /\ Contents \in Seq(WireBytes)
           /\ ring_buffer_empty <=> Contents = << >>
           /\ Contents # << >> => /\ ring_buffer_peek_tail = Head(Contents)
                                  /\ ring_buffer_peek_tail \in WireBytes
                                  /\ Tail(Contents) \in Seq(WireBytes)
                                  /\ Contents = <<ring_buffer_peek_tail>> \o Tail(Contents)
           /\ ~full => Len(Contents) # buffer_size
<1>1. Contents \in Seq(Elements) /\ Len(Contents) = Occupied
  BY ContentsIsSeq DEF ContentsInv
<1>2. Contents \in Seq(WireBytes)
  BY <1>1, SeqMonotonic DEF WireBytes
<1>3. ring_buffer_empty <=> Contents = << >>
  BY EmptyContents
<1>4. ASSUME Contents # << >>
      PROVE  /\ ring_buffer_peek_tail = Head(Contents)
             /\ Head(Contents) \in WireBytes
             /\ Tail(Contents) \in Seq(WireBytes)
             /\ Contents = <<Head(Contents)>> \o Tail(Contents)
  <2>1. ring_buffer_peek_tail = Head(Contents)
    BY <1>3, <1>4, EmptyContents
  <2>2. Head(Contents) \in WireBytes /\ Tail(Contents) \in Seq(WireBytes)
    BY <1>2, <1>4, HeadTailProperties
  <2>3. Contents = <<Head(Contents)>> \o Tail(Contents)
    BY <1>2, <1>4
  <2>4. QED
    BY <2>1, <2>2, <2>3
<1>5. ~full => Len(Contents) # buffer_size
  BY <1>1, SizeIsNat DEF RBInv, Slots, Occupied
<1>6. QED
  BY <1>1, <1>2, <1>3, <1>4, <1>5

LEMMA InitInv == UartInit => UartInv
<1> SUFFICES ASSUME UartInit
             PROVE  UartInv
  OBVIOUS
<1>1. RBInv /\ Contents = << >>
  BY RBInitInv DEF UartInit
<1>2. ControlInv
  BY DEF UartInit, ControlInv
<1>3. TransmissionInv
  BY <1>1 DEF UartInit, TransmissionInv
<1>4. BytesInv
  BY EmptySeq DEF UartInit, BytesInv
<1>5. SentInOrder
  BY <1>1 DEF UartInit, SentInOrder, OnItsWay
<1>6. QED
  BY <1>1, <1>2, <1>3, <1>4, <1>5 DEF UartInv

LEMMA TxbufToShiftInv == UartInv /\ TxbufToShift => UartInv'
<1> SUFFICES ASSUME UartInv, TxbufToShift
             PROVE  UartInv'
  OBVIOUS
<1>1. /\ txbuf # << >> /\ shift = << >>
      /\ shift' = txbuf /\ txbuf' = << >> /\ TXIFG'
      /\ UNCHANGED <<TXIE, wire, pc, todo, isr, traced, full>>
  BY DEF TxbufToShift, rbVars
<1>2. RBInv' /\ Contents' = Contents
  BY UnchangedContents DEF UartInv, TxbufToShift
<1>3. ControlInv'
  BY <1>1 DEF UartInv, ControlInv
<1>4. ASSUME ~Reporting'
      PROVE  TransmissionInv' /\ BytesInv' /\ SentInOrder'
  <2>1. ~Reporting /\ TransmissionInv /\ BytesInv /\ SentInOrder
    BY <1>1, <1>4 DEF UartInv, Reporting
  <2>2. TransmissionInv'
    BY <1>1, <1>2, <2>1 DEF TransmissionInv, UartInv, ControlInv
  <2>3. BytesInv'
    BY <1>1, <2>1, EmptySeq DEF BytesInv
  <2>4. OnItsWay' = OnItsWay
    BY <1>1, <2>1, ConcatEmptySeq, ConcatProperties DEF OnItsWay, BytesInv
  <2>5. SentInOrder'
    BY <1>1, <1>2, <2>1, <2>4 DEF SentInOrder
  <2>6. QED
    BY <2>2, <2>3, <2>5
<1>5. QED
  BY <1>2, <1>3, <1>4 DEF UartInv

LEMMA ShiftedOutInv == UartInv /\ ShiftedOut => UartInv'
<1> SUFFICES ASSUME UartInv, ShiftedOut
             PROVE  UartInv'
  OBVIOUS
<1>1. /\ wire' = wire \o shift /\ shift' = << >>
      /\ UNCHANGED <<txbuf, TXIFG, TXIE, pc, todo, isr, traced, full>>
  BY DEF ShiftedOut, rbVars
<1>2. RBInv' /\ Contents' = Contents
  BY UnchangedContents DEF UartInv, ShiftedOut
<1>3. ControlInv'
  BY <1>1 DEF UartInv, ControlInv
<1>4. ASSUME ~Reporting'
      PROVE  TransmissionInv' /\ BytesInv' /\ SentInOrder'
  <2>1. ~Reporting /\ TransmissionInv /\ BytesInv /\ SentInOrder
    BY <1>1, <1>4 DEF UartInv, Reporting
  <2>2. TransmissionInv'
    BY <1>1, <1>2, <2>1 DEF TransmissionInv
  <2>3. BytesInv'
    BY <1>1, <2>1, EmptySeq, ConcatProperties DEF BytesInv
  <2>4. OnItsWay' = OnItsWay
    BY <1>1, <2>1, ConcatEmptySeq, ConcatProperties DEF OnItsWay, BytesInv
  <2>5. SentInOrder'
    BY <1>1, <1>2, <2>1, <2>4 DEF SentInOrder
  <2>6. QED
    BY <2>2, <2>3, <2>5
<1>5. QED
  BY <1>2, <1>3, <1>4 DEF UartInv

(* Handing the oldest byte to the peripheral: it is sent after all others. *)
LEMMA HandOver ==
    ASSUME RBInv, BytesInv, Contents # << >>, txbuf = << >>,
           WriteTxbuf(ring_buffer_peek_tail), UNCHANGED <<rbVars, shift, wire>>
    PROVE  /\ OnItsWay \o Contents = OnItsWay' \o Tail(Contents)
           /\ txbuf' \in Seq(WireBytes) /\ txbuf' # << >> /\ ~TXIFG'
<1> DEFINE b == ring_buffer_peek_tail
<1>1. b \in WireBytes /\ Tail(Contents) \in Seq(WireBytes) /\ Contents = <<b>> \o Tail(Contents)
  BY ContentsFacts
<1>2. <<b>> \in Seq(WireBytes) /\ <<b>> # << >>
  BY <1>1
<1>3. txbuf' = <<b>> /\ ~TXIFG' /\ wire' = wire /\ shift' = shift
  BY DEF WriteTxbuf
<1>4. wire \o shift \in Seq(WireBytes) /\ OnItsWay = wire \o shift
  BY ConcatProperties, ConcatEmptySeq DEF OnItsWay, BytesInv
<1>5. OnItsWay' = (wire \o shift) \o <<b>>
  BY <1>3 DEF OnItsWay
<1>6. OnItsWay \o Contents = (wire \o shift) \o (<<b>> \o Tail(Contents))
  BY <1>1, <1>4
<1>7. (wire \o shift) \o (<<b>> \o Tail(Contents)) = OnItsWay' \o Tail(Contents)
  <2>1. ((wire \o shift) \o <<b>>) \o Tail(Contents) =
            (wire \o shift) \o (<<b>> \o Tail(Contents))
    BY <1>1, <1>2, <1>4, ConcatAssociative
  <2>2. QED
    BY <1>5, <2>1
<1>8. QED
  BY <1>2, <1>3, <1>6, <1>7

LEMMA IsrGetInv ==
    UartInv /\ IsrGet => UartInv' /\ isr' = "clear" /\ ring_buffer_get
<1> SUFFICES ASSUME UartInv, IsrGet
             PROVE  UartInv' /\ isr' = "clear" /\ ring_buffer_get
  OBVIOUS
<1>1. /\ isr = "none" /\ TXIE /\ TXIFG
      /\ UNCHANGED <<txbuf, shift, TXIFG, TXIE, wire, pc, todo, traced>>
  BY DEF IsrGet, usci
<1>2. pc \in {"idle", "poll", "mask"} /\ ~Reporting /\ ~Reporting'
  BY <1>1 DEF UartInv, ControlInv, Reporting
<1>3. RBInv /\ TransmissionInv /\ BytesInv /\ SentInOrder
  BY <1>2 DEF UartInv
<1>4. Contents # << >> /\ txbuf = << >>
  BY <1>1, <1>2, <1>3 DEF TransmissionInv
<1>5. isr' = "clear" /\ ring_buffer_get /\ ~full'
  BY <1>3, <1>4, ContentsFacts DEF IsrGet, ring_buffer_get
<1>6. RBInv' /\ Contents' = Tail(Contents)
  BY <1>3, <1>5, GetTakesOldest
<1>7. ControlInv'
  BY <1>1, <1>5 DEF UartInv, ControlInv
<1>8. TransmissionInv'
  BY <1>1, <1>2, <1>4, <1>5 DEF TransmissionInv
<1>9. BytesInv' /\ OnItsWay' = OnItsWay
  BY <1>1, <1>3 DEF BytesInv, OnItsWay
<1>10. SentInOrder'
  BY <1>1, <1>2, <1>3, <1>4, <1>5, <1>6, <1>9 DEF SentInOrder
<1>11. QED
  BY <1>5, <1>6, <1>7, <1>8, <1>9, <1>10 DEF UartInv

LEMMA IsrClearInv == UartInv /\ IsrClear => UartInv'
<1> SUFFICES ASSUME UartInv, IsrClear
             PROVE  UartInv'
  OBVIOUS
<1>1. /\ isr = "clear" /\ ~TXIFG'
      /\ isr' = IF ring_buffer_empty THEN "none" ELSE "start"
      /\ UNCHANGED <<txbuf, shift, TXIE, wire, pc, todo, traced, full>>
  BY DEF IsrClear, rbVars
<1>2. RBInv /\ RBInv' /\ Contents' = Contents
  BY UnchangedContents DEF UartInv, IsrClear
<1>3. TXIE /\ pc \in {"idle", "poll", "mask"} /\ ~Reporting /\ ~Reporting'
  BY <1>1 DEF UartInv, ControlInv, Reporting
<1>4. TransmissionInv /\ BytesInv /\ SentInOrder
  BY <1>3 DEF UartInv
<1>5. ring_buffer_empty <=> Contents = << >>
  BY <1>2, ContentsFacts
<1>6. ControlInv'
  BY <1>1, <1>3 DEF UartInv, ControlInv
<1>7. TransmissionInv'
  BY <1>1, <1>2, <1>3, <1>4, <1>5 DEF TransmissionInv
<1>8. BytesInv' /\ OnItsWay' = OnItsWay
  BY <1>1, <1>4 DEF BytesInv, OnItsWay
<1>9. SentInOrder'
  BY <1>1, <1>2, <1>3, <1>4, <1>5, <1>8 DEF SentInOrder
<1>10. QED
  BY <1>2, <1>6, <1>7, <1>8, <1>9 DEF UartInv

LEMMA IsrStartInv == UartInv /\ IsrStart => UartInv'
<1> SUFFICES ASSUME UartInv, IsrStart
             PROVE  UartInv'
  OBVIOUS
<1>1. /\ isr = "start" /\ isr' = "none"
      /\ UNCHANGED <<shift, TXIE, wire, pc, todo, traced, full>>
  BY DEF IsrStart, rbVars
<1>2. RBInv /\ RBInv' /\ Contents' = Contents
  BY UnchangedContents DEF UartInv, IsrStart
<1>3. TXIE /\ pc \in {"idle", "poll", "mask"} /\ ~Reporting /\ ~Reporting'
  BY <1>1 DEF UartInv, ControlInv, Reporting
<1>4. TransmissionInv /\ BytesInv /\ SentInOrder /\ Contents # << >> /\ txbuf = << >>
  BY <1>1, <1>3 DEF UartInv, TransmissionInv
<1>5. /\ OnItsWay \o Contents = OnItsWay' \o Tail(Contents)
      /\ txbuf' \in Seq(WireBytes) /\ txbuf' # << >> /\ ~TXIFG'
  BY <1>2, <1>4, HandOver DEF IsrStart
<1>6. ControlInv'
  BY <1>1 DEF UartInv, ControlInv
<1>7. TransmissionInv' /\ BytesInv'
  BY <1>1, <1>2, <1>3, <1>4, <1>5 DEF TransmissionInv, BytesInv
<1>8. SentInOrder'
  BY <1>1, <1>2, <1>3, <1>4, <1>5 DEF SentInOrder
<1>9. QED
  BY <1>2, <1>6, <1>7, <1>8 DEF UartInv

LEMMA UartInitStepInv == UartInv /\ uart_init => UartInv'
<1> SUFFICES ASSUME UartInv, uart_init
             PROVE  UartInv'
  OBVIOUS
<1>1. /\ isr = "none" /\ pc = "boot" /\ pc' = "idle" /\ ~TXIFG' /\ TXIE'
      /\ UNCHANGED <<txbuf, shift, wire, todo, isr, traced, full>>
  BY DEF uart_init, Goto, rbVars
<1>2. RBInv' /\ Contents' = Contents
  BY UnchangedContents DEF UartInv, uart_init
<1>3. TransmissionInv /\ BytesInv /\ SentInOrder
  BY <1>1 DEF UartInv, Reporting
<1>4. ControlInv'
  BY <1>1 DEF ControlInv
<1>5. TransmissionInv'
  BY <1>1, <1>2, <1>3 DEF TransmissionInv
<1>6. BytesInv' /\ OnItsWay' = OnItsWay
  BY <1>1, <1>3 DEF BytesInv, OnItsWay
<1>7. SentInOrder'
  BY <1>1, <1>2, <1>3, <1>6 DEF SentInOrder, Reporting
<1>8. QED
  BY <1>2, <1>4, <1>5, <1>6, <1>7 DEF UartInv

(* The steps of _putchar that leave buffer and peripheral alone. *)
LEMMA PutcharControlInv ==
    ASSUME UartInv,
           \/ \E c \in Chars : Putchar(c)
           \/ PollNotFull \/ DisableInterrupt \/ EnableInterrupt
    PROVE  UartInv'
<1>1. /\ isr = "none"
      /\ pc \in {"idle", "poll", "mask", "enable"}
      /\ pc' \in {"idle", "poll", "mask", "put"}
      /\ UNCHANGED <<txbuf, shift, TXIFG, wire, isr, traced, full>>
  BY DEF Putchar, PollNotFull, DisableInterrupt, EnableInterrupt, Goto, rbVars, usci
<1>2. RBInv' /\ Contents' = Contents
  BY UnchangedContents
  DEF UartInv, Putchar, PollNotFull, DisableInterrupt, EnableInterrupt
<1>3. ~Reporting /\ TransmissionInv /\ BytesInv /\ SentInOrder /\ ControlInv
  BY <1>1 DEF UartInv, Reporting
<1>4. ControlInv'
  <2>1. ASSUME NEW c \in Chars, Putchar(c)
        PROVE  ControlInv'
    <3>1. Expanded(c) \in Seq(Data) /\ Expanded(c) # << >>
      BY CharsAssumption DEF Expanded
    <3>2. isr' = "none" /\ pc' = "poll" /\ todo' = Expanded(c)
      BY <1>1, <2>1 DEF Putchar, Goto
    <3>3. QED
      BY <3>1, <3>2 DEF ControlInv
  <2>2. CASE PollNotFull
    BY <1>1, <1>3, <2>2 DEF PollNotFull, Goto, ControlInv, usci
  <2>3. CASE DisableInterrupt
    BY <1>1, <1>3, <2>3 DEF DisableInterrupt, Goto, ControlInv
  <2>4. CASE EnableInterrupt
    <3>1. /\ isr' = "none" /\ todo' = Tail(todo)
          /\ pc' = IF Len(todo) = 1 THEN "idle" ELSE "poll"
          /\ todo \in Seq(Data) /\ todo # << >>
      BY <1>1, <1>3, <2>4 DEF EnableInterrupt, Goto, ControlInv
    <3>2. Len(todo) # 1 => Tail(todo) \in Seq(Data) /\ Tail(todo) # << >>
      <4>1. Tail(todo) \in Seq(Data) /\ Len(Tail(todo)) = Len(todo) - 1
        BY <3>1, HeadTailProperties
      <4>2. Len(todo) # 1 => Len(Tail(todo)) # 0
        BY <3>1, <4>1, LenProperties
      <4>3. QED
        BY <4>1, <4>2, EmptySeq
    <3>3. QED
      BY <3>1, <3>2 DEF ControlInv
  <2>5. QED
    BY <2>1, <2>2, <2>3, <2>4
<1>5. TransmissionInv'
  BY <1>1, <1>2, <1>3 DEF TransmissionInv
<1>6. BytesInv' /\ OnItsWay' = OnItsWay
  BY <1>1, <1>3 DEF BytesInv, OnItsWay
<1>7. SentInOrder'
  BY <1>1, <1>2, <1>3, <1>6 DEF SentInOrder
<1>8. QED
  BY <1>2, <1>4, <1>5, <1>6, <1>7 DEF UartInv

LEMMA PutInv ==
    UartInv /\ Put => UartInv' /\ \E d \in Data : ring_buffer_put(d)
<1> SUFFICES ASSUME UartInv, Put
             PROVE  UartInv' /\ \E d \in Data : ring_buffer_put(d)
  OBVIOUS
<1> DEFINE d == Head(todo)
<1>1. /\ isr = "none" /\ pc = "put"
      /\ pc' = IF ring_buffer_empty THEN "start" ELSE "enable"
      /\ ring_buffer_put(d) /\ traced' = Append(traced, d)
      /\ UNCHANGED <<txbuf, shift, TXIFG, TXIE, wire, todo, isr>>
  BY DEF Put, Goto, TxOngoing, usci
<1>2. RBInv /\ ControlInv /\ TransmissionInv /\ BytesInv /\ SentInOrder /\ ~Reporting'
  BY <1>1 DEF UartInv, Reporting
<1>3. todo \in Seq(Data) /\ todo # << >> /\ ~full /\ d \in Data
  BY <1>1, <1>2, HeadTailProperties DEF ControlInv
<1>4. /\ Contents \in Seq(WireBytes) /\ d \in WireBytes
      /\ ring_buffer_empty <=> Contents = << >>
  BY <1>2, <1>3, ContentsFacts DEF WireBytes, Elements
<1>5. RBInv' /\ Contents' = Append(Contents, d) /\ Contents' # << >>
  BY <1>1, <1>2, <1>3, <1>4, PutAppends, ContentsFacts, AppendProperties
<1>6. ControlInv'
  BY <1>1, <1>2 DEF ControlInv
<1>7. TransmissionInv'
  BY <1>1, <1>2, <1>4, <1>5 DEF TransmissionInv
<1>8. BytesInv' /\ OnItsWay' = OnItsWay /\ OnItsWay \in Seq(WireBytes)
  BY <1>1, <1>2, <1>4, AppendProperties, ConcatProperties DEF BytesInv, OnItsWay
<1>9. SentInOrder'
  <2>1. CASE Contents = << >>
    <3>1. traced' = Append(OnItsWay, d) /\ Contents' = <<d>> /\ pc' = "start"
      BY <1>1, <1>2, <1>4, <1>5, <1>8, <2>1, ConcatEmptySeq DEF SentInOrder, Reporting
    <3>2. QED
      BY <1>4, <1>8, <3>1, AppendIsConcat DEF SentInOrder
  <2>2. CASE Contents # << >>
    <3>1. traced = OnItsWay \o Tail(Contents) /\ pc' # "start" /\ isr' = "none"
      BY <1>1, <1>2, <1>4, <2>2 DEF SentInOrder, Reporting
    <3>2. Tail(Contents') = Append(Tail(Contents), d) /\ Tail(Contents) \in Seq(WireBytes)
      BY <1>4, <1>5, <2>2, HeadTailAppend, HeadTailProperties
    <3>3. Append(OnItsWay \o Tail(Contents), d) = OnItsWay \o Append(Tail(Contents), d)
      <4>1. <<d>> \in Seq(WireBytes)
        BY <1>4
      <4>2. OnItsWay \o Tail(Contents) \in Seq(WireBytes)
        BY <1>8, <3>2, ConcatProperties
      <4>3. Append(OnItsWay \o Tail(Contents), d) = (OnItsWay \o Tail(Contents)) \o <<d>>
        BY <1>4, <4>2, AppendIsConcat
      <4>4. Append(Tail(Contents), d) = Tail(Contents) \o <<d>>
        BY <1>4, <3>2, AppendIsConcat
      <4>5. (OnItsWay \o Tail(Contents)) \o <<d>> = OnItsWay \o (Tail(Contents) \o <<d>>)
        BY <1>8, <3>2, <4>1, ConcatAssociative
      <4>6. QED
        BY <4>3, <4>4, <4>5
    <3>4. QED
      BY <1>1, <1>5, <1>8, <3>1, <3>2, <3>3 DEF SentInOrder
  <2>3. QED
    BY <2>1, <2>2
<1>10. QED
  BY <1>1, <1>3, <1>5, <1>6, <1>7, <1>8, <1>9 DEF UartInv

LEMMA UartTxStartInv == UartInv /\ uart_tx_start => UartInv'
<1> SUFFICES ASSUME UartInv, uart_tx_start
             PROVE  UartInv'
  OBVIOUS
<1>1. /\ isr = "none" /\ pc = "start" /\ pc' = "enable"
      /\ UNCHANGED <<shift, TXIE, wire, todo, isr, traced, full>>
  BY DEF uart_tx_start, Goto, rbVars
<1>2. RBInv /\ RBInv' /\ Contents' = Contents
  BY UnchangedContents DEF UartInv, uart_tx_start
<1>3. /\ TransmissionInv /\ BytesInv /\ SentInOrder /\ ~Reporting
      /\ Contents # << >> /\ txbuf = << >>
  BY <1>1 DEF UartInv, TransmissionInv, Reporting
<1>4. /\ OnItsWay \o Contents = OnItsWay' \o Tail(Contents)
      /\ txbuf' \in Seq(WireBytes) /\ txbuf' # << >> /\ ~TXIFG'
  BY <1>2, <1>3, HandOver DEF uart_tx_start
<1>5. ControlInv'
  BY <1>1 DEF UartInv, ControlInv
<1>6. TransmissionInv' /\ BytesInv'
  BY <1>1, <1>2, <1>3, <1>4 DEF TransmissionInv, BytesInv
<1>7. SentInOrder'
  BY <1>1, <1>2, <1>3, <1>4 DEF SentInOrder
<1>8. QED
  BY <1>2, <1>5, <1>6, <1>7 DEF UartInv

(* From a failed ASSERT on the interrupt is off. *)
LEMMA ReportInv == UartInv /\ (uart_init_assert \/ uart_trace_assert) => UartInv'
<1> SUFFICES ASSUME UartInv, uart_init_assert \/ uart_trace_assert
             PROVE  UartInv'
  OBVIOUS
<1>1. isr' = "none" /\ pc' \in {"report", "await", "halted"} /\ ~TXIE'
  BY DEF uart_init_assert, uart_trace_assert, ReportChar, AwaitFlag, Goto, UartInv,
         ControlInv, usci
<1>2. RBInv'
  BY UnchangedContents DEF uart_init_assert, uart_trace_assert, ReportChar, AwaitFlag, UartInv
<1>3. ControlInv' /\ Reporting'
  BY <1>1 DEF ControlInv, Reporting
<1>4. QED
  BY <1>2, <1>3 DEF UartInv

LEMMA StutterInv == UartInv /\ UNCHANGED uartVars => UartInv'
<1> SUFFICES ASSUME UartInv, UNCHANGED uartVars
             PROVE  UartInv'
  OBVIOUS
<1>1. UNCHANGED <<full, txbuf, shift, TXIFG, TXIE, wire, pc, todo, isr, traced>>
  BY DEF uartVars, usci, rbVars
<1>2. RBInv' /\ Contents' = Contents
  BY UnchangedContents DEF UartInv, uartVars
<1>3. ControlInv'
  BY <1>1 DEF UartInv, ControlInv
<1>4. /\ TransmissionInv => TransmissionInv'
      /\ BytesInv => BytesInv'
      /\ SentInOrder => SentInOrder'
      /\ Reporting' <=> Reporting
  BY <1>1, <1>2 DEF TransmissionInv, BytesInv, SentInOrder, OnItsWay, Reporting
<1>5. QED
  BY <1>2, <1>3, <1>4 DEF UartInv

-----------------------------------------------------------------------------
LEMMA UartStepInv == UartInv /\ [UartNext]_uartVars => UartInv'
BY TxbufToShiftInv, ShiftedOutInv, IsrGetInv, IsrClearInv, IsrStartInv, UartInitStepInv,
   PutcharControlInv, PutInv, UartTxStartInv, ReportInv, StutterInv
DEF UartNext, Main, isr_uart_tx, _putchar

THEOREM UartInvariant == UartSpec => []UartInv
BY InitInv, UartStepInv, PTL DEF UartSpec

(* No interrupt finds the buffer empty: the ASSERT_INTERRUPT of isr_uart_tx *)
(* never fails, whatever is traced and whatever the size of the buffer.    *)
THEOREM InterruptAlwaysFindsByte == UartSpec => []InterruptFindsByte
<1>1. UartInv => InterruptFindsByte
  BY DEF UartInv, ControlInv, InterruptFindsByte
<1>2. QED
  BY <1>1, UartInvariant, PTL

(* Until an ASSERT fails, the bytes sent are those traced, in their order. *)
THEOREM TraceIsSentInOrder == UartSpec => []SentInOrder
<1>1. UartInv => SentInOrder
  BY DEF UartInv, SentInOrder
<1>2. QED
  BY <1>1, UartInvariant, PTL

(* The buffer that the program fills and the interrupt drains is a FIFO    *)
(* that drops its oldest element when full.                                *)
THEOREM SharedBufferIsFifo == UartSpec => ImplementsFifo
<1>1. UartInit => F!FifoInit
  BY RBInitInv DEF UartInit, F!FifoInit
<1>2. UartInv /\ [UartNext]_uartVars => [F!FifoNext]_Contents
  <2> SUFFICES ASSUME UartInv, [UartNext]_uartVars
               PROVE  [F!FifoNext]_Contents
    OBVIOUS
  <2>1. CASE Put
    BY <2>1, PutInv, PutIsFifoPut DEF UartInv, F!FifoNext
  <2>2. CASE IsrGet
    BY <2>2, IsrGetInv, GetIsFifoGet DEF UartInv, F!FifoNext
  <2>3. CASE ~Put /\ ~IsrGet
    <3>1. UNCHANGED rbVars
      BY <2>3
      DEF UartNext, Main, isr_uart_tx, _putchar, uartVars, TxbufToShift, ShiftedOut, IsrClear,
          IsrStart, uart_init, Putchar, PollNotFull, DisableInterrupt, uart_tx_start,
          EnableInterrupt, uart_init_assert, uart_trace_assert, ReportChar, AwaitFlag
    <3>2. QED
      BY <3>1, UnchangedContents
  <2>4. QED
    BY <2>1, <2>2, <2>3
<1>3. QED
  BY <1>1, <1>2, UartInvariant, PTL DEF UartSpec, ImplementsFifo, F!FifoSpec

-----------------------------------------------------------------------------
(* IrPort2 *)

(* A range sensor that is quiet while there are more commands than         *)
(* QuietAbove leaves room for one more command during a get.               *)
QuietInTime == QuietAbove + 2 <= buffer_size

(* Where the oldest command of the queue is: a get has taken it off the    *)
(* queue before its tail_idx has gone on, which has its two statements.    *)
Wrapped(idx) == IF idx >= buffer_size THEN idx - buffer_size ELSE idx
Oldest == Wrapped(IF get_pc = "increment" THEN tail_idx + 1 ELSE tail_idx)

GetPcs == {"idle", "check", "read", "increment", "wrap", "clear_full", "enable"}

TailInv ==
    /\ buffer \in [Slots -> Elements] /\ head_idx \in Slots
    /\ get_pc \in GetPcs
    /\ tail_idx \in 0 .. buffer_size
    /\ tail_idx = buffer_size => get_pc = "wrap"
    /\ get_pc = "read" => queue # << >>

QueueInv ==
    /\ queue \in Seq(Elements) /\ Len(queue) <= buffer_size
    /\ head_idx = Wrapped(Oldest + Len(queue))
    /\ \A i \in 0 .. Len(queue) - 1 : buffer[Wrapped(Oldest + i)] = queue[i + 1]

(* A get from a full buffer leaves it marked as full until it is over, and *)
(* so does a command that comes before its tail_idx has gone on; but then  *)
(* there are too many commands for another interruption of that get.       *)
FullInv ==
    /\ get_pc \in {"idle", "check", "read", "enable"} => (full <=> Len(queue) = buffer_size)
    /\ get_pc \in {"increment", "wrap", "clear_full"} => Len(queue) < buffer_size
    /\ get_pc = "increment" => (full <=> Len(queue) = buffer_size - 1)
    /\ get_pc \in {"wrap", "clear_full"} /\ full => Len(queue) = buffer_size - 1

PortInv ==
    /\ ir_ie <=> get_pc = "idle"
    /\ front_ifg => Len(queue) <= QuietAbove
    /\ ir_ifg => arriving \in Data

Port2Inv == TailInv /\ QueueInv /\ FullInv /\ PortInv

LEMMA Port2Bounds ==
    ASSUME QuietInTime
    PROVE  /\ buffer_size \in Nat /\ buffer_size >= 2
           /\ QuietAbove \in Nat /\ QuietAbove <= buffer_size - 2
BY SizeIsNat, QuietAssumption DEF QuietInTime

LEMMA Port2InitInv == QuietInTime /\ Port2Init => Port2Inv
<1> SUFFICES ASSUME QuietInTime, Port2Init
             PROVE  Port2Inv
  OBVIOUS
<1>1. /\ buffer = [i \in Slots |-> Zero] /\ head_idx = 0 /\ tail_idx = 0 /\ ~full
      /\ ~ir_ifg /\ ir_ie /\ ~front_ifg /\ get_pc = "idle" /\ queue = << >>
  BY DEF Port2Init, RBInit
<1>2. queue \in Seq(Elements) /\ Len(queue) = 0
  BY <1>1, EmptySeq
<1>3. TailInv
  BY <1>1, Port2Bounds DEF TailInv, Slots, Elements, GetPcs
<1>4. QueueInv
  BY <1>1, <1>2, Port2Bounds DEF QueueInv, Oldest, Wrapped
<1>5. FullInv
  BY <1>1, <1>2, Port2Bounds DEF FullInv
<1>6. PortInv
  BY <1>1, <1>2, Port2Bounds DEF PortInv
<1>7. QED
  BY <1>3, <1>4, <1>5, <1>6 DEF Port2Inv

(* Steps that leave the buffer and the queue alone. *)
LEMMA QueueUntouched ==
    ASSUME QueueInv, UNCHANGED <<rbVars, queue>>, Oldest' = Oldest
    PROVE  QueueInv'
BY DEF QueueInv, rbVars, Wrapped

(* Between two gets, and before the tail of one, the queue starts at the tail. *)
LEMMA OldestIsTail ==
    ASSUME QuietInTime, TailInv, get_pc \notin {"increment", "wrap"}
    PROVE  Oldest = tail_idx /\ tail_idx \in Slots
BY Port2Bounds DEF TailInv, Oldest, Wrapped, Slots

(* A command that comes when there is room for it is the newest of the     *)
(* queue, wherever a get is.                                               *)
LEMMA PutWithRoom ==
    ASSUME QuietInTime, TailInv, QueueInv, FullInv, NEW c \in Data, PutCmd(c), get_pc' = get_pc,
           Len(queue) < buffer_size, get_pc # "idle" => Len(queue) <= QuietAbove
    PROVE  TailInv' /\ QueueInv' /\ FullInv'
<1> DEFINE n == Len(queue)
<1> USE Port2Bounds DEF Slots
<1>1. /\ n \in Nat /\ n < buffer_size /\ queue \in Seq(Elements)
      /\ get_pc # "idle" => n <= buffer_size - 2
  BY LenProperties DEF QueueInv
<1>2. ~full
  BY <1>1 DEF FullInv, TailInv, GetPcs
<1>3. /\ buffer' = [buffer EXCEPT ![head_idx] = c] /\ tail_idx' = tail_idx
      /\ head_idx' = Incremented(head_idx)
      /\ full' <=> head_idx' = tail_idx'
      /\ queue' = Append(queue, c)
  <2>1. ring_buffer_put(c)
    BY DEF PutCmd
  <2>2. /\ buffer' = [buffer EXCEPT ![head_idx] = c] /\ tail_idx' = tail_idx
        /\ head_idx' = Incremented(head_idx)
        /\ full' <=> head_idx' = tail_idx'
    BY <1>2, <2>1 DEF ring_buffer_put, TailAfterPut
  <2>3. Len(queue) # buffer_size
    BY <1>1
  <2>4. queue' = Append(queue, c)
    BY <2>3 DEF PutCmd
  <2>5. QED
    BY <2>2, <2>4
<1>4. /\ queue' \in Seq(Elements) /\ Len(queue') = n + 1 /\ queue' # << >>
      /\ \A i \in 1 .. n : queue'[i] = queue[i]
      /\ queue'[n + 1] = c
  <2>1. c \in Elements
    BY DEF Elements
  <2>2. QED
    BY <1>1, <1>3, <2>1, AppendProperties
<1>5. PICK m \in Nat : m = n
  BY <1>1
<1>6. PICK o \in 0 .. buffer_size - 1 : o = Oldest /\ Oldest' = o
  <2>1. Oldest \in 0 .. buffer_size - 1
    BY DEF TailInv, Oldest, Wrapped
  <2>2. Oldest' = Oldest
    BY <1>3 DEF Oldest, Wrapped
  <2>3. QED
    BY <2>1, <2>2
<1>7. head_idx = Wrapped(o + m) /\ m < buffer_size /\ Len(queue') = m + 1
  BY <1>1, <1>4, <1>5, <1>6 DEF QueueInv
<1> HIDE DEF n
<1>8. head_idx' = Wrapped(o + (m + 1))
  <2>1. head_idx = Wrapped(o + m) /\ head_idx' = Incremented(head_idx) /\ m < buffer_size
    BY <1>3, <1>7
  <2>2. buffer_size \in Nat
    OBVIOUS
  <2>3. QED
    BY <2>1, <2>2 DEF Incremented, Wrapped
<1>9. TailInv'
  <2>1. head_idx' \in Slots
    BY <1>7, <1>8 DEF Wrapped
  <2>2. buffer' \in [Slots -> Elements]
    BY <1>3 DEF TailInv, Elements
  <2>3. QED
    BY <1>3, <1>4, <2>1, <2>2 DEF TailInv
<1>10. ASSUME NEW i \in 0 .. m
       PROVE  buffer'[Wrapped(o + i)] = queue'[i + 1]
  <2>1. CASE i = m
    <3>1. buffer'[head_idx] = c
      BY <1>3 DEF TailInv
    <3>2. QED
      BY <1>4, <1>5, <1>7, <2>1, <3>1 DEF n
  <2>2. CASE i # m
    <3>1. i \in 0 .. m - 1 /\ i + 1 \in 1 .. m
      BY <2>2
    <3>2. Wrapped(o + i) \in Slots /\ Wrapped(o + i) # head_idx
      BY <1>7, <3>1 DEF Wrapped
    <3>3. buffer'[Wrapped(o + i)] = buffer[Wrapped(o + i)]
      BY <1>3, <3>2 DEF TailInv
    <3>4. buffer[Wrapped(o + i)] = queue[i + 1]
      BY <1>5, <1>6, <3>1 DEF QueueInv, n
    <3>5. queue'[i + 1] = queue[i + 1]
      BY <1>4, <1>5, <3>1 DEF n
    <3>6. QED
      BY <3>3, <3>4, <3>5
  <2>3. QED
    BY <2>1, <2>2
<1>11. QueueInv'
  <2>1. Len(queue') <= buffer_size /\ Len(queue') - 1 = m
    BY <1>7
  <2>2. \A i \in 0 .. Len(queue') - 1 : buffer'[Wrapped(Oldest' + i)] = queue'[i + 1]
    BY <1>6, <1>10, <2>1
  <2>3. head_idx' = Wrapped(Oldest' + Len(queue'))
    BY <1>6, <1>7, <1>8
  <2>4. QED
    BY <1>4, <2>1, <2>2, <2>3 DEF QueueInv, Wrapped
<1>12. FullInv'
  <2>1. o = Wrapped(IF get_pc = "increment" THEN tail_idx + 1 ELSE tail_idx)
    BY <1>6 DEF Oldest
  <2>2. CASE get_pc \in {"idle", "check", "read", "enable"}
    <3>1. o = tail_idx
      BY <1>6, <2>2, OldestIsTail
    <3>2. full' <=> m + 1 = buffer_size
      BY <1>3, <1>7, <1>8, <3>1 DEF Wrapped
    <3>3. QED
      BY <1>7, <2>2, <3>2 DEF FullInv
  <2>3. CASE get_pc = "increment"
    <3>1. m <= buffer_size - 2 /\ tail_idx \in 0 .. buffer_size - 1
      BY <1>1, <1>5, <2>3 DEF TailInv
    <3>2. full' <=> m + 1 = buffer_size - 1
      BY <1>3, <1>8, <2>1, <2>3, <3>1 DEF Wrapped
    <3>3. QED
      BY <1>7, <2>3, <3>1, <3>2 DEF FullInv
  <2>4. CASE get_pc \in {"wrap", "clear_full"}
    <3>1. m <= buffer_size - 2 /\ tail_idx \in 0 .. buffer_size
      BY <1>1, <1>5, <2>4 DEF TailInv
    <3>2. ~full'
      BY <1>3, <1>8, <2>1, <2>4, <3>1 DEF Wrapped
    <3>3. QED
      BY <1>7, <2>4, <3>1, <3>2 DEF FullInv
  <2>5. QED
    BY <2>2, <2>3, <2>4 DEF TailInv, GetPcs
<1>13. QED
  BY <1>9, <1>11, <1>12

(* A command that comes between two gets when there is no room takes the   *)
(* place of the oldest one.                                                *)
LEMMA PutWithoutRoom ==
    ASSUME QuietInTime, TailInv, QueueInv, FullInv, NEW c \in Data, PutCmd(c), get_pc' = get_pc,
           Len(queue) = buffer_size, get_pc = "idle"
    PROVE  TailInv' /\ QueueInv' /\ FullInv'
<1> DEFINE n == Len(queue)
<1> USE Port2Bounds DEF Slots
<1>1. n = buffer_size /\ queue \in Seq(Elements) /\ queue # << >>
  BY EmptySeq DEF QueueInv
<1>2. full /\ Oldest = tail_idx /\ tail_idx \in 0 .. buffer_size - 1
  BY OldestIsTail DEF FullInv
<1>3. head_idx = tail_idx
  BY <1>1, <1>2 DEF QueueInv, Wrapped
<1>4. /\ buffer' = [buffer EXCEPT ![tail_idx] = c]
      /\ tail_idx' = Incremented(tail_idx) /\ head_idx' = Incremented(tail_idx)
      /\ full'
      /\ queue' = Append(Tail(queue), c)
  BY <1>1, <1>2, <1>3 DEF PutCmd, ring_buffer_put, TailAfterPut
<1>5. /\ Tail(queue) \in Seq(Elements) /\ Len(Tail(queue)) = buffer_size - 1
      /\ \A i \in 1 .. buffer_size - 1 : Tail(queue)[i] = queue[i + 1]
  BY <1>1, HeadTailProperties
<1>6. /\ queue' \in Seq(Elements) /\ Len(queue') = buffer_size
      /\ \A i \in 1 .. buffer_size - 1 : queue'[i] = queue[i + 1]
      /\ queue'[buffer_size] = c
  <2>1. c \in Elements
    BY DEF Elements
  <2> DEFINE t == Tail(queue)
  <2>2. t \in Seq(Elements) /\ Len(t) = buffer_size - 1 /\ queue' = Append(t, c)
    BY <1>4, <1>5
  <2> HIDE DEF t
  <2>3. /\ Append(t, c) \in Seq(Elements) /\ Len(Append(t, c)) = Len(t) + 1
        /\ \A i \in 1 .. Len(t) : Append(t, c)[i] = t[i]
        /\ Append(t, c)[Len(t) + 1] = c
    BY <2>1, <2>2, AppendProperties
  <2>4. /\ queue' \in Seq(Elements) /\ Len(queue') = buffer_size
        /\ \A i \in 1 .. buffer_size - 1 : queue'[i] = t[i]
        /\ queue'[buffer_size] = c
    BY <2>2, <2>3
  <2>5. QED
    BY <1>5, <2>4 DEF t
<1>7. PICK o \in 0 .. buffer_size - 1 : o = tail_idx
  BY <1>2
<1>8. Oldest' = Incremented(o) /\ tail_idx' = Incremented(o) /\ head_idx' = Incremented(o)
  BY <1>4, <1>7 DEF Oldest, Incremented, Wrapped
<1>9. TailInv'
  <2>1. buffer' \in [Slots -> Elements]
    BY <1>4 DEF TailInv, Elements
  <2>2. tail_idx' \in 0 .. buffer_size - 1 /\ head_idx' \in Slots
    BY <1>8 DEF Incremented
  <2>3. QED
    BY <2>1, <2>2 DEF TailInv, GetPcs
<1>10. ASSUME NEW i \in 0 .. buffer_size - 1
       PROVE  buffer'[Wrapped(Incremented(o) + i)] = queue'[i + 1]
  <2>1. CASE i = buffer_size - 1
    <3>1. Wrapped(Incremented(o) + i) = o
      BY <2>1 DEF Wrapped, Incremented
    <3>2. buffer'[o] = c
      BY <1>4, <1>7 DEF TailInv
    <3>3. QED
      BY <1>6, <2>1, <3>1, <3>2
  <2>2. CASE i # buffer_size - 1
    <3>1. i + 1 \in 1 .. buffer_size - 1 /\ i + 1 \in 0 .. n - 1
      BY <1>1, <2>2
    <3>2. PICK j \in 1 .. buffer_size - 1 : j = i + 1
      BY <3>1
    <3>3. Wrapped(Incremented(o) + i) = Wrapped(o + j)
      BY <3>2 DEF Wrapped, Incremented
    <3>4. Wrapped(o + j) \in Slots /\ Wrapped(o + j) # o
      BY DEF Wrapped
    <3>5. buffer'[Wrapped(o + j)] = buffer[Wrapped(o + j)]
      BY <1>4, <1>7, <3>4 DEF TailInv
    <3>6. buffer[Wrapped(o + j)] = queue[j + 1]
      BY <1>2, <1>7, <3>1, <3>2 DEF QueueInv
    <3>7. queue'[j] = queue[j + 1]
      BY <1>6
    <3>8. QED
      BY <3>2, <3>3, <3>5, <3>6, <3>7
  <2>3. QED
    BY <2>1, <2>2
<1>11. QueueInv'
  <2>1. head_idx' = Wrapped(Oldest' + Len(queue'))
    BY <1>6, <1>8 DEF Wrapped, Incremented
  <2>2. \A i \in 0 .. Len(queue') - 1 : buffer'[Wrapped(Oldest' + i)] = queue'[i + 1]
    BY <1>6, <1>8, <1>10
  <2>3. QED
    BY <1>6, <2>1, <2>2 DEF QueueInv, Wrapped
<1>12. FullInv'
  BY <1>4, <1>6 DEF FullInv
<1>13. QED
  BY <1>9, <1>11, <1>12

(* The interrupt comes into a get only for the range sensor, whose flag    *)
(* says that there is room.                                                *)
LEMMA PortIsrInv == QuietInTime /\ Port2Inv /\ isr_port_2 => Port2Inv'
<1> SUFFICES ASSUME QuietInTime, Port2Inv, isr_port_2
             PROVE  Port2Inv'
  OBVIOUS
<1>1. /\ front_ifg \/ (ir_ifg /\ ir_ie)
      /\ ~front_ifg' /\ ~ir_ifg'
      /\ ir_ie' = ir_ie /\ get_pc' = get_pc
  BY DEF isr_port_2
<1>2. TailInv /\ QueueInv /\ FullInv /\ PortInv
  BY DEF Port2Inv
<1>3. TailInv' /\ QueueInv' /\ FullInv'
  <2>1. CASE ir_ifg
    <3>1. PICK c \in Data : PutCmd(c)
      BY <1>2, <2>1 DEF isr_port_2, PortInv
    <3>2. get_pc # "idle" => Len(queue) <= QuietAbove
      BY <1>1, <1>2 DEF PortInv
    <3>3. CASE Len(queue) < buffer_size
      BY <1>1, <1>2, <3>1, <3>2, <3>3, PutWithRoom
    <3>4. CASE Len(queue) = buffer_size
      <4>1. get_pc = "idle"
        BY <3>2, <3>4, Port2Bounds
      <4>2. QED
        BY <1>1, <1>2, <3>1, <3>4, <4>1, PutWithoutRoom
    <3>5. Len(queue) < buffer_size \/ Len(queue) = buffer_size
      BY <1>2, Port2Bounds, LenProperties DEF QueueInv
    <3>6. QED
      BY <3>3, <3>4, <3>5
  <2>2. CASE ~ir_ifg
    <3>1. UNCHANGED <<rbVars, queue>>
      BY <2>2 DEF isr_port_2
    <3>2. /\ buffer' = buffer /\ head_idx' = head_idx /\ tail_idx' = tail_idx
          /\ full' = full /\ queue' = queue
      BY <3>1 DEF rbVars
    <3>3. Oldest' = Oldest
      BY <1>1, <3>2 DEF Oldest, Wrapped
    <3>4. QueueInv'
      BY <1>2, <3>1, <3>3, QueueUntouched
    <3>5. TailInv' /\ FullInv'
      BY <1>1, <1>2, <3>2 DEF TailInv, FullInv
    <3>6. QED
      BY <3>4, <3>5
  <2>3. QED
    BY <2>1, <2>2
<1>4. PortInv'
  BY <1>1, <1>2 DEF PortInv
<1>5. QED
  BY <1>3, <1>4 DEF Port2Inv

(* The element is copied before anything else of a get: what is left of    *)
(* the queue starts in the slot after the tail.                            *)
LEMMA ReadTailInv == QuietInTime /\ Port2Inv /\ ReadTail => Port2Inv'
<1> SUFFICES ASSUME QuietInTime, Port2Inv, ReadTail
             PROVE  Port2Inv'
  OBVIOUS
<1> USE Port2Bounds DEF Slots
<1>1. /\ get_pc = "read" /\ get_pc' = "increment" /\ queue' = Tail(queue)
      /\ buffer' = buffer /\ head_idx' = head_idx /\ tail_idx' = tail_idx /\ full' = full
      /\ UNCHANGED <<arriving, ir_ifg, ir_ie, front_ifg>>
  BY DEF ReadTail, GetGoto, rbVars, port
<1>2. TailInv /\ QueueInv /\ FullInv /\ PortInv
  BY DEF Port2Inv
<1>3. PICK n \in Nat : n = Len(queue) /\ n > 0 /\ n <= buffer_size
  <2>1. queue \in Seq(Elements) /\ queue # << >> /\ Len(queue) <= buffer_size
    BY <1>1, <1>2 DEF TailInv, QueueInv
  <2>2. Len(queue) \in Nat /\ Len(queue) # 0
    BY <2>1, LenProperties, EmptySeq
  <2>3. QED
    BY <2>1, <2>2
<1>4. /\ queue' \in Seq(Elements) /\ Len(queue') = n - 1
      /\ \A i \in 1 .. n - 1 : queue'[i] = queue[i + 1]
  <2>1. queue \in Seq(Elements) /\ queue # << >>
    BY <1>1, <1>2 DEF TailInv, QueueInv
  <2>2. /\ Tail(queue) \in Seq(Elements) /\ Len(Tail(queue)) = Len(queue) - 1
        /\ \A i \in 1 .. Len(Tail(queue)) : Tail(queue)[i] = queue[i + 1]
    BY <2>1, HeadTailProperties
  <2>3. QED
    BY <1>1, <1>3, <2>2
<1>5. PICK o \in 0 .. buffer_size - 1 : o = tail_idx /\ o = Oldest
  BY <1>1, <1>2, OldestIsTail
<1>6. Oldest' = Wrapped(o + 1)
  BY <1>1, <1>5 DEF Oldest, Wrapped
<1>7. TailInv'
  BY <1>1, <1>2 DEF TailInv, GetPcs
<1>8. QueueInv'
  <2>1. head_idx' = Wrapped(Oldest' + Len(queue'))
    <3>1. head_idx = Wrapped(o + n)
      BY <1>2, <1>3, <1>5 DEF QueueInv
    <3>2. Wrapped(Wrapped(o + 1) + (n - 1)) = Wrapped(o + n)
      BY <1>3 DEF Wrapped
    <3>3. QED
      BY <1>1, <1>4, <1>6, <3>1, <3>2
  <2>2. ASSUME NEW i \in 0 .. n - 2
        PROVE  buffer'[Wrapped(Oldest' + i)] = queue'[i + 1]
    <3>1. i + 1 \in 1 .. n - 1 /\ i + 1 \in 0 .. n - 1
      BY <1>3
    <3>2. PICK j \in 1 .. n - 1 : j = i + 1
      BY <3>1
    <3>3. Wrapped(Oldest' + i) = Wrapped(o + j)
      BY <1>3, <1>6, <3>2 DEF Wrapped
    <3>4. buffer[Wrapped(o + j)] = queue[j + 1]
      BY <1>2, <1>3, <1>5, <3>1, <3>2 DEF QueueInv
    <3>5. QED
      BY <1>1, <1>4, <3>2, <3>3, <3>4
  <2>3. Len(queue') - 1 = n - 2 /\ Len(queue') <= buffer_size
    BY <1>3, <1>4
  <2>4. QED
    BY <1>4, <2>1, <2>2, <2>3 DEF QueueInv, Wrapped
<1>9. FullInv'
  <2>1. full <=> n = buffer_size
    BY <1>1, <1>2, <1>3 DEF FullInv
  <2>2. Len(queue') < buffer_size /\ (full' <=> Len(queue') = buffer_size - 1)
    BY <1>1, <1>3, <1>4, <2>1
  <2>3. QED
    BY <1>1, <2>2 DEF FullInv
<1>10. PortInv'
  <2>1. front_ifg' => Len(queue') <= QuietAbove
    BY <1>1, <1>2, <1>3, <1>4 DEF PortInv
  <2>2. QED
    BY <1>1, <1>2, <2>1 DEF PortInv
<1>11. QED
  BY <1>7, <1>8, <1>9, <1>10 DEF Port2Inv

(* The statements that follow move the tail to where the queue starts.     *)
LEMMA MoveTailInv ==
    QuietInTime /\ Port2Inv /\ (IncrementTail \/ WrapTail \/ ClearFull) => Port2Inv'
<1> SUFFICES ASSUME QuietInTime, Port2Inv, IncrementTail \/ WrapTail \/ ClearFull
             PROVE  Port2Inv'
  OBVIOUS
<1> USE Port2Bounds
<1>1. TailInv /\ QueueInv /\ FullInv /\ PortInv
  BY DEF Port2Inv
<1>2. /\ buffer' = buffer /\ head_idx' = head_idx /\ queue' = queue
      /\ UNCHANGED <<arriving, ir_ifg, ir_ie, front_ifg>>
      /\ get_pc # "idle" /\ get_pc' # "idle"
  BY DEF IncrementTail, WrapTail, ClearFull, GetGoto, port
<1>3. TailInv' /\ FullInv' /\ Oldest' = Oldest
  <2>1. CASE IncrementTail
    <3>1. /\ get_pc = "increment" /\ get_pc' = "wrap"
          /\ tail_idx' = tail_idx + 1 /\ full' = full
      BY <2>1 DEF IncrementTail, GetGoto
    <3>2. TailInv' /\ Oldest' = Oldest
      BY <1>1, <1>2, <3>1 DEF TailInv, Oldest, Wrapped, GetPcs
    <3>3. FullInv'
      BY <1>1, <1>2, <3>1 DEF FullInv
    <3>4. QED
      BY <3>2, <3>3
  <2>2. CASE WrapTail
    <3>1. /\ get_pc = "wrap" /\ get_pc' = "clear_full" /\ full' = full
          /\ tail_idx' = IF tail_idx = buffer_size THEN 0 ELSE tail_idx
      BY <2>2 DEF WrapTail, GetGoto
    <3>2. TailInv' /\ Oldest' = Oldest
      BY <1>1, <1>2, <3>1 DEF TailInv, Oldest, Wrapped, GetPcs
    <3>3. FullInv'
      BY <1>1, <1>2, <3>1 DEF FullInv
    <3>4. QED
      BY <3>2, <3>3
  <2>3. CASE ClearFull
    <3>1. /\ get_pc = "clear_full" /\ get_pc' = "enable"
          /\ tail_idx' = tail_idx /\ ~full'
      BY <2>3 DEF ClearFull, GetGoto
    <3>2. TailInv' /\ Oldest' = Oldest
      BY <1>1, <1>2, <3>1 DEF TailInv, Oldest, Wrapped, GetPcs
    <3>3. Len(queue) # buffer_size
      <4>1. Len(queue) < buffer_size /\ Len(queue) \in Nat
        BY <1>1, <3>1, LenProperties DEF FullInv, QueueInv
      <4>2. QED
        BY <4>1
    <3>4. FullInv'
      BY <1>2, <3>1, <3>3 DEF FullInv
    <3>5. QED
      BY <3>2, <3>4
  <2>4. QED
    BY <2>1, <2>2, <2>3
<1>4. QueueInv'
  BY <1>1, <1>2, <1>3 DEF QueueInv, Wrapped
<1>5. PortInv'
  BY <1>1, <1>2 DEF PortInv
<1>6. QED
  BY <1>3, <1>4, <1>5 DEF Port2Inv

(* While no statement of a get is between the copy and its end, the buffer *)
(* holds the queue.                                                        *)
LEMMA QueueIsContents ==
    ASSUME QuietInTime, Port2Inv, get_pc \in {"idle", "check", "read", "enable"}
    PROVE  RBInv /\ Contents = queue
<1> USE Port2Bounds
<1>1. TailInv /\ QueueInv /\ FullInv
  BY DEF Port2Inv
<1>2. Oldest = tail_idx /\ tail_idx \in Slots /\ head_idx \in Slots
  BY <1>1, OldestIsTail DEF TailInv
<1>3. PICK n \in Nat : n = Len(queue) /\ n <= buffer_size /\ queue \in Seq(Elements)
  BY <1>1, LenProperties DEF QueueInv
<1>4. head_idx = Wrapped(tail_idx + n) /\ (full <=> n = buffer_size)
  BY <1>1, <1>2, <1>3 DEF QueueInv, FullInv
<1>5. full => head_idx = tail_idx
  BY <1>2, <1>4 DEF Wrapped, Slots
<1>6. RBInv
  BY <1>1, <1>2, <1>5 DEF RBInv, TailInv
<1>7. Occupied = n
  BY <1>2, <1>3, <1>4 DEF Occupied, Wrapped, Slots
<1>8. /\ Contents \in Seq(Elements) /\ Len(Contents) = n
      /\ \A i \in 0 .. n - 1 : Contents[i + 1] = buffer[SlotAt(i)]
  BY <1>6, <1>7, ContentsIsSeq DEF ContentsInv
<1>9. ASSUME NEW i \in 0 .. n - 1
      PROVE  Contents[i + 1] = queue[i + 1]
  <2>1. SlotAt(i) = Wrapped(tail_idx + i)
    BY <1>2, <1>3 DEF SlotAt, Wrapped, Slots
  <2>2. buffer[Wrapped(tail_idx + i)] = queue[i + 1]
    BY <1>1, <1>2, <1>3 DEF QueueInv
  <2>3. QED
    BY <1>8, <2>1, <2>2
<1>10. Contents = queue
  <2>1. Len(Contents) = Len(queue) /\ Len(Contents) - 1 = n - 1
    BY <1>3, <1>8
  <2>2. QED
    BY <1>3, <1>8, <1>9, <2>1, SameElements
<1>11. QED
  BY <1>6, <1>10

(* The steps that touch neither the buffer nor the queue. *)
LEMMA AroundBufferInv ==
    QuietInTime /\ Port2Inv /\ UNCHANGED <<rbVars, queue>> /\
        (\/ \E c \in Data : Pulse(c)
         \/ MeasurementDone \/ DisablePin \/ CheckEmpty \/ EnablePin
         \/ UNCHANGED port2Vars)
    => Port2Inv'
<1> SUFFICES ASSUME QuietInTime, Port2Inv, UNCHANGED <<rbVars, queue>>,
                    \/ \E c \in Data : Pulse(c)
                    \/ MeasurementDone \/ DisablePin \/ CheckEmpty \/ EnablePin
                    \/ UNCHANGED port2Vars
             PROVE  Port2Inv'
  OBVIOUS
<1>1. TailInv /\ QueueInv /\ FullInv /\ PortInv
  BY DEF Port2Inv
<1>2. /\ buffer' = buffer /\ head_idx' = head_idx /\ tail_idx' = tail_idx
      /\ full' = full /\ queue' = queue
  BY DEF rbVars
<1>3. \/ get_pc' = get_pc
      \/ get_pc = "idle" /\ get_pc' = "check"
      \/ get_pc = "check" /\ get_pc' = IF ring_buffer_empty THEN "enable" ELSE "read"
      \/ get_pc = "enable" /\ get_pc' = "idle"
  BY DEF Pulse, MeasurementDone, DisablePin, CheckEmpty, EnablePin, GetGoto, port2Vars
<1>4. get_pc = "check" /\ ~ring_buffer_empty => queue # << >>
  BY QueueIsContents, EmptyContents
<1>5. TailInv'
  BY <1>1, <1>2, <1>3, <1>4, Port2Bounds DEF TailInv, GetPcs
<1>6. Oldest' = Oldest
  BY <1>2, <1>3 DEF Oldest, Wrapped
<1>7. QueueInv'
  BY <1>1, <1>6, QueueUntouched
<1>8. FullInv'
  BY <1>1, <1>2, <1>3 DEF FullInv
<1>9. PortInv'
  <2>1. ASSUME NEW c \in Data, Pulse(c)
        PROVE  PortInv'
    BY <1>1, <2>1 DEF PortInv, Pulse
  <2>2. CASE MeasurementDone
    BY <1>1, <2>2 DEF PortInv, MeasurementDone
  <2>3. CASE DisablePin
    BY <1>1, <2>3 DEF PortInv, DisablePin, GetGoto
  <2>4. CASE CheckEmpty
    <3>1. /\ get_pc = "check" /\ get_pc' # "idle" /\ queue' = queue
          /\ UNCHANGED <<arriving, ir_ifg, ir_ie, front_ifg>>
      BY <2>4 DEF CheckEmpty, port
    <3>2. QED
      BY <1>1, <3>1 DEF PortInv
  <2>5. CASE EnablePin
    BY <1>1, <2>5 DEF PortInv, EnablePin, GetGoto
  <2>6. CASE UNCHANGED port2Vars
    BY <1>1, <2>6 DEF PortInv, port2Vars, port
  <2>7. QED
    BY <2>1, <2>2, <2>3, <2>4, <2>5, <2>6
<1>10. QED
  BY <1>5, <1>7, <1>8, <1>9 DEF Port2Inv

LEMMA Port2StepInv == QuietInTime /\ Port2Inv /\ [Port2Next]_port2Vars => Port2Inv'
<1> SUFFICES ASSUME QuietInTime, Port2Inv, [Port2Next]_port2Vars
             PROVE  Port2Inv'
  OBVIOUS
<1>1. CASE isr_port_2
  BY <1>1, PortIsrInv
<1>2. CASE ReadTail
  BY <1>2, ReadTailInv
<1>3. CASE IncrementTail \/ WrapTail \/ ClearFull
  BY <1>3, MoveTailInv
<1>4. CASE \E c \in Data : Pulse(c)
  BY <1>4, AroundBufferInv DEF Pulse
<1>5. CASE MeasurementDone
  BY <1>5, AroundBufferInv DEF MeasurementDone
<1>6. CASE DisablePin
  BY <1>6, AroundBufferInv DEF DisablePin
<1>7. CASE CheckEmpty
  BY <1>7, AroundBufferInv DEF CheckEmpty
<1>8. CASE EnablePin
  BY <1>8, AroundBufferInv DEF EnablePin
<1>9. CASE UNCHANGED port2Vars
  BY <1>9, AroundBufferInv DEF port2Vars
<1>10. QED
  BY <1>1, <1>2, <1>3, <1>4, <1>5, <1>6, <1>7, <1>8, <1>9 DEF Port2Next, ir_remote_get_cmd

(* ir_remote_get_cmd returns the oldest command that was put and not got,  *)
(* and leaves the others in the buffer in their order, wherever isr_port_2 *)
(* interrupts it, if the range sensor is quiet in time.                    *)
THEOREM CommandsAreKept ==
    ASSUME QuietInTime
    PROVE  Port2Spec => []HoldsQueue
<1>1. Port2Init => Port2Inv
  BY Port2InitInv
<1>2. Port2Inv /\ [Port2Next]_port2Vars => Port2Inv'
  BY Port2StepInv
<1>3. Port2Inv => HoldsQueue
  <2> SUFFICES ASSUME Port2Inv
               PROVE  HoldsQueue
    OBVIOUS
  <2>1. get_pc = "idle" => Contents = queue
    BY QueueIsContents
  <2>2. ASSUME get_pc = "read"
        PROVE  queue # << >> /\ ring_buffer_peek_tail = Head(queue)
    <3>1. RBInv /\ Contents = queue
      BY <2>2, QueueIsContents
    <3>2. queue # << >>
      BY <2>2 DEF Port2Inv, TailInv
    <3>3. QED
      BY <3>1, <3>2, EmptyContents
  <2>3. QED
    BY <2>1, <2>2 DEF HoldsQueue
<1>4. QED
  BY <1>1, <1>2, <1>3, PTL DEF Port2Spec

-----------------------------------------------------------------------------
(* IrRemote *)

(* An interrupt is served within one unit, and between two presses there is *)
(* more time than the decoder allows a repetition.                         *)
ServedInTime == LATENCY <= 1 /\ \A gap \in PressGaps : gap > Ms(110) + 1

(* Units since the last pulse, as the decoder's timer counts them: a tick  *)
(* that came just before the pulse is counted as well.                     *)
Elapsed == Ms(timer_ms) + (Ms(1) - tick_in) + (IF CCIFG THEN Ms(1) ELSE 0)

TimerInv ==
    /\ CCIFG \in BOOLEAN /\ timer_running \in BOOLEAN
    /\ timer_ms \in Nat /\ timer_ms <= TIMER_TIMEOUT_ms
    /\ tick_in \in Nat /\ tick_in <= Ms(1)
    /\ CCIFG => timer_running /\ ccifg_age \in 0 .. 1 /\ tick_in + ccifg_age = Ms(1)
    /\ timer_running <=> pulse_count # 0
    /\ ~timer_running => timer_ms = 0
    /\ pulse_count \in Nat /\ pulse_count < 65536
    /\ raw \in [0 .. 15 -> {0, 1}]

RemoteInv ==
    /\ button \in Cmds /\ repetition \in 0 .. MaxHeld /\ received \subseteq 1 .. 34
    /\ whole \in 0 .. repetition
    /\ edge \in 1 .. Edges + 1 /\ wait \in Nat
    /\ edge > Edges => wait <= 1
    /\ ifg \in BOOLEAN
    /\ ifg => /\ edge > 1 /\ edge - 1 \in received /\ ifg_age \in 0 .. 1
              /\ IF edge <= Edges THEN wait + ifg_age = GapAfter(edge - 1) ELSE wait = ifg_age

(* The edges of the frame that are past: served, if they were received. *)
Past == IF ifg THEN edge - 2 ELSE edge - 1
Fresh == \A e \in 1 .. Past : e \notin received
AllServed == \A e \in 1 .. Past : e \in received

(* The least time before a frame, and from its first edge to the next edge. *)
Pause == IF repetition = 0 THEN Ms(110) + 1 ELSE IF repetition = 1 THEN 782 ELSE 1682
SinceFirst == IF edge = 1 THEN 0
              ELSE IF repetition > 0 THEN 45
              ELSE IF edge = 35 THEN 657 ELSE 45 + 18 * edge

FreshInv ==
    Fresh => /\ out = NoCmd
             /\ timer_running =>
                    Elapsed + (IF edge <= Edges THEN wait ELSE 0) >= Pause + SinceFirst

(* All edges of the message so far, and of the repetitions since, have been *)
(* received. Then the count is that of the edges, and the timer has        *)
(* counted, up to the next edge, what there is between the two.            *)
InStep == /\ AllServed /\ repetition <= 32750
          /\ IF repetition = 0 THEN Past > 0 ELSE whole = repetition

Since == IF ifg THEN Elapsed - ifg_age ELSE IF edge <= Edges THEN Elapsed + wait ELSE Elapsed - wait

Gap == IF Past = Edges THEN 0 ELSE IF Past = 0 THEN Pause + 1 ELSE GapAfter(Past)

Sharp == IF repetition = 0 THEN Past >= 3 ELSE repetition = 1 /\ Past = 0

InStepInv ==
    InStep => /\ pulse_count = Past + (IF repetition = 0 THEN 0 ELSE 32 + 2 * repetition)
              /\ \/ Gap - 1 <= Since /\ Since <= Gap
                 \/ ~Sharp /\ Gap + 15 <= Since /\ Since <= Gap + 16

MessageInv ==
    repetition = 0 /\ ~Fresh =>
        /\ ~AllServed => pulse_count < Past
        /\ AllServed => \A n \in 1 .. Past - 3 :
                            Past - n <= 18 => raw[18 - (Past - n)] = MessageBit(button, n)
        /\ out = IF AllServed /\ Past = 34 THEN button ELSE NoCmd

RepetitionInv ==
    repetition > 0 =>
        /\ pulse_count >= 34 => whole > 0 /\ CmdOf(raw) = button
        /\ pulse_count < 34 /\ ~Fresh => pulse_count <= Past
        /\ out # NoCmd => whole > 0 /\ out = button
        /\ InStep => out = IF Past = 1 /\ repetition > 1 THEN button ELSE NoCmd

IrInv == TimerInv /\ RemoteInv /\ FreshInv /\ InStepInv /\ MessageInv /\ RepetitionInv

-----------------------------------------------------------------------------
LEMMA IrConstants ==
    ASSUME ServedInTime
    PROVE  /\ LATENCY \in Nat /\ LATENCY <= 1 /\ MaxHeld \in Nat
           /\ \A gap \in PressGaps : gap \in Nat /\ gap > 1761
BY IrNatAssumption DEF ServedInTime, Ms

LEMMA MessageBits ==
    ASSUME NEW c \in Cmds, NEW n \in 0 .. 31
    PROVE  MessageBit(c, n) \in {0, 1}
<1>1. n % 8 \in 0 .. 7
  OBVIOUS
<1>2. c[n % 8] \in {0, 1} /\ addr[n % 8] \in {0, 1}
  BY <1>1, IrBytesAssumption DEF Bytes
<1>3. QED
  BY <1>2 DEF MessageBit

LEMMA Gaps ==
    ASSUME RemoteInv, NEW e \in 1 .. Edges - 1
    PROVE  /\ repetition = 0 => /\ e \in 1 .. 33
                                /\ e = 1 => GapAfter(e) = 81
                                /\ e > 1 => GapAfter(e) \in {18, 36}
                                /\ e > 1 => (GapAfter(e) = 36 <=> MessageBit(button, e - 2) = 1)
           /\ repetition > 0 => e = 1 /\ GapAfter(e) = 45
           /\ GapAfter(e) \in 18 .. 81
<1>1. repetition \in Nat
  BY IrNatAssumption DEF RemoteInv
<1>2. CASE repetition = 0
  BY <1>2 DEF Edges, GapAfter
<1>3. CASE repetition > 0
  <2>1. e = 1
    BY <1>1, <1>3 DEF Edges
  <2>2. QED
    BY <1>1, <1>3, <2>1 DEF GapAfter
<1>4. QED
  BY <1>1, <1>2, <1>3

LEMMA IrInitInv == IrInit => IrInv
<1> SUFFICES ASSUME IrInit
             PROVE  IrInv
  OBVIOUS
<1>1. /\ button \in Cmds /\ repetition = 0 /\ received \in Receptions /\ edge = 1
      /\ wait = Ms(9) /\ tick_in = 0 /\ ~ifg /\ ~CCIFG /\ ~timer_running /\ timer_ms = 0
      /\ ifg \in BOOLEAN /\ CCIFG \in BOOLEAN /\ timer_running \in BOOLEAN
      /\ pulse_count = 0 /\ raw = ClearedRaw /\ out = NoCmd /\ whole = 0
  BY Zenon DEF IrInit
<1>2. Edges = 34 /\ Past = 0 /\ Fresh
  BY <1>1 DEF Edges, Past, Fresh
<1>3. TimerInv
  BY <1>1 DEF TimerInv, ClearedRaw, Ms, TIMER_TIMEOUT_ms
<1>4. RemoteInv
  BY <1>1, <1>2, IrNatAssumption, ReceptionsAssumption DEF RemoteInv, Ms
<1>5. QED
  BY <1>1, <1>2, <1>3, <1>4 DEF IrInv, FreshInv, InStepInv, InStep, MessageInv, RepetitionInv

-----------------------------------------------------------------------------
(* The remote's steps *)
LEMMA EdgeInv == ServedInTime /\ IrInv /\ Edge => IrInv'
<1> SUFFICES ASSUME ServedInTime, IrInv, Edge
             PROVE  IrInv'
  OBVIOUS
<1>1. TimerInv /\ RemoteInv /\ FreshInv /\ InStepInv /\ MessageInv /\ RepetitionInv
  BY DEF IrInv
<1>2. /\ wait = 0 /\ edge \in 1 .. Edges /\ edge' = edge + 1
      /\ wait' = IF edge < Edges THEN GapAfter(edge) ELSE 0
      /\ UNCHANGED <<button, repetition, received, CCIFG, ccifg_age, timer_running, timer_ms,
                     pulse_count, raw, tick_in, out, whole>>
      /\ repetition \in Nat /\ Edges \in {2, 34} /\ Edges' = Edges
      /\ Edges = 34 <=> repetition = 0
  <2>1. /\ wait = 0 /\ edge <= Edges /\ edge' = edge + 1
        /\ wait' = IF edge < Edges THEN GapAfter(edge) ELSE 0
        /\ UNCHANGED <<button, repetition, received, CCIFG, ccifg_age, timer_running, timer_ms,
                       pulse_count, raw, tick_in, out, whole>>
    BY Zenon DEF Edge, decoder
  <2>2. edge \in 1 .. Edges + 1 /\ repetition \in Nat
    BY <1>1, IrNatAssumption DEF RemoteInv
  <2>3. Edges \in {2, 34} /\ Edges' = Edges /\ (Edges = 34 <=> repetition = 0)
    BY <2>1 DEF Edges
  <2>4. QED
    BY <2>1, <2>2, <2>3
<1>3. ASSUME edge < Edges
      PROVE  /\ wait' \in 18 .. 81 /\ wait' = GapAfter(edge)
             /\ repetition = 0 /\ edge = 1 => wait' = 81
             /\ repetition > 0 => edge = 1 /\ wait' = 45
  <2>1. edge \in 1 .. Edges - 1 /\ wait' = GapAfter(edge)
    BY <1>2, <1>3
  <2>2. QED
    BY <1>1, <2>1, Gaps
<1>4. ~ifg
  <2>1. SUFFICES ASSUME ifg
                 PROVE  FALSE
    OBVIOUS
  <2>2. ifg_age \in 0 .. 1 /\ edge - 1 \in 1 .. Edges - 1 /\ ifg_age = GapAfter(edge - 1)
    BY <1>1, <1>2, <2>1 DEF RemoteInv
  <2>3. QED
    BY <1>1, <2>2, Gaps
<1>5. /\ ifg' \in BOOLEAN /\ (ifg' <=> edge \in received)
      /\ edge \in received => ifg_age' = 0
  BY <1>1, <1>4, Zenon DEF Edge, RemoteInv
<1>6. Past = edge - 1 /\ Past' = IF edge \in received THEN Past ELSE Past + 1
  BY <1>2, <1>4, <1>5 DEF Past
<1>7. Elapsed' = Elapsed /\ Elapsed \in Int
  BY <1>1, <1>2 DEF Elapsed, TimerInv, Ms, TIMER_TIMEOUT_ms
<1>8. TimerInv'
  BY <1>1, <1>2 DEF TimerInv
<1>9. RemoteInv'
  <2>1. edge' \in 1 .. Edges' + 1 /\ wait' \in Nat /\ (edge' > Edges' => wait' <= 1)
    BY <1>2, <1>3
  <2>2. ifg' => /\ edge' > 1 /\ edge' - 1 \in received' /\ ifg_age' \in 0 .. 1
                /\ IF edge' <= Edges' THEN wait' + ifg_age' = (GapAfter(edge - 1))' ELSE wait' = ifg_age'
    <3>1. edge' - 1 = edge
      BY <1>2
    <3>2. (GapAfter(edge - 1))' = GapAfter(edge)
      BY <1>2, <3>1 DEF GapAfter
    <3>3. QED
      BY <1>2, <1>3, <1>4, <1>5, <3>1, <3>2
  <2>3. button' \in Cmds /\ repetition' \in 0 .. MaxHeld /\ received' \subseteq 1 .. 34
        /\ whole' \in 0 .. repetition'
    BY <1>1, <1>2 DEF RemoteInv
  <2>4. QED
    BY <1>5, <2>1, <2>2, <2>3 DEF RemoteInv
<1>10. Fresh' <=> Fresh
  BY <1>2, <1>6 DEF Fresh
<1>11. IF edge \in received THEN AllServed' <=> AllServed ELSE ~AllServed'
  BY <1>2, <1>6 DEF AllServed
<1>12. FreshInv'
  <2>1. SUFFICES ASSUME Fresh', timer_running'
                 PROVE  Elapsed' + (IF edge' <= Edges' THEN wait' ELSE 0) >= Pause' + SinceFirst'
    BY <1>1, <1>2, <1>10 DEF FreshInv
  <2>2. Elapsed + wait >= Pause + SinceFirst
    BY <1>1, <1>2, <1>10, <2>1 DEF FreshInv
  <2>3. Pause' = Pause /\ Pause \in Nat
    BY <1>2 DEF Pause, Ms
  <2>4. SinceFirst' <= SinceFirst + (IF edge < Edges THEN wait' ELSE 0) /\ SinceFirst \in Nat
        /\ SinceFirst' \in Nat
    BY <1>2, <1>3 DEF SinceFirst
  <2>5. QED
    BY <1>2, <1>3, <1>7, <2>2, <2>3, <2>4
<1>13. InStepInv'
  <2>1. SUFFICES ASSUME InStep'
                 PROVE  InStepInv'
    BY DEF InStepInv
  <2>2. edge \in received /\ InStep /\ Past' = Past
    BY <1>2, <1>6, <1>11, <2>1 DEF InStep
  <2>3. Since' = Since
    BY <1>2, <1>4, <1>5, <1>7, <2>2 DEF Since
  <2>4. Gap' = Gap /\ (Sharp' <=> Sharp)
    BY <1>2, <2>2 DEF Gap, Sharp, Pause, GapAfter
  <2>5. QED
    BY <1>1, <1>2, <2>2, <2>3, <2>4 DEF InStepInv
<1>14. MessageInv'
  <2>1. CASE edge \in received
    BY <1>1, <1>2, <1>6, <1>10, <1>11, <2>1 DEF MessageInv
  <2>2. CASE edge \notin received
    <3>1. SUFFICES ASSUME repetition = 0, ~Fresh
                   PROVE  pulse_count < Past + 1 /\ out = NoCmd
      BY <1>2, <1>6, <1>10, <1>11, <2>2 DEF MessageInv
    <3>2. out = NoCmd
      BY <1>1, <1>2, <1>6, <3>1 DEF MessageInv
    <3>3. ~AllServed => pulse_count < Past
      BY <1>1, <3>1 DEF MessageInv
    <3>4. Past > 0
      BY <1>2, <1>6, <3>1 DEF Fresh
    <3>5. AllServed => pulse_count = Past
      BY <1>1, <1>2, <1>6, <3>1, <3>4 DEF InStepInv, InStep
    <3>6. QED
      BY <1>1, <1>2, <1>6, <3>2, <3>3, <3>5 DEF TimerInv
  <2>3. QED
    BY <2>1, <2>2
<1>15. RepetitionInv'
  <2>1. InStep' => InStep /\ Past' = Past
    BY <1>2, <1>6, <1>11 DEF InStep
  <2>2. Past' >= Past /\ Past \in Int /\ Past' \in Int /\ pulse_count \in Int
    BY <1>1, <1>2, <1>6 DEF TimerInv
  <2>3. CmdOf(raw)' = CmdOf(raw)
    BY <1>2 DEF CmdOf
  <2>4. QED
    BY <1>1, <1>2, <1>10, <2>1, <2>2, <2>3 DEF RepetitionInv
<1>16. QED
  BY <1>8, <1>9, <1>12, <1>13, <1>14, <1>15 DEF IrInv

(* The timer gives up within 151 ms. *)
LEMMA ElapsedBounds ==
    ASSUME TimerInv
    PROVE  /\ Elapsed \in Nat
           /\ Elapsed >= 16 * timer_ms /\ Elapsed <= 16 * timer_ms + 17
           /\ Elapsed <= 2417
BY DEF TimerInv, Elapsed, Ms, TIMER_TIMEOUT_ms

LEMMA CmdSent ==
    ASSUME NEW c \in Cmds, NEW r,
           \A n \in 16 .. 23 : r[n - 16] = MessageBit(c, n)
    PROVE  CmdOf(r) = c
<1>1. c \in [0 .. 7 -> {0, 1}]
  BY IrBytesAssumption DEF Bytes
<1>2. ASSUME NEW i \in 0 .. 7
      PROVE  r[i] = c[i]
  <2>1. 16 + i \in 16 .. 23 /\ (16 + i) - 16 = i
    OBVIOUS
  <2>2. r[i] = MessageBit(c, 16 + i)
    BY <2>1
  <2>3. (16 + i) % 8 = i /\ ((16 + i) \div 8) % 2 = 0 /\ ~(16 + i < 16)
    OBVIOUS
  <2>4. QED
    BY <2>2, <2>3 DEF MessageBit
<1>3. QED
  BY <1>1, <1>2 DEF CmdOf

LEMMA NextFrameInv == ServedInTime /\ IrInv /\ NextFrame => IrInv'
<1> SUFFICES ASSUME ServedInTime, IrInv, NextFrame
             PROVE  IrInv'
  OBVIOUS
<1> DEFINE was_whole == 1 .. Edges \subseteq received
<1>1. TimerInv /\ RemoteInv /\ FreshInv /\ InStepInv /\ MessageInv /\ RepetitionInv
  BY DEF IrInv
<1>2. /\ edge > Edges /\ ~ifg /\ edge' = 1 /\ received' \in Receptions /\ out' = NoCmd
      /\ UNCHANGED <<ifg, CCIFG, ccifg_age, timer_running, timer_ms, pulse_count, raw, tick_in>>
      /\ \/ /\ repetition < MaxHeld
            /\ repetition' = repetition + 1
            /\ wait' = GapToRepetition - wait
            /\ whole' = IF was_whole /\ whole = repetition THEN whole + 1 ELSE whole
            /\ UNCHANGED button
         \/ /\ repetition' = 0
            /\ \E gap \in PressGaps : wait' = gap - wait
            /\ whole' = 0
            /\ button' \in Cmds
  BY DEF NextFrame, flags, decoder
<1>3. /\ repetition \in Nat /\ MaxHeld \in Nat /\ whole \in Nat /\ whole <= repetition
      /\ wait \in 0 .. 1 /\ edge = Edges + 1
      /\ Edges = IF repetition = 0 THEN 34 ELSE 2
      /\ \A gap \in PressGaps : gap \in Nat /\ gap > 1761
  BY <1>1, <1>2, IrConstants DEF RemoteInv, Edges
<1>4. Past = Edges /\ Past' = 0 /\ Fresh' /\ AllServed'
  BY <1>2, <1>3 DEF Past, Fresh, AllServed
<1>5. TimerInv'
  BY <1>1, <1>2 DEF TimerInv
<1>6. Elapsed' = Elapsed /\ Elapsed \in Nat
  BY <1>1, <1>2, ElapsedBounds DEF Elapsed
<1>7. GapToRepetition = IF repetition = 0 THEN 783 ELSE 1683
  BY DEF GapToRepetition, Ms
<1>8. RemoteInv'
  <2>1. received' \subseteq 1 .. 34
    BY <1>2, ReceptionsAssumption
  <2>2. wait' \in Nat
    BY <1>2, <1>3, <1>7
  <2>3. /\ button' \in Cmds /\ repetition' \in 0 .. MaxHeld /\ whole' \in 0 .. repetition'
        /\ Edges' \in {2, 34}
    BY <1>1, <1>2, <1>3 DEF RemoteInv, Edges
  <2>4. ifg' \in BOOLEAN /\ ~ifg'
    BY <1>1, <1>2 DEF RemoteInv
  <2>5. edge' \in 1 .. Edges' + 1 /\ ~(edge' > Edges')
    <3>1. edge' = 1
      BY <1>2
    <3>2. Edges' = 2 \/ Edges' = 34
      BY <2>3
    <3>3. QED
      BY <3>1, <3>2
  <2>6. QED
    BY <2>1, <2>2, <2>3, <2>4, <2>5 DEF RemoteInv
<1>9. edge' <= Edges' /\ edge' = 1 /\ ~ifg'
  BY <1>2 DEF Edges
<1>10. CASE repetition' = 0
  <2>1. \E gap \in PressGaps : wait' = gap - wait
    BY <1>2, <1>3, <1>10
  <2>2. Elapsed' + wait' >= 1761
    BY <1>3, <1>6, <2>1
  <2>3. FreshInv'
    BY <1>2, <1>9, <1>10, <2>2 DEF FreshInv, Pause, SinceFirst, Ms
  <2>4. ~InStep'
    BY <1>4, <1>10 DEF InStep
  <2>5. QED
    BY <1>4, <1>5, <1>8, <1>10, <2>3, <2>4
    DEF IrInv, InStepInv, MessageInv, RepetitionInv
<1>11. CASE repetition' # 0
  <2>1. /\ repetition' = repetition + 1 /\ button' = button
        /\ wait' = GapToRepetition - wait
        /\ whole' = IF was_whole /\ whole = repetition THEN whole + 1 ELSE whole
    BY <1>2, <1>11
  <2>2. Pause' = GapToRepetition - 1
    BY <1>3, <1>7, <2>1 DEF Pause
  <2>3. FreshInv'
    BY <1>2, <1>3, <1>6, <1>7, <1>9, <1>11, <2>1, <2>2 DEF FreshInv, SinceFirst
  <2>4. was_whole <=> AllServed
    BY <1>4 DEF AllServed
  <2>5. InStepInv'
    <3>1. SUFFICES ASSUME InStep'
                   PROVE  InStepInv'
      BY DEF InStepInv
    <3>2. was_whole /\ whole = repetition /\ repetition + 1 <= 32750
      BY <1>3, <1>11, <2>1, <3>1 DEF InStep
    <3>3. InStep
      BY <1>3, <1>4, <2>4, <3>2 DEF InStep
    <3>4. pulse_count = Edges + (IF repetition = 0 THEN 0 ELSE 32 + 2 * repetition)
      BY <1>1, <1>4, <3>3 DEF InStepInv
    <3>5. pulse_count' = Past' + (IF repetition' = 0 THEN 0 ELSE 32 + 2 * repetition')
      BY <1>2, <1>3, <1>4, <2>1, <3>4
    <3>6. Since = Elapsed - wait /\ Gap = 0 /\ (repetition = 0 => Sharp)
      BY <1>2, <1>3, <1>4 DEF Since, Gap, Sharp
    <3>7. \/ Gap - 1 <= Since /\ Since <= Gap
          \/ ~Sharp /\ Gap + 15 <= Since /\ Since <= Gap + 16
      BY <1>1, <3>3 DEF InStepInv
    <3>8. Since' = Since + GapToRepetition
      BY <1>3, <1>6, <1>7, <1>9, <2>1, <3>6 DEF Since
    <3>9. Gap' = GapToRepetition /\ (Sharp' => repetition = 0)
      <4>1. Edges' = 2
        BY <1>11 DEF Edges
      <4>2. QED
        BY <1>3, <1>4, <1>7, <1>11, <2>1, <2>2, <4>1 DEF Gap, Sharp
    <3>10. \/ Gap' - 1 <= Since' /\ Since' <= Gap'
           \/ ~Sharp' /\ Gap' + 15 <= Since' /\ Since' <= Gap' + 16
      BY <1>3, <1>6, <1>7, <3>6, <3>7, <3>8, <3>9
    <3>11. QED
      BY <3>5, <3>10 DEF InStepInv
  <2>6. ASSUME pulse_count >= 34
        PROVE  whole' > 0 /\ CmdOf(raw) = button
    <3>1. CASE repetition = 0
      <4>1. ~Fresh
        <5>1. SUFFICES ASSUME Fresh
                       PROVE  FALSE
          OBVIOUS
        <5>2. timer_running
          BY <1>1, <2>6 DEF TimerInv
        <5>3. Elapsed >= 2418
          BY <1>1, <1>3, <1>6, <3>1, <5>1, <5>2 DEF FreshInv, Pause, SinceFirst, Ms
        <5>4. QED
          BY <1>1, <1>6, <5>3, ElapsedBounds
      <4>2. AllServed
        BY <1>1, <1>3, <1>4, <2>6, <3>1, <4>1 DEF MessageInv, TimerInv
      <4>3. \A n \in 1 .. 31 : 34 - n <= 18 => raw[18 - (34 - n)] = MessageBit(button, n)
        BY <1>1, <1>3, <1>4, <3>1, <4>1, <4>2 DEF MessageInv
      <4>4. \A n \in 16 .. 23 : raw[n - 16] = MessageBit(button, n)
        <5>1. TAKE n \in 16 .. 23
        <5>2. n \in 1 .. 31 /\ 34 - n <= 18 /\ 18 - (34 - n) = n - 16
          OBVIOUS
        <5>3. QED
          BY <4>3, <5>2
      <4>5. CmdOf(raw) = button
        BY <1>1, <4>4, CmdSent DEF RemoteInv
      <4>6. QED
        BY <1>3, <2>1, <2>4, <3>1, <4>2, <4>5
    <3>2. CASE repetition > 0
      BY <1>1, <1>3, <2>1, <2>6, <3>2 DEF RepetitionInv
    <3>3. QED
      BY <1>3, <3>1, <3>2
  <2>7. RepetitionInv'
    <3>1. CmdOf(raw)' = CmdOf(raw)
      BY <1>2 DEF CmdOf
    <3>2. QED
      BY <1>2, <1>4, <2>1, <2>6, <3>1 DEF RepetitionInv
  <2>8. MessageInv'
    BY <1>11 DEF MessageInv
  <2>9. QED
    BY <1>5, <1>8, <2>3, <2>5, <2>7, <2>8 DEF IrInv
<1>12. QED
  BY <1>10, <1>11

-----------------------------------------------------------------------------
(* Time and the decoder's timer *)
LEMMA MinIsLeast ==
    ASSUME NEW S, NEW m \in S, \A y \in S : m <= y
    PROVE  Min(S) \in S /\ \A y \in S : Min(S) <= y
BY DEF Min

(* Time passes no event. *)
LEMMA ElapseFacts ==
    ASSUME TimerInv, RemoteInv, Elapse
    PROVE  \E d \in Nat \ {0} :
               /\ edge <= Edges => d <= wait /\ wait' = wait - d
               /\ edge > Edges => ifg /\ wait' = wait + d
               /\ timer_running => d <= tick_in /\ tick_in' = tick_in - d
               /\ ~timer_running => tick_in' = tick_in
               /\ ifg => d = 1 /\ ifg_age < LATENCY /\ ifg_age' = ifg_age + 1
               /\ CCIFG => d = 1 /\ ccifg_age < LATENCY /\ ccifg_age' = ccifg_age + 1
<1> DEFINE d == IF ifg \/ CCIFG THEN 1 ELSE Min(Events)
<1>1. /\ edge <= Edges \/ ifg
      /\ 0 \notin Events
      /\ ifg => ifg_age < LATENCY
      /\ CCIFG => ccifg_age < LATENCY
      /\ wait' = IF edge <= Edges THEN wait - d ELSE wait + d
      /\ tick_in' = IF timer_running THEN tick_in - d ELSE tick_in
      /\ ifg_age' = IF ifg THEN ifg_age + d ELSE 0
      /\ ccifg_age' = IF CCIFG THEN ccifg_age + d ELSE 0
  BY DEF Elapse
<1>2. wait \in Nat /\ tick_in \in Nat /\ edge \in Nat /\ Edges \in {2, 34}
  BY DEF RemoteInv, TimerInv, Edges
<1>3. /\ edge <= Edges => wait \in Events
      /\ timer_running => tick_in \in Events
      /\ \A x \in Events : (x = wait /\ edge <= Edges) \/ (x = tick_in /\ timer_running)
  BY DEF Events
<1>4. /\ d \in Nat \ {0}
      /\ edge <= Edges => d <= wait
      /\ timer_running => d <= tick_in
  <2>1. CASE ifg \/ CCIFG
    BY <1>1, <1>2, <1>3, <2>1
  <2>2. CASE ~ifg /\ ~CCIFG
    <3>1. wait \in Events
      BY <1>1, <1>3, <2>2
    <3>2. PICK m \in Events : \A y \in Events : m <= y
      <4>1. CASE timer_running /\ tick_in <= wait
        <5>1. tick_in \in Events /\ \A y \in Events : tick_in <= y
          BY <1>2, <1>3, <4>1
        <5>2. QED
          BY <5>1
      <4>2. CASE ~(timer_running /\ tick_in <= wait)
        <5>1. \A y \in Events : wait <= y
          BY <1>2, <1>3, <4>2
        <5>2. QED
          BY <3>1, <5>1
      <4>3. QED
        BY <4>1, <4>2
    <3>3. Min(Events) \in Events /\ \A y \in Events : Min(Events) <= y
      BY <3>2, MinIsLeast
    <3>4. d = Min(Events)
      BY <2>2
    <3>5. d \in Nat /\ d # 0
      BY <1>1, <1>2, <1>3, <3>3, <3>4
    <3>6. QED
      BY <1>3, <3>3, <3>4, <3>5
  <2>3. QED
    BY <2>1, <2>2
<1>5. ifg \/ CCIFG => d = 1
  OBVIOUS
<1> HIDE DEF d
<1>6. edge > Edges => ~(edge <= Edges)
  BY <1>2
<1>7. QED
  BY <1>1, <1>4, <1>5, <1>6

LEMMA ElapseInv == ServedInTime /\ IrInv /\ Elapse => IrInv'
<1> SUFFICES ASSUME ServedInTime, IrInv, Elapse
             PROVE  IrInv'
  OBVIOUS
<1>1. TimerInv /\ RemoteInv /\ FreshInv /\ InStepInv /\ MessageInv /\ RepetitionInv
  BY DEF IrInv
<1>2. UNCHANGED <<button, repetition, received, edge, ifg, CCIFG, timer_running,
                  timer_ms, pulse_count, raw, out, whole>>
  BY DEF Elapse
<1>3. PICK d \in Nat \ {0} :
          /\ edge <= Edges => d <= wait /\ wait' = wait - d
          /\ edge > Edges => ifg /\ wait' = wait + d
          /\ timer_running => d <= tick_in /\ tick_in' = tick_in - d
          /\ ~timer_running => tick_in' = tick_in
          /\ ifg => d = 1 /\ ifg_age < LATENCY /\ ifg_age' = ifg_age + 1
          /\ CCIFG => d = 1 /\ ccifg_age < LATENCY /\ ccifg_age' = ccifg_age + 1
  BY <1>1, ElapseFacts
<1>4. LATENCY \in Nat /\ LATENCY <= 1
  BY IrConstants
<1>5. TimerInv'
  <2>1. CCIFG => tick_in' + ccifg_age' = Ms(1) /\ ccifg_age' \in 0 .. 1
    BY <1>1, <1>3, <1>4 DEF TimerInv, Ms
  <2>2. tick_in' \in Nat /\ tick_in' <= Ms(1)
    BY <1>1, <1>3 DEF TimerInv, Ms
  <2>3. QED
    BY <1>1, <1>2, <2>1, <2>2 DEF TimerInv
<1>6. Edges' = Edges /\ Edges \in {2, 34} /\ edge \in Nat
  BY <1>1, <1>2 DEF Edges, RemoteInv
<1>7. RemoteInv'
  <2>1. wait \in Nat
    BY <1>1 DEF RemoteInv
  <2>2. wait' \in Nat /\ (edge > Edges => wait' <= 1)
    BY <1>1, <1>3, <1>4, <1>6, <2>1 DEF RemoteInv
  <2>3. ASSUME ifg
        PROVE  /\ ifg_age' \in 0 .. 1
               /\ IF edge <= Edges THEN wait' + ifg_age' = GapAfter(edge - 1) ELSE wait' = ifg_age'
    <3>1. ifg_age' \in 0 .. 1
      BY <1>1, <1>3, <1>4, <2>3 DEF RemoteInv
    <3>2. CASE edge <= Edges
      BY <1>1, <1>3, <2>1, <2>3, <3>1, <3>2 DEF RemoteInv
    <3>3. CASE ~(edge <= Edges)
      BY <1>1, <1>3, <1>6, <2>1, <2>3, <3>1, <3>3 DEF RemoteInv
    <3>4. QED
      BY <3>1, <3>2, <3>3
  <2>4. (GapAfter(edge - 1))' = GapAfter(edge - 1)
    BY <1>2 DEF GapAfter
  <2>5. QED
    BY <1>1, <1>2, <1>6, <2>2, <2>3, <2>4 DEF RemoteInv
<1>8. UNCHANGED <<Past, Pause, SinceFirst>>
  BY <1>2 DEF Past, Pause, SinceFirst
<1>9. (Fresh' <=> Fresh) /\ (AllServed' <=> AllServed)
  BY <1>2, <1>8 DEF Fresh, AllServed
<1>10. Gap' = Gap /\ (InStep' <=> InStep) /\ (Sharp' <=> Sharp)
  BY <1>2, <1>6, <1>8, <1>9 DEF Gap, InStep, Sharp, GapAfter
<1>11. timer_running => Elapsed' = Elapsed + d
  BY <1>1, <1>2, <1>3 DEF Elapsed, TimerInv, Ms
<1>12. Elapsed \in Nat /\ Pause \in Nat /\ SinceFirst \in Nat
  BY <1>1, <1>6, ElapsedBounds DEF Pause, SinceFirst, Ms
<1>13. FreshInv'
  <2>1. SUFFICES ASSUME Fresh, timer_running
                 PROVE  Elapsed' + (IF edge <= Edges THEN wait' ELSE 0) >= Pause + SinceFirst
    BY <1>1, <1>2, <1>6, <1>8, <1>9 DEF FreshInv
  <2>2. Elapsed + (IF edge <= Edges THEN wait ELSE 0) >= Pause + SinceFirst
    BY <1>1, <2>1 DEF FreshInv
  <2>3. wait \in Nat
    BY <1>1 DEF RemoteInv
  <2>4. QED
    BY <1>3, <1>6, <1>11, <1>12, <2>1, <2>2, <2>3
<1>14. InStepInv'
  <2>1. SUFFICES ASSUME InStep
                 PROVE  Since' = Since
    BY <1>1, <1>2, <1>8, <1>10 DEF InStepInv
  <2>2. timer_running
    BY <1>1, <1>2, <2>1 DEF InStepInv, InStep, TimerInv, RemoteInv, Past
  <2>3. wait \in Nat /\ (ifg => ifg_age \in 0 .. 1)
    BY <1>1 DEF RemoteInv
  <2>4. QED
    BY <1>2, <1>3, <1>6, <1>11, <1>12, <2>2, <2>3 DEF Since
<1>15. MessageInv'
  BY <1>1, <1>2, <1>8, <1>9 DEF MessageInv
<1>16. RepetitionInv'
  BY <1>1, <1>2, <1>8, <1>9, <1>10 DEF RepetitionInv, CmdOf
<1>17. QED
  BY <1>5, <1>7, <1>13, <1>14, <1>15, <1>16 DEF IrInv

(* Steps of the timer that count what has elapsed. *)
LEMMA TickInv ==
    ASSUME IrInv, TimerInv', Elapsed' = Elapsed,
           UNCHANGED <<remote, ifg, ifg_age, timer_running, pulse_count, raw, out, whole>>
    PROVE  IrInv'
<1>1. TimerInv /\ RemoteInv /\ FreshInv /\ InStepInv /\ MessageInv /\ RepetitionInv
  BY DEF IrInv
<1>2. UNCHANGED <<button, repetition, received, edge, wait, Edges>>
  BY DEF remote, Edges
<1>3. UNCHANGED <<Past, Pause, SinceFirst>>
  BY <1>2 DEF Past, Pause, SinceFirst
<1>4. (Fresh' <=> Fresh) /\ (AllServed' <=> AllServed)
  BY <1>2, <1>3 DEF Fresh, AllServed
<1>5. Gap' = Gap /\ (InStep' <=> InStep) /\ (Sharp' <=> Sharp)
  BY <1>2, <1>3, <1>4 DEF Gap, InStep, Sharp, GapAfter
<1>6. Since' = Since
  BY <1>2 DEF Since
<1>7. RemoteInv'
  <2>1. (GapAfter(edge - 1))' = GapAfter(edge - 1)
    BY <1>2 DEF GapAfter
  <2>2. QED
    BY <1>1, <1>2, <2>1 DEF RemoteInv
<1>8. FreshInv'
  BY <1>1, <1>2, <1>3, <1>4 DEF FreshInv
<1>9. InStepInv'
  BY <1>1, <1>2, <1>3, <1>5, <1>6 DEF InStepInv
<1>10. MessageInv'
  BY <1>1, <1>2, <1>3, <1>4 DEF MessageInv
<1>11. RepetitionInv'
  BY <1>1, <1>2, <1>3, <1>4, <1>5 DEF RepetitionInv, CmdOf
<1>12. QED
  BY <1>7, <1>8, <1>9, <1>10, <1>11 DEF IrInv

LEMMA TimerExpiresInv == IrInv /\ TimerExpires => IrInv'
<1> SUFFICES ASSUME IrInv, TimerExpires
             PROVE  IrInv'
  OBVIOUS
<1>1. TimerInv
  BY DEF IrInv
<1>2. /\ timer_running /\ tick_in = 0 /\ tick_in' = Ms(1) /\ CCIFG' = TRUE /\ ccifg_age' = 0
      /\ UNCHANGED <<remote, ifg, ifg_age, timer_running, timer_ms, pulse_count, raw, out, whole>>
  BY DEF TimerExpires
<1>3. ~CCIFG
  BY <1>1, <1>2 DEF TimerInv, Ms
<1>4. Elapsed' = Elapsed
  BY <1>1, <1>2, <1>3 DEF Elapsed, TimerInv, Ms
<1>5. TimerInv'
  BY <1>1, <1>2 DEF TimerInv, Ms
<1>6. QED
  BY <1>2, <1>4, <1>5, TickInv

(* While the decoder is in step, the timer does not give up. *)
LEMMA InStepElapsed ==
    ASSUME IrInv, InStep
    PROVE  /\ timer_running
           /\ Elapsed <= Gap + 17 /\ Gap \in Nat /\ Gap <= 1683 /\ Elapsed <= 1700
<1>1. TimerInv /\ RemoteInv /\ InStepInv
  BY DEF IrInv
<1>2. /\ repetition \in Nat /\ edge \in 1 .. Edges + 1 /\ Edges = (IF repetition = 0 THEN 34 ELSE 2)
      /\ wait \in Nat /\ (edge > Edges => wait <= 1) /\ (ifg => edge > 1 /\ ifg_age \in 0 .. 1)
  BY <1>1, IrNatAssumption DEF RemoteInv, Edges
<1>3. Past \in 0 .. Edges
  BY <1>2 DEF Past
<1>4. Gap \in Nat /\ Gap <= 1683
  <2>1. CASE Past = Edges
    BY <2>1 DEF Gap
  <2>2. CASE Past = 0 /\ Past # Edges
    BY <1>2, <2>2 DEF Gap, Pause, InStep
  <2>3. CASE Past # 0 /\ Past # Edges
    <3>1. Past \in 1 .. Edges - 1
      BY <1>2, <1>3, <2>3
    <3>2. GapAfter(Past) \in 18 .. 81
      BY <1>1, <3>1, Gaps
    <3>3. QED
      BY <2>3, <3>2 DEF Gap
  <2>4. QED
    BY <2>1, <2>2, <2>3
<1>5. pulse_count = Past + (IF repetition = 0 THEN 0 ELSE 32 + 2 * repetition)
      /\ Since <= Gap + 16
  <2>1. Since \in Int
    BY <1>1, <1>2, ElapsedBounds DEF Since
  <2>2. QED
    BY <1>1, <1>4, <2>1 DEF InStepInv
<1>6. Elapsed \in Nat
  BY <1>1, ElapsedBounds
<1>7. Elapsed <= Since + 1 /\ Since \in Int
  BY <1>2, <1>6 DEF Since
<1>8. timer_running
  BY <1>1, <1>2, <1>3, <1>5 DEF InStep, TimerInv
<1>9. QED
  BY <1>4, <1>5, <1>6, <1>7, <1>8

LEMMA TimerIsrInv == IrInv /\ isr_timer_a0 => IrInv'
<1> SUFFICES ASSUME IrInv, isr_timer_a0
             PROVE  IrInv'
  OBVIOUS
<1>1. TimerInv /\ RemoteInv /\ FreshInv /\ MessageInv /\ RepetitionInv
  BY DEF IrInv
<1>2. /\ CCIFG /\ ~CCIFG' /\ CCIFG' \in BOOLEAN
      /\ UNCHANGED <<remote, ifg, ifg_age, ccifg_age, tick_in, out, whole>>
  BY DEF isr_timer_a0
<1>3. CASE timer_ms < TIMER_TIMEOUT_ms
  <2>1. timer_ms' = timer_ms + 1 /\ UNCHANGED <<timer_running, pulse_count, raw>>
    BY <1>3 DEF isr_timer_a0
  <2>2. Elapsed' = Elapsed
    BY <1>1, <1>2, <2>1 DEF Elapsed, TimerInv, Ms
  <2>3. TimerInv'
    BY <1>1, <1>2, <1>3, <2>1 DEF TimerInv, TIMER_TIMEOUT_ms
  <2>4. QED
    BY <1>2, <2>1, <2>2, <2>3, TickInv
<1>4. CASE ~(timer_ms < TIMER_TIMEOUT_ms)
  <2>1. /\ ~timer_running' /\ timer_running' \in BOOLEAN
        /\ timer_ms' = 0 /\ pulse_count' = 0 /\ raw' = ClearedRaw
    BY <1>4, Zenon DEF isr_timer_a0
  <2>2. ~InStep
    <3>1. SUFFICES ASSUME InStep
                   PROVE  FALSE
      OBVIOUS
    <3>2. Elapsed >= 2400 /\ Elapsed \in Nat
      BY <1>1, <1>4, ElapsedBounds DEF TimerInv, TIMER_TIMEOUT_ms
    <3>3. QED
      BY <3>1, <3>2, InStepElapsed
  <2>3. UNCHANGED <<button, repetition, received, edge, wait, Edges, ifg, ifg_age, out, whole>>
    BY <1>2 DEF remote, Edges
  <2>4. Past' = Past
    BY <2>3 DEF Past
  <2>5. (Fresh' <=> Fresh) /\ (AllServed' <=> AllServed)
    BY <2>3, <2>4 DEF Fresh, AllServed
  <2>6. ~InStep'
    BY <2>2, <2>3, <2>4, <2>5 DEF InStep
  <2>7. TimerInv'
    <3>1. raw' \in [0 .. 15 -> {0, 1}]
      BY <2>1 DEF ClearedRaw
    <3>2. tick_in' \in Nat /\ tick_in' <= Ms(1)
      BY <1>1, <1>2 DEF TimerInv
    <3>3. timer_ms' \in Nat /\ timer_ms' <= TIMER_TIMEOUT_ms
      BY <2>1 DEF TIMER_TIMEOUT_ms
    <3>4. QED
      BY <1>2, <2>1, <3>1, <3>2, <3>3 DEF TimerInv
  <2>8. RemoteInv'
    <3>1. (GapAfter(edge - 1))' = GapAfter(edge - 1)
      BY <2>3 DEF GapAfter
    <3>2. QED
      BY <1>1, <2>3, <3>1 DEF RemoteInv
  <2>9. FreshInv'
    BY <1>1, <2>1, <2>3, <2>5 DEF FreshInv
  <2>10. /\ repetition \in Nat /\ Past \in Int
         /\ ~Fresh => Past > 0
    BY <1>1, IrNatAssumption DEF RemoteInv, Past, Fresh
  <2>11. MessageInv'
    <3>1. SUFFICES ASSUME repetition = 0, ~Fresh
                   PROVE  MessageInv'
      BY <2>3, <2>5 DEF MessageInv
    <3>2. ~AllServed
      BY <2>2, <2>10, <3>1 DEF InStep
    <3>3. QED
      BY <1>1, <2>1, <2>3, <2>4, <2>5, <2>10, <3>1, <3>2 DEF MessageInv
  <2>12. RepetitionInv'
    <3>1. /\ repetition > 0 /\ ~Fresh => Past > 0
          /\ repetition > 0 /\ out # NoCmd => whole > 0 /\ out = button
      BY <1>1, <2>10 DEF RepetitionInv
    <3>2. pulse_count' = 0 /\ ~(pulse_count' >= 34)
      BY <2>1
    <3>3. repetition' > 0 => repetition > 0 /\ repetition' = repetition
      BY <2>3
    <3>4. 0 <= Past \/ Fresh
      BY <2>10
    <3>5. QED
      BY <2>3, <2>4, <2>5, <2>6, <3>1, <3>2, <3>3, <3>4 DEF RepetitionInv
  <2>13. QED
    BY <2>6, <2>7, <2>8, <2>9, <2>11, <2>12 DEF IrInv, InStepInv
<1>5. QED
  BY <1>3, <1>4

-----------------------------------------------------------------------------
(* A pulse *)
LEMMA ValidPulses ==
    ASSUME NEW p \in Nat, NEW ms \in Nat
    PROVE  /\ p = 0 => ~is_valid_pulse(p, ms)
           /\ p >= 2 /\ ms >= 110 => ~is_valid_pulse(p, ms)
           /\ p \in 2 .. 34 /\ ms >= 48 => ~is_valid_pulse(p, ms)
           /\ p >= 2 /\ ms < 5 => is_valid_pulse(p, ms)
           /\ p = 2 /\ ms < 10 => is_valid_pulse(p, ms)
           /\ p = 35 /\ ms < 50 => is_valid_pulse(p, ms)
           /\ p > 36 /\ p % 2 = 1 /\ ms < 110 => is_valid_pulse(p, ms)
BY DEF is_valid_pulse

LEMMA MessagePulses ==
    ASSUME NEW p \in Nat
    PROVE  /\ is_message_pulse(p) => p = 34 \/ p >= 37
           /\ p = 34 => is_message_pulse(p)
           /\ ~is_message_pulse(35)
           /\ \A k \in Nat : p = 37 + 2 * k => is_message_pulse(p)
           /\ \A k \in Nat : p = 36 + 2 * k => ~is_message_pulse(p)
BY DEF is_message_pulse

(* What is the same of a pulse in a message and in a repetition: the edge, *)
(* the milliseconds that the timer has counted, and the count that follows. *)
LEMMA PulseFacts ==
    ASSUME IrInv, isr_pulse
    PROVE  /\ edge = Past + 2 /\ Past \in Nat /\ Past < Edges
           /\ Past' = Past + 1 /\ Past + 1 \in received
           /\ ~Fresh' /\ (AllServed' <=> AllServed)
           /\ Edges = (IF repetition = 0 THEN 34 ELSE 2) /\ repetition \in Nat
           /\ 16 * timer_ms <= Elapsed /\ 16 * timer_ms >= Elapsed - 16
           /\ CCIFG => Elapsed = 16 * timer_ms + 16
           /\ Elapsed \in Nat /\ timer_ms \in Nat /\ pulse_count \in Nat
           /\ Elapsed' = IF CCIFG THEN 16 ELSE 0
           /\ \/ pulse_count' = 1 /\ raw' = ClearedRaw
              \/ /\ pulse_count' = pulse_count + 1
                 /\ is_valid_pulse(pulse_count + 1, timer_ms)
                 /\ raw' = IF is_bit_pulse(pulse_count + 1)
                           THEN ShiftedIn(IF timer_ms >= 2 THEN 1 ELSE 0, raw) ELSE raw
           /\ is_valid_pulse(pulse_count + 1, timer_ms) /\ pulse_count < 65535 =>
                  pulse_count' = pulse_count + 1
           /\ out' = IF is_message_pulse(pulse_count') THEN CmdOf(raw') ELSE NoCmd
           /\ TimerInv' /\ RemoteInv'
           /\ UNCHANGED <<button, repetition, received, edge, wait, whole, Edges, Pause>>
<1> DEFINE count == (pulse_count + 1) % 65536
           valid == is_valid_pulse(count, timer_ms)
<1>1. TimerInv /\ RemoteInv
  BY DEF IrInv
<1>2. /\ ifg /\ ~ifg' /\ ifg' \in BOOLEAN
      /\ CCIFG => ccifg_age = 0
      /\ timer_running' /\ timer_running' \in BOOLEAN
      /\ UNCHANGED <<remote, CCIFG, ifg_age, ccifg_age, whole>>
  <2>1. /\ ifg /\ ifg' = FALSE /\ timer_running' = TRUE
        /\ UNCHANGED <<remote, CCIFG, ifg_age, ccifg_age, whole>>
    BY DEF isr_pulse
  <2>2. CCIFG => ccifg_age = 0
    BY DEF isr_pulse
  <2>3. ~ifg' /\ ifg' \in BOOLEAN /\ timer_running' /\ timer_running' \in BOOLEAN
    BY <2>1, Zenon
  <2>4. QED
    BY <2>1, <2>2, <2>3
<1>3. /\ pulse_count' = CountFrom(valid, count)
      /\ raw' = IF ~valid THEN ClearedRaw
                ELSE IF is_bit_pulse(count)
                THEN ShiftedIn(IF timer_ms >= 2 THEN 1 ELSE 0, raw)
                ELSE raw
      /\ out' = IF is_message_pulse(pulse_count') THEN CmdOf(raw') ELSE NoCmd
      /\ timer_ms' = 0 /\ tick_in' = Ms(1)
  BY DEF isr_pulse
<1>4. UNCHANGED <<button, repetition, received, edge, wait, whole, Edges, Pause>>
  BY <1>2 DEF remote, Edges, Pause
<1>5. /\ edge = Past + 2 /\ Past \in Nat /\ Past < Edges
      /\ Past' = Past + 1 /\ Past + 1 \in received
      /\ Edges = (IF repetition = 0 THEN 34 ELSE 2) /\ repetition \in Nat
  <2>1. edge \in 1 .. Edges + 1 /\ edge > 1 /\ edge - 1 \in received /\ repetition \in Nat
    BY <1>1, <1>2, IrNatAssumption DEF RemoteInv
  <2>2. Edges = IF repetition = 0 THEN 34 ELSE 2
    BY DEF Edges
  <2>3. Past = edge - 2 /\ Past' = edge - 1
    BY <1>2, <1>4 DEF Past
  <2>4. QED
    BY <2>1, <2>2, <2>3
<1>6. ~Fresh' /\ (AllServed' <=> AllServed)
  BY <1>4, <1>5 DEF Fresh, AllServed
<1>7. /\ 16 * timer_ms <= Elapsed /\ 16 * timer_ms >= Elapsed - 16
      /\ CCIFG => Elapsed = 16 * timer_ms + 16
      /\ Elapsed \in Nat /\ timer_ms \in Nat /\ pulse_count \in Nat /\ pulse_count < 65536
  BY <1>1, <1>2 DEF TimerInv, Elapsed, Ms
<1>8. Elapsed' = IF CCIFG THEN 16 ELSE 0
  BY <1>2, <1>3 DEF Elapsed, Ms
<1>9. /\ count \in Nat /\ count < 65536
      /\ pulse_count < 65535 => count = pulse_count + 1
      /\ ~(pulse_count < 65535) => count = 0
  BY <1>7
<1>10. count = 0 => ~valid
  BY <1>7, <1>9, ValidPulses
<1>11. \/ ~valid /\ pulse_count' = 1
       \/ valid /\ pulse_count' = count
  BY <1>3 DEF CountFrom
<1> HIDE DEF count
<1>12. valid => pulse_count < 65535 /\ count = pulse_count + 1
  BY <1>9, <1>10
<1>13. pulse_count' \in Nat /\ pulse_count' < 65536 /\ pulse_count' # 0
  BY <1>9, <1>10, <1>11
<1>14. \/ pulse_count' = 1 /\ raw' = ClearedRaw
       \/ /\ pulse_count' = pulse_count + 1
          /\ is_valid_pulse(pulse_count + 1, timer_ms)
          /\ raw' = IF is_bit_pulse(pulse_count + 1)
                    THEN ShiftedIn(IF timer_ms >= 2 THEN 1 ELSE 0, raw) ELSE raw
  BY <1>3, <1>11, <1>12
<1>15. is_valid_pulse(pulse_count + 1, timer_ms) /\ pulse_count < 65535 =>
           pulse_count' = pulse_count + 1
  BY <1>9, <1>11
<1>16. TimerInv'
  <2>1. raw' \in [0 .. 15 -> {0, 1}]
    <3>1. ClearedRaw \in [0 .. 15 -> {0, 1}]
      BY DEF ClearedRaw
    <3>2. ASSUME NEW b \in {0, 1}
          PROVE  ShiftedIn(b, raw) \in [0 .. 15 -> {0, 1}]
      BY <1>1 DEF ShiftedIn, TimerInv
    <3>3. (IF timer_ms >= 2 THEN 1 ELSE 0) \in {0, 1}
      OBVIOUS
    <3>4. QED
      BY <1>1, <1>3, <3>1, <3>2, <3>3 DEF TimerInv
  <2>2. CCIFG' \in BOOLEAN /\ (CCIFG' => ccifg_age' = 0)
    BY <1>1, <1>2 DEF TimerInv
  <2>3. timer_ms' \in Nat /\ timer_ms' <= TIMER_TIMEOUT_ms
    BY <1>3 DEF TIMER_TIMEOUT_ms
  <2>4. tick_in' \in Nat /\ tick_in' = Ms(1) /\ tick_in' <= Ms(1)
    BY <1>3 DEF Ms
  <2>5. ccifg_age' = 0 => ccifg_age' \in 0 .. 1 /\ tick_in' + ccifg_age' = Ms(1)
    BY <2>4
  <2>6. QED
    BY <1>2, <1>13, <2>1, <2>2, <2>3, <2>4, <2>5 DEF TimerInv
<1>17. RemoteInv'
  BY <1>1, <1>2, <1>4 DEF RemoteInv
<1>18. QED
  BY <1>3, <1>4, <1>5, <1>6, <1>7, <1>8, <1>14, <1>15, <1>16, <1>17

(* The first pulse after a pause starts the count, or repeats a command.   *)
LEMMA FirstPulse ==
    ASSUME IrInv, isr_pulse, Fresh
    PROVE  \/ pulse_count' = 1
           \/ repetition > 0 /\ pulse_count >= 34 /\ pulse_count' = pulse_count + 1
<1>1. TimerInv /\ RemoteInv /\ FreshInv
  BY DEF IrInv
<1>2. /\ edge = Past + 2 /\ Past \in Nat /\ Past < Edges
      /\ Edges = (IF repetition = 0 THEN 34 ELSE 2) /\ repetition \in Nat
      /\ 16 * timer_ms >= Elapsed - 16 /\ Elapsed \in Nat /\ timer_ms \in Nat
      /\ pulse_count \in Nat
  BY PulseFacts
<1>3. \/ pulse_count' = 1
      \/ pulse_count' = pulse_count + 1 /\ is_valid_pulse(pulse_count + 1, timer_ms)
  BY PulseFacts
<1>4. CASE ~timer_running
  BY <1>1, <1>3, <1>4 DEF TimerInv
<1>5. CASE timer_running
  <2>1. pulse_count + 1 >= 2
    BY <1>1, <1>2, <1>5 DEF TimerInv
  <2>2. Elapsed + (IF edge <= Edges THEN wait ELSE 0) >= Pause + SinceFirst
    BY <1>1, <1>5 DEF FreshInv
  <2>3. wait \in Nat /\ (edge <= Edges => wait <= GapAfter(edge - 1))
    <3>1. ifg /\ wait \in Nat
      BY <1>1 DEF isr_pulse, RemoteInv
    <3>2. edge <= Edges => GapAfter(edge - 1) \in 18 .. 81
      <4>1. edge <= Edges => edge - 1 \in 1 .. Edges - 1
        BY <1>2
      <4>2. QED
        BY <1>1, <4>1, Gaps
    <3>3. QED
      BY <1>1, <3>1, <3>2 DEF RemoteInv
  <2>4. edge <= Edges => GapAfter(edge - 1) <= SinceFirst /\ GapAfter(edge - 1) \in Nat
    <3>1. SUFFICES ASSUME edge <= Edges
                   PROVE  GapAfter(edge - 1) <= SinceFirst /\ GapAfter(edge - 1) \in Nat
      OBVIOUS
    <3>2. edge - 1 \in 1 .. Edges - 1
      BY <1>2, <3>1
    <3>3. /\ repetition = 0 => /\ edge - 1 = 1 => GapAfter(edge - 1) = 81
                               /\ edge - 1 > 1 => GapAfter(edge - 1) \in {18, 36}
          /\ repetition > 0 => edge - 1 = 1 /\ GapAfter(edge - 1) = 45
      BY <1>1, <3>2, Gaps
    <3>4. QED
      BY <1>2, <3>1, <3>2, <3>3 DEF SinceFirst
  <2>5. SinceFirst \in Nat /\ Pause \in Nat
    BY <1>2 DEF SinceFirst, Pause, Ms
  <2>6. Elapsed >= Pause
    BY <1>2, <2>2, <2>3, <2>4, <2>5
  <2>7. CASE repetition = 0
    <3>1. timer_ms >= 110
      BY <1>2, <2>6, <2>7 DEF Pause, Ms
    <3>2. ~is_valid_pulse(pulse_count + 1, timer_ms)
      BY <1>2, <2>1, <3>1, ValidPulses
    <3>3. QED
      BY <1>3, <3>2
  <2>8. CASE repetition > 0
    <3>1. timer_ms >= 48
      BY <1>2, <2>6, <2>8 DEF Pause
    <3>2. pulse_count + 1 \in 2 .. 34 => ~is_valid_pulse(pulse_count + 1, timer_ms)
      BY <1>2, <3>1, ValidPulses
    <3>3. QED
      BY <1>2, <1>3, <2>1, <2>8, <3>2
  <2>9. QED
    BY <1>2, <2>7, <2>8
<1>6. QED
  BY <1>4, <1>5

(* A pulse that comes when the decoder expects it. *)
LEMMA ExpectedPulse ==
    ASSUME IrInv, isr_pulse, InStep
    PROVE  /\ pulse_count = Past + (IF repetition = 0 THEN 0 ELSE 32 + 2 * repetition)
           /\ pulse_count' = pulse_count + 1
           /\ Gap = (IF Past = 0 THEN Pause + 1 ELSE GapAfter(Past)) /\ Gap \in Nat
           /\ \/ Gap - 1 <= Elapsed /\ Elapsed <= Gap + 1
              \/ ~Sharp /\ Gap + 15 <= Elapsed /\ Elapsed <= Gap + 17
<1>1. RemoteInv /\ InStepInv
  BY DEF IrInv
<1>2. /\ edge = Past + 2 /\ Past \in Nat /\ Past < Edges
      /\ Edges = (IF repetition = 0 THEN 34 ELSE 2) /\ repetition \in Nat
      /\ 16 * timer_ms <= Elapsed /\ Elapsed \in Nat /\ timer_ms \in Nat /\ pulse_count \in Nat
      /\ is_valid_pulse(pulse_count + 1, timer_ms) /\ pulse_count < 65535 =>
             pulse_count' = pulse_count + 1
  BY PulseFacts
<1>3. ifg /\ ifg_age \in 0 .. 1
  BY <1>1 DEF isr_pulse, RemoteInv
<1>4. Since = Elapsed - ifg_age
  BY <1>3 DEF Since
<1>5. /\ pulse_count = Past + (IF repetition = 0 THEN 0 ELSE 32 + 2 * repetition)
      /\ \/ Gap - 1 <= Since /\ Since <= Gap
         \/ ~Sharp /\ Gap + 15 <= Since /\ Since <= Gap + 16
  BY <1>1 DEF InStepInv
<1>6. Gap = (IF Past = 0 THEN Pause + 1 ELSE GapAfter(Past)) /\ Gap \in Nat
  BY <1>2, InStepElapsed DEF Gap
<1>7. \/ Gap - 1 <= Elapsed /\ Elapsed <= Gap + 1
      \/ ~Sharp /\ Gap + 15 <= Elapsed /\ Elapsed <= Gap + 17
  BY <1>2, <1>3, <1>4, <1>5, <1>6
<1>8. Past # 0 => /\ repetition = 0 => /\ Past = 1 => Gap = 81
                                       /\ Past > 1 => Gap \in {18, 36}
                  /\ repetition > 0 => Past = 1 /\ Gap = 45
  <2>1. SUFFICES ASSUME Past # 0
                 PROVE  /\ repetition = 0 => /\ Past = 1 => GapAfter(Past) = 81
                                             /\ Past > 1 => GapAfter(Past) \in {18, 36}
                        /\ repetition > 0 => Past = 1 /\ GapAfter(Past) = 45
    BY <1>6
  <2>2. Past \in 1 .. Edges - 1
    BY <1>2, <2>1
  <2>3. QED
    BY <1>1, <2>2, Gaps
<1>9. is_valid_pulse(pulse_count + 1, timer_ms) /\ pulse_count < 65535
  <2>1. CASE repetition = 0
    <3>1. Past > 0 /\ pulse_count = Past /\ Past <= 33
      BY <1>2, <1>5, <2>1 DEF InStep
    <3>2. CASE Past = 1
      <4>1. timer_ms < 10 /\ pulse_count + 1 = 2
        BY <1>2, <1>6, <1>7, <1>8, <2>1, <3>1, <3>2
      <4>2. QED
        BY <1>2, <3>1, <4>1, ValidPulses
    <3>3. CASE Past > 1
      <4>1. timer_ms < 5 /\ pulse_count + 1 >= 2
        BY <1>2, <1>6, <1>7, <1>8, <2>1, <3>1, <3>3
      <4>2. QED
        BY <1>2, <3>1, <4>1, ValidPulses
    <3>4. QED
      BY <1>2, <3>1, <3>2, <3>3
  <2>2. CASE repetition > 0
    <3>1. repetition <= 32750 /\ pulse_count = Past + 32 + 2 * repetition
      BY <1>2, <1>5, <2>2 DEF InStep
    <3>2. pulse_count < 65535
      BY <1>2, <2>2, <3>1
    <3>3. CASE Past = 1
      <4>1. timer_ms < 5 /\ pulse_count + 1 >= 2
        BY <1>2, <1>6, <1>7, <1>8, <2>2, <3>1, <3>3
      <4>2. QED
        BY <1>2, <3>2, <4>1, ValidPulses
    <3>4. CASE Past = 0 /\ repetition = 1
      <4>1. Gap = 783 /\ Sharp
        BY <1>6, <3>4 DEF Pause, Sharp
      <4>2. timer_ms < 50 /\ pulse_count + 1 = 35
        BY <1>2, <1>7, <3>1, <3>4, <4>1
      <4>3. QED
        BY <1>2, <3>2, <4>2, ValidPulses
    <3>5. CASE Past = 0 /\ repetition > 1
      <4>1. Gap = 1683
        BY <1>2, <1>6, <3>5 DEF Pause
      <4>2. timer_ms < 110 /\ pulse_count + 1 > 36 /\ (pulse_count + 1) % 2 = 1
        BY <1>2, <1>7, <3>1, <3>5, <4>1
      <4>3. QED
        BY <1>2, <3>2, <4>2, ValidPulses
    <3>6. QED
      BY <1>2, <2>2, <3>3, <3>4, <3>5
  <2>3. QED
    BY <1>2, <2>1, <2>2
<1>10. QED
  BY <1>2, <1>5, <1>6, <1>7, <1>9

(* A pulse in a message puts nothing, unless it is the last of 34. *)
LEMMA MessagePulse ==
    ASSUME IrInv, isr_pulse, repetition = 0
    PROVE  /\ pulse_count' <= Past + 1 /\ pulse_count' \in Nat
           /\ ~AllServed => pulse_count' < Past + 1
           /\ AllServed => pulse_count' = Past + 1
<1>1. MessageInv
  BY DEF IrInv
<1>2. /\ Past \in Nat /\ Past < 34 /\ pulse_count \in Nat
      /\ pulse_count' = 1 \/ pulse_count' = pulse_count + 1
  BY PulseFacts
<1>3. CASE Fresh
  <2>1. pulse_count' = 1
    BY <1>3, FirstPulse
  <2>2. AllServed <=> Past = 0
    BY <1>2, <1>3 DEF Fresh, AllServed
  <2>3. QED
    BY <1>2, <2>1, <2>2
<1>4. CASE ~Fresh
  <2>1. Past > 0
    BY <1>2, <1>4 DEF Fresh
  <2>2. CASE AllServed
    <3>1. InStep
      BY <2>1, <2>2 DEF InStep
    <3>2. pulse_count' = Past + 1
      BY <1>2, <3>1, ExpectedPulse
    <3>3. QED
      BY <1>2, <2>2, <3>2
  <2>3. CASE ~AllServed
    <3>1. pulse_count < Past
      BY <1>1, <1>4, <2>3 DEF MessageInv
    <3>2. QED
      BY <1>2, <2>1, <2>3, <3>1
  <2>4. QED
    BY <2>2, <2>3
<1>5. QED
  BY <1>3, <1>4

(* While the message is received whole, each pulse from the fourth on adds *)
(* the bit that was sent.                                                  *)
LEMMA BitsReceived ==
    ASSUME IrInv, isr_pulse, repetition = 0, AllServed,
           NEW n \in 1 .. Past - 2, Past + 1 - n <= 18
    PROVE  raw'[18 - (Past + 1 - n)] = MessageBit(button, n)
<1>1. RemoteInv /\ MessageInv
  BY DEF IrInv
<1>2. /\ Past \in Nat /\ Past < 34 /\ timer_ms \in Nat /\ Elapsed \in Nat
      /\ 16 * timer_ms <= Elapsed /\ 16 * timer_ms >= Elapsed - 16
  BY PulseFacts
<1>3. Past >= 3 /\ n \in Nat /\ n > 0 /\ n <= Past - 2
  BY <1>2
<1>4. ~Fresh /\ InStep
  BY <1>2, <1>3 DEF Fresh, AllServed, InStep
<1>5. /\ pulse_count = Past /\ pulse_count' = pulse_count + 1
      /\ Gap = GapAfter(Past) /\ Gap \in Nat
      /\ Gap - 1 <= Elapsed /\ Elapsed <= Gap + 1
  BY <1>2, <1>3, <1>4, ExpectedPulse DEF Sharp
<1>6. raw' = ShiftedIn(IF timer_ms >= 2 THEN 1 ELSE 0, raw)
  <2>1. is_bit_pulse(pulse_count + 1) /\ pulse_count' # 1
    BY <1>2, <1>3, <1>5 DEF is_bit_pulse
  <2>2. \/ pulse_count' = 1
        \/ raw' = IF is_bit_pulse(pulse_count + 1)
                  THEN ShiftedIn(IF timer_ms >= 2 THEN 1 ELSE 0, raw) ELSE raw
    BY PulseFacts
  <2>3. QED
    BY <2>1, <2>2
<1>7. CASE n = Past - 2
  <2>1. 18 - (Past + 1 - n) = 15
    BY <1>2, <1>7
  <2>2. raw'[15] = IF timer_ms >= 2 THEN 1 ELSE 0
    BY <1>6 DEF ShiftedIn
  <2>3. Gap \in {18, 36} /\ (Gap = 36 <=> MessageBit(button, Past - 2) = 1)
    <3>1. Past \in 1 .. Edges - 1 /\ Past > 1
      BY <1>2, <1>3 DEF Edges
    <3>2. GapAfter(Past) \in {18, 36} /\ (GapAfter(Past) = 36 <=> MessageBit(button, Past - 2) = 1)
      BY <1>1, <3>1, Gaps
    <3>3. QED
      BY <1>5, <3>2
  <2>4. MessageBit(button, Past - 2) \in {0, 1}
    <3>1. Past - 2 \in 0 .. 31 /\ button \in Cmds
      BY <1>1, <1>2, <1>3 DEF RemoteInv
    <3>2. QED
      BY <3>1, MessageBits
  <2>5. timer_ms >= 2 <=> Gap = 36
    BY <1>2, <1>5, <2>3
  <2>6. QED
    BY <1>7, <2>1, <2>2, <2>3, <2>4, <2>5
<1>8. CASE n # Past - 2
  <2>1. n \in 1 .. Past - 3 /\ Past - n <= 18
    BY <1>2, <1>3, <1>8
  <2>2. raw[18 - (Past - n)] = MessageBit(button, n)
    BY <1>1, <1>4, <2>1 DEF MessageInv
  <2>3. 18 - (Past + 1 - n) \in 0 .. 15 /\ 18 - (Past + 1 - n) # 15
        /\ 18 - (Past + 1 - n) + 1 = 18 - (Past - n)
    BY <1>2, <1>3, <1>8
  <2>4. raw'[18 - (Past + 1 - n)] = raw[18 - (Past - n)]
    <3>1. \A i \in 0 .. 15 : i # 15 => raw'[i] = raw[i + 1]
      BY <1>6 DEF ShiftedIn
    <3>2. QED
      BY <2>3, <3>1
  <2>5. QED
    BY <2>2, <2>4
<1>9. QED
  BY <1>7, <1>8

LEMMA MessagePulseInv ==
    ASSUME IrInv, isr_pulse, repetition = 0
    PROVE  MessageInv'
<1>1. RemoteInv
  BY DEF IrInv
<1>2. /\ Past \in Nat /\ Past < 34 /\ Past' = Past + 1 /\ (AllServed' <=> AllServed)
      /\ UNCHANGED <<button, repetition>>
      /\ out' = IF is_message_pulse(pulse_count') THEN CmdOf(raw') ELSE NoCmd
  BY PulseFacts
<1>3. /\ pulse_count' <= Past + 1 /\ pulse_count' \in Nat
      /\ ~AllServed => pulse_count' < Past + 1
      /\ AllServed => pulse_count' = Past + 1
  BY MessagePulse
<1>4. is_message_pulse(pulse_count') <=> (AllServed /\ Past + 1 = 34)
  BY <1>2, <1>3, MessagePulses
<1>5. ASSUME AllServed, NEW n \in 1 .. Past' - 3, Past' - n <= 18
      PROVE  raw'[18 - (Past' - n)] = MessageBit(button, n)
  <2>1. n \in 1 .. Past - 2 /\ Past + 1 - n <= 18
    BY <1>2, <1>5
  <2>2. QED
    BY <1>2, <1>5, <2>1, BitsReceived
<1>6. AllServed /\ Past + 1 = 34 => CmdOf(raw') = button
  <2>1. SUFFICES ASSUME AllServed, Past = 33
                 PROVE  CmdOf(raw') = button
    BY <1>2
  <2>2. \A n \in 16 .. 23 : raw'[n - 16] = MessageBit(button, n)
    <3>1. TAKE n \in 16 .. 23
    <3>2. n \in 1 .. Past - 2 /\ Past + 1 - n <= 18 /\ 18 - (Past + 1 - n) = n - 16
      BY <2>1
    <3>3. raw'[18 - (Past + 1 - n)] = MessageBit(button, n)
      BY <2>1, <3>2, BitsReceived
    <3>4. QED
      BY <3>2, <3>3
  <2>3. button \in Cmds
    BY <1>1 DEF RemoteInv
  <2>4. QED
    BY <2>2, <2>3, CmdSent
<1>7. out' = IF AllServed /\ Past + 1 = 34 THEN button ELSE NoCmd
  BY <1>2, <1>4, <1>6
<1>8. \A n \in 1 .. Past' - 3 : MessageBit(button, n)' = MessageBit(button, n)
  BY <1>2 DEF MessageBit
<1>9. QED
  BY <1>2, <1>3, <1>5, <1>7, <1>8 DEF MessageInv

(* A pulse in a repetition. *)
LEMMA RepetitionPulseInv ==
    ASSUME IrInv, isr_pulse, repetition > 0
    PROVE  RepetitionInv'
<1>1. RemoteInv /\ RepetitionInv
  BY DEF IrInv
<1>2. /\ Past \in Nat /\ Past < 2 /\ Past' = Past + 1 /\ ~Fresh' /\ (AllServed' <=> AllServed)
      /\ pulse_count \in Nat /\ repetition \in Nat
      /\ UNCHANGED <<button, repetition, whole>>
      /\ out' = IF is_message_pulse(pulse_count') THEN CmdOf(raw') ELSE NoCmd
  BY PulseFacts
<1>3. \/ pulse_count' = 1
      \/ pulse_count' = pulse_count + 1
         /\ raw' = IF is_bit_pulse(pulse_count + 1)
                   THEN ShiftedIn(IF timer_ms >= 2 THEN 1 ELSE 0, raw) ELSE raw
  BY PulseFacts
<1>4. pulse_count' \in Nat
  BY <1>2, <1>3
<1>5. pulse_count' > Past + 1 => pulse_count >= 34 /\ pulse_count' = pulse_count + 1
  <2>1. CASE Fresh
    BY <1>2, <2>1, FirstPulse
  <2>2. CASE ~Fresh
    BY <1>1, <1>2, <1>3, <2>2 DEF RepetitionInv
  <2>3. QED
    BY <2>1, <2>2
<1>6. pulse_count' >= 34 => whole > 0 /\ CmdOf(raw') = button
  <2>1. SUFFICES ASSUME pulse_count' >= 34
                 PROVE  whole > 0 /\ CmdOf(raw') = button
    OBVIOUS
  <2>2. pulse_count >= 34 /\ pulse_count' = pulse_count + 1 /\ pulse_count' # 1
    BY <1>2, <1>4, <1>5, <2>1
  <2>3. ~is_bit_pulse(pulse_count + 1)
    BY <1>2, <2>2 DEF is_bit_pulse
  <2>4. raw' = raw
    BY <1>3, <2>2, <2>3
  <2>5. QED
    BY <1>1, <2>2, <2>4 DEF RepetitionInv
<1>7. pulse_count' < 34 => pulse_count' <= Past'
  BY <1>2, <1>4, <1>5
<1>8. is_message_pulse(pulse_count') => pulse_count' >= 34
  BY <1>4, MessagePulses
<1>9. out' # NoCmd => whole > 0 /\ out' = button
  BY <1>2, <1>6, <1>8
<1>10. ASSUME InStep'
       PROVE  out' = IF Past' = 1 /\ repetition > 1 THEN button ELSE NoCmd
  <2>1. InStep
    BY <1>2, <1>10 DEF InStep
  <2>2. pulse_count' = Past + 33 + 2 * repetition
    BY <1>2, <2>1, ExpectedPulse
  <2>3. is_message_pulse(pulse_count') <=> Past + 1 = 1 /\ repetition > 1
    BY <1>2, <2>2 DEF is_message_pulse
  <2>4. QED
    BY <1>2, <1>6, <1>8, <2>3
<1>11. CmdOf(raw)' = CmdOf(raw')
  BY DEF CmdOf
<1>12. QED
  BY <1>2, <1>6, <1>7, <1>9, <1>10, <1>11 DEF RepetitionInv

LEMMA PulseInv == ServedInTime /\ IrInv /\ isr_pulse => IrInv'
<1> SUFFICES ASSUME ServedInTime, IrInv, isr_pulse
             PROVE  IrInv'
  OBVIOUS
<1>1. RemoteInv
  BY DEF IrInv
<1>2. /\ edge = Past + 2 /\ Past \in Nat /\ Past < Edges /\ Past' = Past + 1
      /\ ~Fresh' /\ (AllServed' <=> AllServed)
      /\ Edges = (IF repetition = 0 THEN 34 ELSE 2) /\ repetition \in Nat
      /\ CCIFG => Elapsed = 16 * timer_ms + 16
      /\ Elapsed \in Nat /\ timer_ms \in Nat /\ pulse_count \in Nat
      /\ Elapsed' = IF CCIFG THEN 16 ELSE 0
      /\ TimerInv' /\ RemoteInv'
      /\ UNCHANGED <<button, repetition, received, edge, wait, whole, Edges, Pause>>
  BY PulseFacts
<1>3. FreshInv'
  BY <1>2 DEF FreshInv
<1>4. MessageInv'
  BY <1>2, MessagePulseInv DEF MessageInv
<1>5. RepetitionInv'
  BY <1>2, RepetitionPulseInv DEF RepetitionInv
<1>6. InStepInv'
  <2>1. SUFFICES ASSUME InStep'
                 PROVE  InStepInv'
    BY DEF InStepInv
  <2>2. AllServed /\ (InStep \/ (repetition = 0 /\ Past = 0))
    BY <1>2, <2>1 DEF InStep
  <2>3. pulse_count' = Past' + (IF repetition' = 0 THEN 0 ELSE 32 + 2 * repetition')
    <3>1. CASE repetition = 0
      BY <1>2, <2>2, <3>1, MessagePulse
    <3>2. CASE repetition > 0
      BY <1>2, <2>2, <3>2, ExpectedPulse
    <3>3. QED
      BY <1>2, <3>1, <3>2
  <2>4. ~ifg' /\ ifg /\ ifg_age \in 0 .. 1 /\ wait \in Nat
        /\ IF edge <= Edges THEN wait + ifg_age = GapAfter(edge - 1) ELSE wait = ifg_age
    BY <1>1 DEF isr_pulse, RemoteInv
  <2>5. Gap' \in Nat /\ Since' = Elapsed' + Gap' - ifg_age
    <3>1. Since' = IF edge <= Edges THEN Elapsed' + wait ELSE Elapsed' - wait
      BY <1>2, <2>4 DEF Since
    <3>2. CASE edge <= Edges
      <4>1. Past' # Edges' /\ Past' # 0 /\ Past' = edge - 1
        BY <1>2, <3>2
      <4>2. Gap' = GapAfter(Past)'
        BY <4>1 DEF Gap
      <4>3. GapAfter(Past)' = GapAfter(edge - 1)
        BY <1>2, <4>1 DEF GapAfter
      <4>4. GapAfter(edge - 1) \in 18 .. 81
        <5>1. edge - 1 \in 1 .. Edges - 1
          BY <1>2, <3>2
        <5>2. QED
          BY <1>1, <5>1, Gaps
      <4>5. QED
        BY <1>2, <2>4, <3>1, <3>2, <4>2, <4>3, <4>4
    <3>3. CASE ~(edge <= Edges)
      <4>1. Past' = Edges'
        BY <1>2, <3>3
      <4>2. Gap' = 0
        BY <4>1 DEF Gap
      <4>3. QED
        BY <1>2, <2>4, <3>1, <3>3, <4>2
    <3>4. QED
      BY <3>2, <3>3
  <2>6. Sharp' => ~CCIFG
    <3>1. SUFFICES ASSUME Sharp', CCIFG
                   PROVE  FALSE
      OBVIOUS
    <3>2. repetition = 0 /\ Past >= 2
      BY <1>2, <3>1 DEF Sharp
    <3>3. InStep
      BY <2>2, <3>2
    <3>4. Gap \in {18, 36}
      <4>1. Past \in 1 .. Edges - 1 /\ Past > 1
        BY <1>2, <3>2
      <4>2. Gap = GapAfter(Past)
        BY <1>2, <4>1 DEF Gap
      <4>3. QED
        BY <1>1, <3>2, <4>1, <4>2, Gaps
    <3>5. \/ Gap - 1 <= Elapsed /\ Elapsed <= Gap + 1
          \/ Gap + 15 <= Elapsed /\ Elapsed <= Gap + 17
      BY <3>3, ExpectedPulse
    <3>6. QED
      BY <1>2, <3>1, <3>4, <3>5
  <2>7. \/ Gap' - 1 <= Since' /\ Since' <= Gap'
        \/ ~Sharp' /\ Gap' + 15 <= Since' /\ Since' <= Gap' + 16
    <3>1. (ifg_age = 0 \/ ifg_age = 1) /\ Gap' \in Nat
      BY <2>4, <2>5
    <3>2. \/ Elapsed' = 0
          \/ Elapsed' = 16 /\ ~Sharp'
      BY <1>2, <2>6
    <3>3. Since' = Elapsed' + Gap' - ifg_age
      BY <2>5
    <3>4. QED
      BY <3>1, <3>2, <3>3
  <2>8. QED
    BY <2>3, <2>7 DEF InStepInv
<1>7. QED
  BY <1>2, <1>3, <1>4, <1>5, <1>6 DEF IrInv

LEMMA IrStepInv == ServedInTime /\ IrInv /\ [IrNext]_irVars => IrInv'
<1> SUFFICES ASSUME ServedInTime, IrInv, [IrNext]_irVars
             PROVE  IrInv'
  OBVIOUS
<1>1. CASE Edge
  BY <1>1, EdgeInv
<1>2. CASE NextFrame
  BY <1>2, NextFrameInv
<1>3. CASE Elapse
  BY <1>3, ElapseInv
<1>4. CASE TimerExpires
  BY <1>4, TimerExpiresInv
<1>5. CASE isr_pulse
  BY <1>5, PulseInv
<1>6. CASE isr_timer_a0
  BY <1>6, TimerIsrInv
<1>7. CASE UNCHANGED irVars
  <2>1. /\ UNCHANGED <<remote, ifg, ifg_age, timer_running, pulse_count, raw, out, whole>>
        /\ UNCHANGED <<CCIFG, ccifg_age, timer_ms, tick_in>>
    BY <1>7 DEF irVars, flags, decoder
  <2>2. TimerInv' /\ Elapsed' = Elapsed
    BY <2>1 DEF IrInv, TimerInv, Elapsed
  <2>3. QED
    BY <2>1, <2>2, TickInv
<1>8. QED
  BY <1>1, <1>2, <1>3, <1>4, <1>5, <1>6, <1>7 DEF IrNext

(* With commands, presses and receptions of any kind, held for any time:   *)
(* as long as an interrupt waits for at most one unit, a message received  *)
(* whole puts its command.                                                 *)
THEOREM MessagesAreDecoded ==
    ASSUME ServedInTime
    PROVE  IrSpec => []DecodesMessages
<1>1. IrInv => DecodesMessages
  <2>1. SUFFICES ASSUME IrInv, repetition = 0, ~ifg, edge = 35, 1 .. 34 \subseteq received
                 PROVE  out = button
    BY DEF DecodesMessages, Served
  <2>2. Past = 34
    BY <2>1 DEF Past
  <2>3. AllServed /\ ~Fresh
    BY <2>1, <2>2 DEF AllServed, Fresh
  <2>4. QED
    BY <2>1, <2>2, <2>3 DEF IrInv, MessageInv
<1>2. QED
  BY <1>1, IrInitInv, IrStepInv, PTL DEF IrSpec

(* Whatever is received of whatever frames, no command is put but the one  *)
(* that is being sent, and only after its message was received whole.      *)
THEOREM OnlySentCommandsArePut ==
    ASSUME ServedInTime
    PROVE  IrSpec => []PutsOnlyWhatIsSent
<1>1. IrInv => PutsOnlyWhatIsSent
  <2>1. SUFFICES ASSUME IrInv, out # NoCmd
                 PROVE  /\ out = button
                        /\ IF repetition = 0 THEN edge = 35 /\ received = 1 .. 34 ELSE whole > 0
    BY DEF PutsOnlyWhatIsSent
  <2>2. RemoteInv /\ FreshInv /\ MessageInv /\ RepetitionInv
    BY <2>1 DEF IrInv
  <2>3. ~Fresh
    BY <2>1, <2>2 DEF FreshInv
  <2>4. CASE repetition = 0
    <3>1. AllServed /\ Past = 34 /\ out = button
      BY <2>1, <2>2, <2>3, <2>4 DEF MessageInv
    <3>2. edge \in 1 .. 35 /\ received \subseteq 1 .. 34
      BY <2>2, <2>4 DEF RemoteInv, Edges
    <3>3. edge = 35
      BY <3>1, <3>2 DEF Past
    <3>4. received = 1 .. 34
      BY <3>1, <3>2 DEF AllServed
    <3>5. QED
      BY <2>4, <3>1, <3>3, <3>4
  <2>5. CASE repetition # 0
    <3>1. repetition > 0
      BY <2>2, <2>5, IrNatAssumption DEF RemoteInv
    <3>2. QED
      BY <2>1, <2>2, <2>5, <3>1 DEF RepetitionInv
  <2>6. QED
    BY <2>4, <2>5
<1>2. QED
  BY <1>1, IrInitInv, IrStepInv, PTL DEF IrSpec

(* A held button repeats its command, for as long as the pulses can be     *)
(* counted in 16 bits: an hour.                                            *)
THEOREM CommandIsRepeated ==
    ASSUME ServedInTime, MaxHeld <= 32750
    PROVE  IrSpec => []RepeatsWhileHeld
<1>1. IrInv => RepeatsWhileHeld
  <2>1. SUFFICES ASSUME IrInv, whole = repetition, repetition > 0
                 PROVE  /\ Served(1) => out = IF repetition = 1 THEN NoCmd ELSE button
                        /\ Served(2) => out = NoCmd
    BY DEF RepeatsWhileHeld, WholeSoFar
  <2>2. repetition \in Nat /\ repetition <= 32750 /\ RepetitionInv
    BY <2>1, IrNatAssumption DEF IrInv, RemoteInv
  <2>3. ASSUME NEW e \in {1, 2}, Served(e)
        PROVE  Past = e /\ InStep
    <3>1. Past = e
      BY <2>3 DEF Served, Past
    <3>2. AllServed
      BY <2>3, <3>1 DEF Served, AllServed
    <3>3. QED
      BY <2>1, <2>2, <3>1, <3>2 DEF InStep
  <2>4. QED
    BY <2>1, <2>2, <2>3 DEF RepetitionInv
<1>2. QED
  BY <1>1, IrInitInv, IrStepInv, PTL DEF IrSpec

=============================================================================
