----------------------------- MODULE UartProofs -----------------------------
(***************************************************************************)
(* The UART keeps its types, transmitter and receiver stay in step, and    *)
(* the UART implements SerialChannel, at every baud rate.                  *)
(***************************************************************************)
EXTENDS UartRefinement, TLAPS

(* The counters' limit is a natural number, whatever the rates are.        *)
LEMMA DelayMaxNat == bit_delay_max \in Nat
  BY UartAssumption DEF bit_delay_max

(* Shifting bits in and out yields registers of the right width.           *)
LEMMA ShiftTypes ==
  ASSUME TypeOK, NEW byte \in Byte
  PROVE  /\ Offset(byte) \in [0 .. 8 -> Bit]
         /\ Shifted \in [0 .. 8 -> Bit]
         /\ Sampled \in Byte
         /\ Value(byte) \in Nat
  <1>1. Offset(byte) \in [0 .. 8 -> Bit]
    BY DEF Offset, Byte, Bit
  <1>2. Shifted \in [0 .. 8 -> Bit]
    BY DEF TypeOK, Shifted, Bit
  <1>3. Sampled \in Byte
    BY DEF TypeOK, Sampled, serial, Byte, Bit
  <1>4. Value(byte) \in Nat
    <2>1. \A i \in 0 .. 7 : byte[i] \in 0 .. 1
      BY DEF Byte, Bit
    <2>2. byte[0] \in Nat /\ byte[1] \in Nat /\ byte[2] \in Nat /\ byte[3] \in Nat
          /\ byte[4] \in Nat /\ byte[5] \in Nat /\ byte[6] \in Nat /\ byte[7] \in Nat
      BY <2>1
    <2> QED BY <2>2 DEF Value
  <1> QED BY <1>1, <1>2, <1>3, <1>4

LEMMA RxSampled == TypeOK => Sampled \in Byte
  BY DEF TypeOK, Sampled, serial, Byte, Bit

(* What is offered to the transmitter is a byte.                           *)
LEMMA OfferedByte ==
  ASSUME TypeOK, NEW tla \in Accesses
  PROVE  next_data(tla) \in Byte
  BY UartAssumption DEF TypeOK, next_data, Access

LEMMA TxTypes ==
  ASSUME TypeOK, NEW tla \in Accesses, TxTick(tla) \/ TxReset
  PROVE  /\ tx_delay' \in 0 .. bit_delay_max /\ tx_count' \in 0 .. tx_bit_count_max
         /\ tx_shift' \in [0 .. 8 -> Bit]
  <1> USE DelayMaxNat DEF tx_bit_count_max, bit_count_done
  <1>1. CASE Accept(tla)
    BY <1>1, OfferedByte, ShiftTypes DEF Accept
  <1>2. CASE NextBit(tla)
    <2>1. Zero \in Byte
      BY DEF Zero, Byte, Bit
    <2>2. Shifted \in [0 .. 8 -> Bit]
      BY <2>1, ShiftTypes
    <2> QED BY <1>2, <2>2 DEF NextBit, TypeOK
  <1>3. CASE Pause
    BY <1>3 DEF Pause, Waiting, TypeOK
  <1>4. CASE Rest(tla)
    BY <1>4 DEF Rest, TypeOK
  <1>5. CASE TxReset
    BY <1>5 DEF TxReset, Ones, Bit
  <1> QED BY <1>1, <1>2, <1>3, <1>4, <1>5 DEF TxTick

LEMMA RxTypes ==
  ASSUME TypeOK, NEW tla \in Accesses, RxTick(tla) \/ RxReset
  PROVE  /\ rx_delay' \in 0 .. bit_delay_max /\ rx_count' \in 0 .. rx_bit_count_max
         /\ rx_shift' \in Byte /\ data_buf' \in Byte
         /\ data_flag' \in Bit /\ checksum' \in 0 .. ChecksumSize - 1
  <1> USE DelayMaxNat DEF rx_bit_count_max
  <1>1. Sampled \in Byte /\ Value(Sampled) \in Nat
    <2>1. Zero \in Byte
      BY DEF Zero, Byte, Bit
    <2>2. Sampled \in Byte
      BY <2>1, ShiftTypes
    <2> QED BY <2>2, ShiftTypes
  <1>2. \A n \in Nat : n % ChecksumSize \in 0 .. ChecksumSize - 1
    BY UartAssumption
  <1>3. CASE RxReset
    BY <1>3, UartAssumption DEF RxReset, TypeOK, Zero, Byte, Bit
  <1>4. CASE RxTick(tla)
    <2>1. /\ rx_delay' \in 0 .. bit_delay_max /\ rx_count' \in 0 .. rx_bit_count_max
          /\ rx_shift' \in Byte
      BY <1>1, <1>4 DEF RxTick, RxWait, RxSample, RxIdle, TypeOK
    <2>2. data_buf' \in Byte /\ data_flag' \in Bit
      BY <1>1, <1>4 DEF RxTick, TypeOK, Flag, Bit
    <2>3. checksum + Value(Sampled) \in Nat
      BY <1>1, UartAssumption DEF TypeOK
    <2>4. checksum' \in 0 .. ChecksumSize - 1
      BY <1>2, <1>4, <2>3 DEF RxTick, TypeOK
    <2> QED BY <2>1, <2>2, <2>4
  <1> QED BY <1>3, <1>4

LEMMA HelloTypes ==
  ASSUME TypeOK, HelloTick \/ HelloReset
  PROVE  /\ hello_state' \in {"WAIT", "SEND", "DONE"}
         /\ cursor' \in 0 .. MessageLen - 1 /\ repeat_msg' \in BOOLEAN
  <1> USE UartAssumption DEF TypeOK
  <1>1. CASE HelloReset
    BY <1>1 DEF HelloReset
  <1>2. CASE HelloTick
    BY <1>2 DEF HelloTick, StartMessage, NextCharacter, EndMessage, HelloWaits
  <1> QED BY <1>1, <1>2

LEMMA AnswerTypes ==
  ASSUME TypeOK, NEW tla \in Accesses, TxAnswer(tla), RxAnswer(tla)
  PROVE  {tx_tld', rx_tld'} \subseteq Answer
  <1>1. Value(data_buf) \in Nat /\ data_flag \in Nat /\ checksum \in Nat
    BY ShiftTypes, UartAssumption DEF TypeOK, Bit
  <1>2. \A d \in Nat : Ack(d) \in Answer
    BY DEF Ack, Answer
  <1>3. NoAnswer \in Answer
    BY DEF NoAnswer, Answer
  <1>4. tx_tld' \in Answer
    BY <1>2, <1>3 DEF TxAnswer
  <1>5. rx_tld' \in Answer
    BY <1>1, <1>2, <1>3 DEF RxAnswer
  <1> QED BY <1>4, <1>5

LEMMA TypeStart == Init => TypeOK
  BY DelayMaxNat, UartAssumption
  DEF Init, TypeOK, tx_bit_count_max, rx_bit_count_max, Ones, Zero, Byte, Bit,
      NoAnswer, Answer

LEMMA TypeStep == TypeOK /\ [Next]_uartVars => TypeOK'
  <1> SUFFICES ASSUME TypeOK, [Next]_uartVars
               PROVE  TypeOK'
    OBVIOUS
  <1>1. ASSUME NEW tla \in Accesses, Tock(tla) \/ Reset(tla)
        PROVE  TypeOK'
    <2>1. /\ TxTick(tla) \/ TxReset
          /\ RxTick(tla) \/ RxReset
          /\ HelloTick \/ HelloReset
          /\ TxAnswer(tla) /\ RxAnswer(tla)
      BY <1>1 DEF Tock, Reset
    <2>2. bit_delay_max' = bit_delay_max
      BY DEF bit_delay_max
    <2> QED
      BY <2>1, <2>2, TxTypes, RxTypes, HelloTypes, AnswerTypes
      DEF TypeOK, tx_bit_count_max, rx_bit_count_max, Answer
  <1>2. CASE UNCHANGED uartVars
    BY <1>2 DEF uartVars, txVars, rxVars, helloVars, TypeOK, bit_delay_max,
                tx_bit_count_max, rx_bit_count_max, Answer
  <1> QED BY <1>1, <1>2 DEF Next

(* The history variables only watch.                                       *)
LEMMA LinkRefines == [LinkNext]_linkVars => [Next]_uartVars
  BY DEF LinkNext, LinkTock, LinkReset, linkVars, Next

(* Every register of the UART stays within its width.                      *)
THEOREM LinkTypes == LinkSpec => []TypeOK
  <1>1. LinkInit => TypeOK
    BY TypeStart DEF LinkInit
  <1>2. TypeOK /\ [LinkNext]_linkVars => TypeOK'
    BY TypeStep, LinkRefines
  <1> QED BY <1>1, <1>2, PTL DEF LinkSpec

----------------------------------------------------------------------------
(* While the transmitter pauses after a frame the line is high, and at the *)
(* beginning of one it is low.                                             *)
LEMMA LineLevel ==
  ASSUME TypeOK, LinkInv
  PROVE  /\ tx_count > 8 => serial = 1
         /\ tx_count = 0 => wire # Nobody /\ serial = 0
  BY DEF TypeOK, LinkInv, Underway, Sent, serial, tx_bit_count_max

(* When the receiver completes a byte, it is the one under way.            *)
LEMMA CompletesWire ==
  ASSUME TypeOK, LinkInv, Completes
  PROVE  /\ wire # Nobody /\ Sampled = wire
         /\ tx_count = 8 /\ tx_delay = 0
  <1> USE DelayMaxNat DEF TypeOK, tx_bit_count_max, rx_bit_count_max, bit_count_done
  <1>1. tx_count = 8 /\ tx_delay = 0 /\ rx_count = 7
    BY DEF LinkInv, InStep, Completes
  <1>2. wire # Nobody /\ wire \in Byte
    BY <1>1 DEF LinkInv, Underway
  <1>3. serial = wire[7]
    BY <1>1, <1>2 DEF LinkInv, Underway, Sent, serial
  <1>4. \A i \in 1 .. 7 : rx_shift[i] = wire[i - 1]
    BY <1>1, <1>2 DEF LinkInv, Underway
  <1>5. \A i \in 0 .. 7 : Sampled[i] = wire[i]
    BY <1>3, <1>4 DEF Sampled
  <1>6. Sampled \in [0 .. 7 -> Bit] /\ wire \in [0 .. 7 -> Bit]
    BY <1>2, RxSampled DEF Byte
  <1> QED BY <1>1, <1>2, <1>5, <1>6

(* One cycle keeps transmitter and receiver in step.                       *)
LEMMA InStepStep ==
  ASSUME TypeOK, LinkInv, NEW tla \in Accesses, Tock(tla)
  PROVE  InStep'
  <1> USE DelayMaxNat, LineLevel
      DEF TypeOK, InStep, tx_bit_count_max, rx_bit_count_max, bit_count_done
  <1>0. InStep /\ bit_delay_max' = bit_delay_max
    BY DEF LinkInv, bit_delay_max
  <1>1. RxWait \/ RxSample \/ RxIdle
    BY DEF Tock, RxTick
  <1>2. CASE Accept(tla)
    BY <1>0, <1>1, <1>2 DEF Accept, Accepts, Waiting, RxWait, RxSample, RxIdle
  <1>3. CASE NextBit(tla)
    BY <1>0, <1>1, <1>3 DEF NextBit, Waiting, RxWait, RxSample, RxIdle
  <1>4. CASE Pause
    BY <1>0, <1>1, <1>4 DEF Pause, Waiting, RxWait, RxSample, RxIdle
  <1>5. CASE Rest(tla)
    BY <1>0, <1>1, <1>5 DEF Rest, Waiting, RxWait, RxSample, RxIdle
  <1> QED BY <1>2, <1>3, <1>4, <1>5 DEF Tock, TxTick

(* What has left the transmitter's shift register is in the receiver's.    *)
LEMMA ReceivedStep ==
  ASSUME TypeOK, LinkInv, NEW tla \in Accesses, Tock(tla),
         wire # Nobody, rx_count' < 8
  PROVE  \A i \in 8 - rx_count' .. 7 : rx_shift'[i] = wire[i - (8 - rx_count')]
  <1> USE DelayMaxNat, LineLevel
      DEF TypeOK, tx_bit_count_max, rx_bit_count_max, bit_count_done
  <1>1. CASE RxWait
    BY <1>1 DEF RxWait, LinkInv, Underway
  <1>2. CASE RxSample
    <2>1. rx_count' = rx_count + 1 /\ rx_count < 7
      BY <1>2 DEF RxSample
    <2>2. tx_count = rx_count + 1
      BY <1>2, <2>1 DEF RxSample, LinkInv, InStep
    <2>3. serial = wire[rx_count]
      BY <2>1, <2>2 DEF serial, LinkInv, Underway, Sent
    <2>4. \A i \in 8 - rx_count .. 7 : rx_shift[i] = wire[i - (8 - rx_count)]
      BY <2>1 DEF LinkInv, Underway
    <2>5. rx_shift' = [i \in 0 .. 7 |-> IF i = 7 THEN serial ELSE rx_shift[i + 1]]
      BY <1>2 DEF RxSample, Sampled
    <2>6. ASSUME NEW i \in 8 - rx_count' .. 7
          PROVE  rx_shift'[i] = wire[i - (8 - rx_count')]
      <3>1. CASE i = 7
        <4>1. i - (8 - rx_count') = rx_count
          BY <2>1, <3>1
        <4> QED BY <2>3, <2>5, <3>1, <4>1
      <3>2. CASE i # 7
        <4>1. i + 1 \in 8 - rx_count .. 7 /\ i \in 0 .. 7
          BY <2>1, <3>2
        <4>2. (i + 1) - (8 - rx_count) = i - (8 - rx_count')
          BY <2>1
        <4> QED BY <2>4, <2>5, <3>2, <4>1, <4>2
      <3> QED BY <3>1, <3>2
    <2> QED BY <2>6
  <1>3. CASE RxIdle
    <2>1. rx_count' = 0
      BY <1>3 DEF RxIdle
    <2> QED BY <2>1
  <1> QED BY <1>1, <1>2, <1>3 DEF Tock, RxTick

LEMMA UnderwayStep ==
  ASSUME TypeOK, LinkInv, NEW tla \in Accesses, LinkTock(tla)
  PROVE  Underway'
  <1> USE DelayMaxNat, LineLevel, NobodyAssumption
      DEF TypeOK, tx_bit_count_max, rx_bit_count_max, bit_count_done
  <1>0. TypeOK' /\ InStep' /\ Tock(tla) /\ bit_delay_max' = bit_delay_max
    BY TypeStep, InStepStep DEF LinkTock, Next, bit_delay_max
  <1>1. CASE Accept(tla)
    <2>1. tx_count' = 0 /\ tx_delay' = 0 /\ rx_count' = 9 /\ wire' = next_data(tla)
      BY <1>0, <1>1 DEF Accept, LinkTock, InStep
    <2>2. wire' \in Byte /\ tx_shift' = Offset(wire')
      BY <1>1, <2>1, OfferedByte DEF Accept
    <2>3. wire' # Nobody
      BY <2>2
    <2>4. \A i \in 0 .. 8 : tx_shift'[i] = IF i = 0 THEN 0 ELSE wire'[i - 1]
      BY <2>2 DEF Offset
    <2>5. \A i \in 0 .. 8 - tx_count' : tx_shift'[i] = Sent(i)'
      BY <2>1, <2>4 DEF Sent
    <2> QED BY <2>1, <2>2, <2>3, <2>5 DEF Underway
  <1>2. CASE ~Accept(tla)
    <2>1. ~Accepts(tla) /\ (NextBit(tla) \/ Pause \/ Rest(tla))
      BY <1>0, <1>2 DEF Tock, TxTick, NextBit, Pause, Rest, Accepts
    <2>2. wire' = IF Completes THEN Nobody ELSE wire
      BY <2>1 DEF LinkTock
    <2>3. \A i \in 0 .. 8 : tx_count' + i > 8 => tx_shift'[i] = 1
      <3>1. CASE NextBit(tla)
        BY <3>1 DEF NextBit, Shifted, LinkInv, Underway
      <3>2. CASE Pause \/ Rest(tla)
        BY <3>2 DEF Pause, Rest, LinkInv, Underway
      <3> QED BY <2>1, <3>1, <3>2
    <2>4. wire # Nobody => \A i \in 0 .. 8 - tx_count' : tx_shift'[i] =
            IF tx_count' + i = 0 THEN 0 ELSE wire[tx_count' + i - 1]
      <3>1. CASE NextBit(tla)
        BY <3>1 DEF NextBit, Shifted, LinkInv, Underway, Sent
      <3>2. CASE Pause \/ Rest(tla)
        BY <3>2 DEF Pause, Rest, LinkInv, Underway, Sent
      <3> QED BY <2>1, <3>1, <3>2
    <2>5. wire' = Nobody <=> tx_count' > 8 \/ (tx_count' = 8 /\ rx_count' = 8)
      <3>1. RxWait \/ RxSample \/ RxIdle
        BY <1>0 DEF Tock, RxTick
      <3>2. wire = Nobody <=> tx_count > 8 \/ (tx_count = 8 /\ rx_count = 8)
        BY DEF LinkInv, Underway
      <3>3. InStep
        BY DEF LinkInv
      <3>4. Completes <=> tx_count = 8 /\ tx_delay = 0 /\ rx_count = 7
        BY <3>3 DEF InStep, Completes
      <3>5. CASE NextBit(tla)
        BY <1>0, <2>2, <3>1, <3>2, <3>3, <3>4, <3>5
        DEF NextBit, Waiting, InStep, RxWait, RxSample, RxIdle
      <3>6. CASE Pause
        BY <1>0, <2>2, <3>1, <3>2, <3>3, <3>4, <3>6
        DEF Pause, Waiting, InStep, RxWait, RxSample, RxIdle
      <3>7. CASE Rest(tla)
        BY <1>0, <2>2, <3>1, <3>2, <3>3, <3>4, <3>7 DEF Rest
      <3> QED BY <2>1, <3>5, <3>6, <3>7
    <2>6. wire' # Nobody => wire' = wire /\ wire \in Byte /\ wire # Nobody
      BY <2>2 DEF LinkInv, Underway
    <2>7. wire' # Nobody /\ rx_count' < 8 =>
            \A i \in 8 - rx_count' .. 7 : rx_shift'[i] = wire'[i - (8 - rx_count')]
      BY <1>0, <2>6, ReceivedStep
    <2> QED BY <2>3, <2>4, <2>5, <2>6, <2>7 DEF Underway, Sent
  <1> QED BY <1>1, <1>2

LEMMA EagerStep ==
  ASSUME TypeOK, LinkInv, NEW tla \in Accesses, Tock(tla)
  PROVE  Eager'
  <1> USE DelayMaxNat
      DEF TypeOK, Eager, idle, tx_bit_count_max, bit_count_done, Waiting
  <1>0. Eager /\ bit_delay_max' = bit_delay_max /\ TxTick(tla) /\ HelloTick
    BY DEF LinkInv, bit_delay_max, Tock
  <1>1. hello_state' = "SEND" => hello_state = "SEND" \/ idle
    BY <1>0 DEF HelloTick, StartMessage, NextCharacter, EndMessage, HelloWaits
  <1>2. CASE Accept(tla)
    BY <1>2 DEF Accept
  <1>3. CASE NextBit(tla)
    BY <1>0, <1>1, <1>3 DEF NextBit, Accepts, next_req
  <1>4. CASE Pause
    BY <1>0, <1>1, <1>4 DEF Pause
  <1>5. CASE Rest(tla)
    BY <1>0, <1>1, <1>5 DEF Rest
  <1> QED BY <1>0, <1>2, <1>3, <1>4, <1>5 DEF TxTick

LEMMA RewoundStep ==
  ASSUME LinkInv, NEW tla, Tock(tla)
  PROVE  Rewound'
  BY DEF LinkInv, Rewound, Tock, HelloTick, StartMessage, NextCharacter, EndMessage, HelloWaits

LEMMA LinkInvStart == LinkInit => LinkInv
  BY DelayMaxNat, NobodyAssumption
  DEF LinkInit, Init, LinkInv, InStep, Underway, Eager, Rewound, Ones, tx_bit_count_max,
      rx_bit_count_max, bit_count_done

LEMMA LinkInvStep == TypeOK /\ LinkInv /\ [LinkNext]_linkVars => LinkInv'
  <1> SUFFICES ASSUME TypeOK, LinkInv, [LinkNext]_linkVars
               PROVE  LinkInv'
    OBVIOUS
  <1>0. bit_delay_max' = bit_delay_max
    BY DEF bit_delay_max
  <1>1. ASSUME NEW tla \in Accesses, LinkTock(tla)
        PROVE  LinkInv'
    BY <1>1, InStepStep, UnderwayStep, EagerStep, RewoundStep DEF LinkTock, LinkInv
  <1>2. ASSUME NEW tla \in Accesses, LinkReset(tla)
        PROVE  LinkInv'
    BY <1>0, <1>2, DelayMaxNat, NobodyAssumption
    DEF LinkReset, Reset, TxReset, RxReset, HelloReset, LinkInv, InStep, Underway,
        Eager, Rewound, Ones,
        tx_bit_count_max, rx_bit_count_max, bit_count_done
  <1>3. CASE UNCHANGED linkVars
    BY <1>0, <1>3
    DEF linkVars, uartVars, txVars, rxVars, helloVars, LinkInv, InStep, Underway, Sent, Eager,
        Rewound, idle
  <1> QED BY <1>1, <1>2, <1>3 DEF LinkNext

(* Transmitter and receiver never fall out of step, whatever the ratio of  *)
(* clock and baud rate and whatever the core does on the bus.              *)
THEOREM LinkInvariant == LinkSpec => []LinkInv
  <1>1. LinkInit => TypeOK /\ LinkInv
    BY TypeStart, LinkInvStart DEF LinkInit
  <1>2. TypeOK /\ LinkInv /\ [LinkNext]_linkVars => (TypeOK /\ LinkInv)'
    BY TypeStep, LinkRefines, LinkInvStep
  <1> QED BY <1>1, <1>2, PTL DEF LinkSpec

----------------------------------------------------------------------------
(* The answer on the bus is the byte in the mailbox.                       *)
LEMMA ReadAnswers ==
  ASSUME NEW tla \in Accesses, RxAnswer(tla), asked' = Consumes(tla)
  PROVE  IF Consumes(tla) THEN Channel!Read ELSE Channel!NoRead
  <1>1. CASE Consumes(tla)
    <2>1. rx_tld' = Ack(Value(data_buf))
      BY <1>1 DEF RxAnswer, Consumes
    <2> QED BY <1>1, <2>1 DEF Channel!Read, Ack
  <1>2. CASE ~Consumes(tla)
    BY <1>2 DEF Channel!NoRead
  <1> QED BY <1>1, <1>2

LEMMA ChannelStart == LinkInit => Channel!ChannelInit
  BY DEF LinkInit, Init, Channel!ChannelInit, Zero, Byte, Bit

LEMMA ChannelStep ==
  TypeOK /\ LinkInv /\ [LinkNext]_linkVars
    => [Channel!ChannelNext]_(Channel!channelVars)
  <1> SUFFICES ASSUME TypeOK, LinkInv, [LinkNext]_linkVars
               PROVE  [Channel!ChannelNext]_(Channel!channelVars)
    OBVIOUS
  <1>1. ASSUME NEW tla \in Accesses, LinkTock(tla)
        PROVE  Channel!ChannelNext
    <2>1. IF Consumes(tla) THEN Channel!Read ELSE Channel!NoRead
      BY <1>1, ReadAnswers DEF LinkTock, Tock
    <2>2. CASE Completes
      <3>1. ~Accepts(tla) /\ wire # Nobody /\ Sampled = wire
        BY <2>2, CompletesWire DEF Accepts, bit_count_done
      <3>2. Channel!Arrive /\ data_flag' = 1
        BY <1>1, <2>2, <3>1 DEF LinkTock, Tock, RxTick, Flag, Channel!Arrive
      <3> QED BY <2>1, <3>2 DEF Channel!Arrival, Channel!ChannelNext
    <2>3. CASE ~Completes
      <3>1. data_buf' = data_buf /\ checksum' = checksum /\ data_flag' = Flag(tla)
        BY <1>1, <2>3 DEF LinkTock, Tock, RxTick
      <3>2. Channel!Send \/ Channel!Carry
        <4>1. CASE Accepts(tla)
          <5>1. wire = Nobody
            BY <4>1 DEF TypeOK, Accepts, LinkInv, Underway, bit_count_done, tx_bit_count_max
          <5>2. wire' \in Byte
            BY <1>1, <4>1, OfferedByte DEF LinkTock
          <5> QED BY <3>1, <5>1, <5>2 DEF Channel!Send
        <4>2. CASE ~Accepts(tla)
          BY <1>1, <2>3, <3>1, <4>2 DEF LinkTock, Channel!Carry
        <4> QED BY <4>1, <4>2
      <3>3. (Channel!Read /\ data_flag' = 0) \/ (Channel!NoRead /\ UNCHANGED data_flag)
        BY <2>1, <2>3, <3>1 DEF Flag
      <3> QED BY <3>2, <3>3 DEF Channel!NoArrival, Channel!ChannelNext
    <2> QED BY <2>2, <2>3
  <1>2. ASSUME NEW tla \in Accesses, LinkReset(tla)
        PROVE  Channel!ChannelNext
    <2>1. IF Consumes(tla) THEN Channel!Read ELSE Channel!NoRead
      BY <1>2, ReadAnswers DEF LinkReset, Reset
    <2>2. Channel!Restart
      BY <1>2, <2>1 DEF LinkReset, Reset, RxReset, Channel!Restart
    <2> QED BY <2>2 DEF Channel!ChannelNext
  <1>3. CASE UNCHANGED linkVars
    BY <1>3 DEF linkVars, uartVars, rxVars, Channel!channelVars
  <1> QED BY <1>1, <1>2, <1>3 DEF LinkNext

(* The UART implements the channel: every byte arrives as it was sent, for *)
(* every ratio of clock and baud rate, every message and every sequence of *)
(* bus accesses and resets.                                                *)
THEOREM UartImplementsChannel == LinkSpec => ImplementsChannel
  <1>1. LinkInit => TypeOK /\ LinkInv /\ Channel!ChannelInit
    BY TypeStart, LinkInvStart, ChannelStart DEF LinkInit
  <1>2. TypeOK /\ LinkInv /\ [LinkNext]_linkVars
          => (TypeOK /\ LinkInv)' /\ [Channel!ChannelNext]_(Channel!channelVars)
    BY TypeStep, LinkRefines, LinkInvStep, ChannelStep
  <1> QED BY <1>1, <1>2, PTL DEF LinkSpec, ImplementsChannel, Channel!ChannelSpec

----------------------------------------------------------------------------
(* No character of the message is passed over, whatever else the core      *)
(* sends in between: the client is never told that the transmitter is      *)
(* ready in a cycle in which it takes nothing.                             *)
THEOREM NoCharacterPassedOver == LinkSpec => CharacterTaken
  <1> DEFINE P == hello_state = "SEND" /\ ready /\ hello_state' # "WAIT" =>
                    tx_count' = 0 /\ (tx_shift' = Offset(Message[cursor]) \/ tx_tld' = Ack(0))
  <1>1. TypeOK /\ LinkInv /\ [LinkNext]_linkVars => [P]_linkVars
    <2> SUFFICES ASSUME TypeOK, LinkInv, LinkNext, hello_state = "SEND", ready,
                        hello_state' # "WAIT"
                 PROVE  tx_count' = 0 /\ (tx_shift' = Offset(Message[cursor]) \/ tx_tld' = Ack(0))
      OBVIOUS
    <2>1. PICK tla \in Accesses : Tock(tla)
      BY DEF LinkNext, LinkTock, LinkReset, Reset, HelloReset
    <2>2. Accepts(tla)
      BY DelayMaxNat
      DEF LinkInv, Eager, ready, idle, Accepts, Waiting, next_req, TypeOK,
          bit_count_done, tx_bit_count_max
    <2>3. Accept(tla)
      BY <2>1, <2>2 DEF Tock, TxTick, NextBit, Pause, Rest, Accepts
    <2>4. CASE StoresByte(tla)
      BY <2>1, <2>3, <2>4 DEF Accept, Tock, TxAnswer, StoresByte
    <2>5. CASE ~StoresByte(tla)
      BY <2>3, <2>5 DEF Accept, next_data
    <2> QED BY <2>3, <2>4, <2>5 DEF Accept
  <1>2. LinkInit => TypeOK /\ LinkInv
    BY TypeStart, LinkInvStart DEF LinkInit
  <1>3. TypeOK /\ LinkInv /\ [LinkNext]_linkVars => (TypeOK /\ LinkInv)'
    BY TypeStep, LinkRefines, LinkInvStep
  <1> QED BY <1>1, <1>2, <1>3, PTL DEF LinkSpec, CharacterTaken

----------------------------------------------------------------------------
(* A cycle that ends no bit, or ends one, is one cycle less to wait for.   *)
LEMMA BitPasses ==
  ASSUME TypeOK, NEW tla, NextBit(tla) \/ Pause, NEW n \in Nat
  PROVE  EndOfBit(n)' = EndOfBit(n) - 1 /\ EndOfBit(n) \in Int
  <1>1. /\ bit_delay_max \in Nat /\ bit_delay_max' = bit_delay_max
        /\ tx_count \in Nat /\ tx_delay \in 0 .. bit_delay_max
    BY DelayMaxNat DEF TypeOK, bit_delay_max
  <1> DEFINE b == BitTime
  <1>2. b \in Nat /\ b = bit_delay_max + 1 /\ b' = b
    BY <1>1 DEF BitTime
  <1> HIDE DEF b
  <1>3. /\ EndOfBit(n) = (n - tx_count) * b + bit_delay_max - tx_delay
        /\ EndOfBit(n)' = (n - tx_count') * b + bit_delay_max - tx_delay'
    BY <1>1, <1>2 DEF EndOfBit, b
  <1>4. (n - tx_count) * b \in Int
    BY <1>1, <1>2
  <1>5. CASE NextBit(tla)
    <2>1. tx_count' = tx_count + 1 /\ tx_delay' = 0 /\ tx_delay = bit_delay_max
      BY <1>1, <1>5 DEF NextBit, Waiting
    <2>2. (n - (tx_count + 1)) * b = (n - tx_count) * b - b
      BY <1>1, <1>2
    <2> QED
      BY <1>1, <1>2, <1>3, <1>4, <2>1, <2>2
  <1>6. CASE Pause
    <2>1. tx_count' = tx_count /\ tx_delay' = tx_delay + 1
      BY <1>6 DEF Pause
    <2> QED
      BY <1>1, <1>3, <1>4, <2>1
  <1> QED
    BY <1>3, <1>4, <1>1, <1>5, <1>6

(* At the end of a bit the wait for it is over; before it, it is not.      *)
LEMMA BitEnds ==
  ASSUME TypeOK, NEW n \in Nat
  PROVE  /\ tx_count = n /\ tx_delay = bit_delay_max => EndOfBit(n) = 0
         /\ tx_count <= n => EndOfBit(n) \in Nat
         /\ tx_count <= n /\ ~(tx_count = n /\ tx_delay = bit_delay_max) => EndOfBit(n) > 0
  <1>1. /\ bit_delay_max \in Nat /\ tx_count \in Nat /\ tx_delay \in 0 .. bit_delay_max
        /\ BitTime \in Nat
    BY DelayMaxNat DEF TypeOK, BitTime
  <1>2. ASSUME tx_count <= n PROVE (n - tx_count) * BitTime \in Nat
    <2>1. n - tx_count \in Nat
      BY <1>1, <1>2
    <2> QED
      BY <1>1, <2>1
  <1>3. 0 * BitTime = 0
    BY <1>1
  <1>4. ASSUME tx_count < n PROVE (n - tx_count) * BitTime > 0
    <2>1. n - tx_count - 1 \in Nat /\ BitTime > 0
      BY <1>1, <1>4 DEF BitTime
    <2>2. (n - tx_count - 1) * BitTime \in Nat
      BY <1>1, <2>1
    <2>3. (n - tx_count) * BitTime = (n - tx_count - 1) * BitTime + BitTime
      BY <1>1
    <2> QED
      BY <1>1, <2>1, <2>2, <2>3
  <1>5. tx_count <= n => tx_count = n \/ tx_count < n
    BY <1>1
  <1> QED
    BY <1>1, <1>2, <1>3, <1>4, <1>5 DEF EndOfBit

(* What is left of the message after the character under the cursor.       *)
LEMMA FramesLeft ==
  ASSUME TypeOK
  PROVE  /\ FramesAfter \in Nat
         /\ cursor = MessageLen - 1 => FramesAfter = 0
         /\ cursor' = cursor => FramesAfter' = FramesAfter
         /\ cursor' = cursor + 1 => FramesAfter' = FramesAfter - FrameTime
         /\ FrameTime \in Nat /\ FrameTime = 11 * BitTime
  <1> DEFINE f == FrameTime
             k == MessageLen - 1 - cursor
  <1>1. bit_delay_max \in Nat /\ bit_delay_max' = bit_delay_max
    BY DelayMaxNat DEF bit_delay_max
  <1>2. f \in Nat /\ f = 11 * BitTime /\ f' = f
    BY <1>1 DEF FrameTime, BitTime, bit_count_done
  <1>3. k \in Nat /\ MessageLen \in Nat /\ cursor \in Nat
    BY UartAssumption DEF TypeOK
  <1> HIDE DEF f
  <1>4. FramesAfter = k * f /\ FramesAfter' = (MessageLen - 1 - cursor') * f
    BY <1>2 DEF FramesAfter, f
  <1>5. (MessageLen - 1 - (cursor + 1)) * f = k * f - f
    BY <1>2, <1>3
  <1>6. k * f \in Nat /\ 0 * f = 0
    BY <1>2, <1>3
  <1>7. cursor = MessageLen - 1 => k = 0
    BY <1>3
  <1> HIDE DEF k
  <1>8. cursor' = cursor => FramesAfter' = FramesAfter
    BY <1>4 DEF k
  <1> QED
    BY <1>2, <1>4, <1>5, <1>6, <1>7, <1>8 DEF f

LEMMA WaitOnTime ==
  ASSUME TypeOK, LinkInv, NEW tla, ~StoresByte(tla), Tock(tla), hello_state = "WAIT"
  PROVE  /\ CyclesLeft \in Nat /\ CyclesLeft > 1 /\ CyclesLeft' = CyclesLeft - 1
         /\ hello_state' # "DONE"
  <1>1. TxTick(tla) /\ ~Accepts(tla) /\ cursor' = cursor
    BY DEF Tock, HelloTick, StartMessage, NextCharacter, EndMessage, HelloWaits, Accepts, next_req
  <1>2. FramesAfter \in Nat /\ FramesAfter' = FramesAfter
    BY <1>1, FramesLeft
  <1>3. EndOfBit(tx_bit_count_max) \in Nat /\ tx_bit_count_max \in Nat
    BY BitEnds DEF TypeOK, tx_bit_count_max
  <1>4. CyclesLeft = EndOfBit(tx_bit_count_max) + FramesAfter + 2
    BY DEF CyclesLeft
  <1>5. CASE idle
    <2>1. hello_state' = "SEND"
      BY <1>5 DEF Tock, HelloTick, StartMessage, NextCharacter, EndMessage, HelloWaits
    <2>2. EndOfBit(tx_bit_count_max) = 0
      BY <1>3, <1>5, BitEnds DEF idle
    <2>3. idle'
      BY <1>1, <1>5, DelayMaxNat
         DEF TxTick, Accept, NextBit, Pause, Rest, Waiting, idle, bit_delay_max, tx_bit_count_max
    <2>4. CyclesLeft' = FramesAfter' + 1
      BY <1>2, <2>1, <2>3 DEF CyclesLeft
    <2> QED
      BY <1>2, <1>4, <2>1, <2>2, <2>4
  <1>6. CASE ~idle
    <2>1. hello_state' = "WAIT"
      BY <1>6 DEF Tock, HelloTick, StartMessage, NextCharacter, EndMessage, HelloWaits
    <2>2. NextBit(tla) \/ Pause
      BY <1>1, <1>6, DelayMaxNat
         DEF TxTick, Accept, Rest, Waiting, idle, TypeOK
    <2>3. EndOfBit(tx_bit_count_max)' = EndOfBit(tx_bit_count_max) - 1
      BY <1>3, <2>2, BitPasses DEF tx_bit_count_max
    <2>4. CyclesLeft' = EndOfBit(tx_bit_count_max)' + FramesAfter' + 2
      BY <2>1 DEF CyclesLeft
    <2> QED
      BY <1>2, <1>3, <1>4, <2>1, <2>3, <2>4
  <1> QED
    BY <1>5, <1>6

LEMMA SendOnTime ==
  ASSUME TypeOK, LinkInv, NEW tla, ~StoresByte(tla), Tock(tla), hello_state = "SEND"
  PROVE  /\ CyclesLeft > 0 /\ CyclesLeft' = CyclesLeft - 1
         /\ hello_state' = "DONE" <=> CyclesLeft' = 0
  <1> DEFINE wait == IF idle THEN 0 ELSE EndOfBit(bit_count_done)
  <1>1. CyclesLeft = wait + FramesAfter + 1
    BY DEF CyclesLeft
  <1>2. tx_count <= bit_count_done \/ idle
    BY DEF LinkInv, Eager
  <1>3. wait \in Nat
    BY <1>2, BitEnds DEF bit_count_done
  <1>4. FramesAfter \in Nat
    BY FramesLeft
  <1>5. CASE ready
    <2>1. wait = 0
      BY <1>2, <1>5, BitEnds DEF ready, bit_count_done, idle, tx_bit_count_max, TypeOK
    <2>2. Accept(tla)
      <3>1. Accepts(tla)
        BY <1>2, <1>5, DelayMaxNat
           DEF ready, idle, Accepts, Waiting, next_req, TypeOK, bit_count_done, tx_bit_count_max
      <3> QED
        BY <3>1 DEF Tock, TxTick, NextBit, Pause, Rest, Accepts
    <2>3. CASE cursor = MessageLen - 1
      <3>1. hello_state' = "DONE"
        BY <1>5, <2>3 DEF Tock, HelloTick, StartMessage, NextCharacter, EndMessage, HelloWaits
      <3>2. CyclesLeft' = 0
        BY <3>1 DEF CyclesLeft
      <3>3. FramesAfter = 0
        BY <2>3, FramesLeft
      <3> QED
        BY <1>1, <2>1, <3>1, <3>2, <3>3
    <2>4. CASE cursor # MessageLen - 1
      <3>1. hello_state' = "SEND" /\ cursor' = cursor + 1
        BY <1>5, <2>4 DEF Tock, HelloTick, StartMessage, NextCharacter, EndMessage, HelloWaits
      <3>2. ~idle' /\ tx_count' = 0 /\ tx_delay' = 0
        BY <2>2 DEF Accept, idle, tx_bit_count_max
      <3>3. EndOfBit(bit_count_done)' = FrameTime - 1 /\ FrameTime \in Nat
        <4>1. bit_delay_max \in Nat /\ bit_delay_max' = bit_delay_max
          BY DelayMaxNat DEF bit_delay_max
        <4>2. BitTime = bit_delay_max + 1 /\ BitTime' = BitTime
          BY <4>1 DEF BitTime
        <4>3. EndOfBit(bit_count_done)' = 10 * BitTime + bit_delay_max
          BY <3>2, <4>1, <4>2 DEF EndOfBit, bit_count_done
        <4>4. FrameTime = 11 * BitTime
          BY FramesLeft
        <4> QED
          BY <4>1, <4>2, <4>3, <4>4
      <3>4. FramesAfter' = FramesAfter - FrameTime
        BY <3>1, FramesLeft
      <3>5. CyclesLeft' = EndOfBit(bit_count_done)' + FramesAfter' + 1
        BY <3>1, <3>2 DEF CyclesLeft
      <3>6. FramesAfter' \in Nat
        <4>1. MessageLen \in Nat /\ cursor \in 0 .. MessageLen - 1
          BY UartAssumption DEF TypeOK
        <4>2. MessageLen - 1 - (cursor + 1) \in Nat
          BY <2>4, <4>1
        <4>3. MessageLen - 1 - cursor' \in Nat
          BY <3>1, <4>2
        <4>4. FrameTime' = FrameTime
          BY DEF FrameTime, BitTime, bit_delay_max, bit_count_done
        <4>5. (MessageLen - 1 - cursor') * FrameTime \in Nat
          BY <3>3, <4>3
        <4> QED
          BY <4>4, <4>5 DEF FramesAfter
      <3>7. FrameTime > 0
        BY FramesLeft, DelayMaxNat DEF BitTime
      <3> QED
        BY <1>1, <1>4, <2>1, <3>1, <3>3, <3>4, <3>5, <3>6, <3>7
    <2> QED
      BY <2>3, <2>4
  <1>6. CASE ~ready
    <2>1. hello_state' = "SEND" /\ cursor' = cursor
      BY <1>6 DEF Tock, HelloTick, StartMessage, NextCharacter, EndMessage, HelloWaits
    <2>2. ~idle /\ tx_count <= bit_count_done /\ ~Accepts(tla)
      BY <1>2, <1>6, DelayMaxNat
         DEF ready, idle, Accepts, Waiting, TypeOK, bit_count_done, tx_bit_count_max
    <2>3. NextBit(tla) \/ Pause
      BY <2>2 DEF Tock, TxTick, Accept, Rest, bit_count_done, tx_bit_count_max
    <2>4. ~idle' /\ EndOfBit(bit_count_done) >= 1
      <3>1. tx_count' <= bit_count_done
        BY <1>6, <2>2, <2>3, DelayMaxNat
           DEF NextBit, Pause, Waiting, ready, TypeOK, bit_count_done
      <3>2. EndOfBit(bit_count_done) > 0 /\ EndOfBit(bit_count_done) \in Nat
        BY <1>6, <2>2, BitEnds DEF ready, bit_count_done
      <3> QED
        BY <3>1, <3>2 DEF idle, tx_bit_count_max, bit_count_done
    <2>5. EndOfBit(bit_count_done)' = EndOfBit(bit_count_done) - 1
      BY <2>3, BitPasses DEF bit_count_done
    <2>6. FramesAfter' = FramesAfter
      BY <2>1, FramesLeft
    <2>7. CyclesLeft' = EndOfBit(bit_count_done)' + FramesAfter' + 1
      BY <2>1, <2>4 DEF CyclesLeft
    <2> QED
      BY <1>1, <1>3, <1>4, <2>1, <2>2, <2>4, <2>5, <2>6, <2>7
  <1> QED
    BY <1>5, <1>6

(* Without stores and resets the message ends after exactly CyclesLeft     *)
(* cycles, for every baud rate and every message.                          *)
THEOREM MessageIsOnTime == LinkSpec => MessageOnTime
  <1> DEFINE P == Quiet /\ hello_state # "DONE" =>
                    /\ CyclesLeft > 0 /\ CyclesLeft' = CyclesLeft - 1
                    /\ hello_state' = "DONE" <=> CyclesLeft' = 0
  <1>1. TypeOK /\ LinkInv /\ [LinkNext]_linkVars => [P]_linkVars
    <2> SUFFICES ASSUME TypeOK, LinkInv, NEW tla \in Accesses, ~StoresByte(tla), Tock(tla),
                        hello_state # "DONE"
                 PROVE  /\ CyclesLeft > 0 /\ CyclesLeft' = CyclesLeft - 1
                        /\ hello_state' = "DONE" <=> CyclesLeft' = 0
      BY DEF Quiet, LinkTock
    <2>1. CASE hello_state = "WAIT"
      BY <2>1, WaitOnTime
    <2>2. CASE hello_state = "SEND"
      BY <2>2, SendOnTime
    <2> QED
      BY <2>1, <2>2 DEF TypeOK
  <1>2. LinkInit => TypeOK /\ LinkInv
    BY TypeStart, LinkInvStart DEF LinkInit
  <1>3. TypeOK /\ LinkInv /\ [LinkNext]_linkVars => (TypeOK /\ LinkInv)'
    BY TypeStep, LinkRefines, LinkInvStep
  <1> QED BY <1>1, <1>2, <1>3, PTL DEF LinkSpec, MessageOnTime

----------------------------------------------------------------------------
(* What can happen on the line in a cycle without a store: the client's    *)
(* character is taken, a byte arrives, or nothing.                         *)
LEMMA QuietCases ==
  ASSUME TypeOK, LinkInv, NEW tla \in Accesses, ~StoresByte(tla), LinkTock(tla)
  PROVE  /\ Accepts(tla) =>
              /\ hello_state = "SEND" /\ ready /\ ~Completes /\ wire = Nobody
              /\ wire' = Message[cursor]
         /\ Completes => wire # Nobody /\ Sampled = wire /\ wire' = Nobody /\ ~ready
         /\ ~Accepts(tla) /\ ~Completes => wire' = wire
         /\ hello_state = "SEND" /\ ready => Accepts(tla)
  <1> USE DelayMaxNat DEF TypeOK, tx_bit_count_max, rx_bit_count_max, bit_count_done
  <1>1. ASSUME Accepts(tla)
        PROVE  /\ hello_state = "SEND" /\ ready /\ ~Completes /\ wire = Nobody
               /\ wire' = Message[cursor]
    <2>1. hello_state = "SEND" /\ tx_count >= 10 /\ tx_delay = bit_delay_max
      BY <1>1 DEF Accepts, next_req, Waiting
    <2>2. ready /\ wire = Nobody
      BY <2>1 DEF ready, LinkInv, Underway
    <2>3. ~Completes
      BY <2>1, CompletesWire
    <2> QED BY <1>1, <2>1, <2>2, <2>3 DEF LinkTock, next_data
  <1>2. ASSUME Completes
        PROVE  wire # Nobody /\ Sampled = wire /\ wire' = Nobody /\ ~ready
    <2>1. wire # Nobody /\ Sampled = wire /\ tx_count = 8
      BY <1>2, CompletesWire
    <2> QED BY <1>2, <2>1 DEF LinkTock, Accepts, ready
  <1>3. hello_state = "SEND" /\ ready => Accepts(tla)
    BY DEF LinkInv, Eager, ready, idle, Accepts, Waiting, next_req
  <1> QED BY <1>1, <1>2, <1>3 DEF LinkTock

LEMMA InOrderStep ==
  ASSUME TypeOK, LinkInv, Quiet, OnMessage
  PROVE  /\ OnMessage' /\ (HearsNothing \/ HearsNext)
         /\ IF wire # Nobody /\ wire' # wire THEN wire = Message[Upcoming] /\ HearsNext
            ELSE HearsNothing
  <1> USE DEF Upcoming
  <1>1. PICK tla \in Accesses : ~StoresByte(tla) /\ LinkTock(tla)
    BY DEF Quiet
  <1>2. /\ MessageLen \in Nat \ {0} /\ cursor \in 0 .. MessageLen - 1
        /\ Message \in [0 .. MessageLen - 1 -> Byte]
        /\ hello_state \in {"WAIT", "SEND", "DONE"}
    BY UartAssumption DEF TypeOK
  <1>3. HelloTick /\ RxTick(tla)
    BY <1>1 DEF LinkTock, Tock
  <1>4. hello_state = "WAIT" => cursor = 0
    BY DEF LinkInv, Rewound
  <1>5. CASE Accepts(tla)
    <2>1. /\ hello_state = "SEND" /\ ready /\ ~Completes /\ wire = Nobody
          /\ wire' = Message[cursor]
      BY <1>1, <1>5, QuietCases
    <2>2. wire' # Nobody
      BY <1>2, <2>1, NobodyAssumption
    <2>3. IF cursor = MessageLen - 1 THEN hello_state' = "DONE"
          ELSE hello_state' = "SEND" /\ cursor' = cursor + 1
      BY <1>3, <2>1 DEF HelloTick, StartMessage, NextCharacter, EndMessage, HelloWaits
    <2>4. Upcoming' = cursor /\ Upcoming = cursor
      BY <1>2, <2>1, <2>2, <2>3
    <2>5. UNCHANGED <<data_buf, checksum>>
      BY <1>3, <2>1 DEF RxTick
    <2> QED BY <1>2, <2>1, <2>2, <2>4, <2>5 DEF OnMessage, HearsNothing
  <1>6. CASE Completes
    <2>1. wire # Nobody /\ Sampled = wire /\ wire' = Nobody /\ ~ready
      BY <1>1, <1>6, QuietCases
    <2>2. Upcoming \in 0 .. MessageLen - 1 /\ wire = Message[Upcoming]
      BY <2>1 DEF OnMessage
    <2>3. data_buf' = wire /\ checksum' = (checksum + Value(wire)) % ChecksumSize
      BY <1>3, <1>6, <2>1 DEF RxTick
    <2>4. ~idle
      BY <2>1 DEF idle, ready, tx_bit_count_max, bit_count_done
    <2>5. Upcoming' = (Upcoming + 1) % MessageLen
      <3>1. CASE hello_state = "SEND"
        <4>1. hello_state' = "SEND" /\ cursor' = cursor
          BY <1>3, <2>1, <3>1 DEF HelloTick, StartMessage, NextCharacter, EndMessage, HelloWaits
        <4>2. Upcoming = cursor - 1 /\ Upcoming' = cursor
          BY <2>1, <3>1, <4>1
        <4> QED BY <1>2, <4>2
      <3>2. CASE hello_state # "SEND"
        <4>1. hello_state' # "SEND"
          BY <1>3, <2>4, <3>2 DEF HelloTick, StartMessage, NextCharacter, EndMessage, HelloWaits
        <4>2. Upcoming = MessageLen - 1 /\ Upcoming' = 0
          BY <2>1, <3>2, <4>1
        <4> QED BY <1>2, <4>2
      <3> QED BY <3>1, <3>2
    <2> QED BY <2>1, <2>2, <2>3, <2>5 DEF OnMessage, HearsNext
  <1>7. CASE ~Accepts(tla) /\ ~Completes
    <2>1. wire' = wire /\ UNCHANGED <<data_buf, checksum>>
      BY <1>1, <1>3, <1>7, QuietCases DEF RxTick
    <2>2. Upcoming' = Upcoming
      <3>1. ~(hello_state = "SEND" /\ ready)
        BY <1>1, <1>7, QuietCases
      <3>2. CASE StartMessage
        <4>1. wire = Nobody
          BY <3>2 DEF StartMessage, idle, LinkInv, Underway, tx_bit_count_max
        <4> QED BY <1>4, <2>1, <3>2, <4>1 DEF StartMessage
      <3>3. CASE EndMessage
        BY <2>1, <3>3 DEF EndMessage
      <3>4. CASE HelloWaits
        BY <2>1, <3>4 DEF HelloWaits
      <3> QED BY <1>3, <3>1, <3>2, <3>3, <3>4 DEF HelloTick, NextCharacter
    <2>3. MessageLen' = MessageLen /\ Message' = Message
      OBVIOUS
    <2> QED BY <2>1, <2>2, <2>3 DEF OnMessage, HearsNothing
  <1> QED BY <1>5, <1>6, <1>7

(* Once only the message is on the line, the receiver hears nothing but    *)
(* the message, in order and complete, for as long as the core stores      *)
(* nothing: for every message, baud rate and sequence of reads.            *)
THEOREM MessageHeardInOrder == LinkSpec => MessageInOrder
  <1>1. TypeOK /\ LinkInv => (Quiet /\ OnMessage => OnMessage' /\ (HearsNothing \/ HearsNext))
    BY InOrderStep
  <1>2. LinkInit => TypeOK /\ LinkInv
    BY TypeStart, LinkInvStart DEF LinkInit
  <1>3. TypeOK /\ LinkInv /\ [LinkNext]_linkVars => (TypeOK /\ LinkInv)'
    BY TypeStep, LinkRefines, LinkInvStep
  <1> QED BY <1>1, <1>2, <1>3, PTL DEF LinkSpec, MessageInOrder

(* And with a core that only reads the UART, from power-on on.             *)
THEOREM QuietLineRecites == QuietSpec => []OnMessage /\ Recital
  <1>1. LinkInit => TypeOK /\ LinkInv /\ OnMessage
    BY TypeStart, LinkInvStart DEF LinkInit, OnMessage
  <1>2. [Quiet]_linkVars => [LinkNext]_linkVars
    BY DEF Quiet, LinkNext
  <1>3. TypeOK /\ LinkInv /\ [Quiet]_linkVars => (TypeOK /\ LinkInv)'
    BY <1>2, TypeStep, LinkRefines, LinkInvStep
  <1>4. ASSUME UNCHANGED linkVars
        PROVE  HearsNothing /\ OnMessage' = OnMessage
    BY <1>4 DEF linkVars, uartVars, rxVars, helloVars, HearsNothing, OnMessage, Upcoming
  <1>5. TypeOK /\ LinkInv /\ OnMessage /\ [Quiet]_linkVars
          => OnMessage' /\ [HearsNothing \/ HearsNext]_<<data_buf, checksum, Upcoming>>
    BY <1>4, InOrderStep
  <1> QED BY <1>1, <1>3, <1>5, PTL DEF QuietSpec, Recital
=============================================================================
