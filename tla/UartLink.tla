------------------------------ MODULE UartLink ------------------------------
(***************************************************************************)
(* The UART of the SoC, one step per clock cycle: the transmitter, the     *)
(* receiver it is looped back to, the client that sends a message over and *)
(* over, and the two adapters that put both on the data bus.  A byte is    *)
(* the function of its bits, bit 0 first on the line.                      *)
(***************************************************************************)
EXTENDS Integers

CONSTANTS
  CyclesPerBit,   \* clock_rate / baud_rate
  DelaySize,      \* 2^16: range of the bit delay counters
  MessageLen,     \* 512
  Message,        \* memory_ of uart_hello
  ChecksumSize,   \* 2^32
  Accesses        \* what the core may put on the data bus

Bit  == 0 .. 1
Byte == [0 .. 7 -> Bit]

\* The low nibble of the address selects the register, a_valid = 0 is "NONE".
Access == [op : {"NONE", "GET", "PUT", "PUTPART"}, unit : {"tx", "rx", "other"},
           reg : 0 .. 15, data : Byte]

ASSUME UartAssumption ==
  /\ CyclesPerBit \in Nat /\ DelaySize \in Nat \ {0}
  /\ MessageLen \in Nat \ {0} /\ Message \in [0 .. MessageLen - 1 -> Byte]
  /\ ChecksumSize \in Nat \ {0}
  /\ Accesses \subseteq Access

VARIABLES
  tx_delay, tx_count, tx_shift,
  rx_delay, rx_count, rx_shift, data_buf, data_flag, checksum,
  hello_state, cursor, repeat_msg,
  tx_tld, rx_tld     \* the answers on the data bus: valid and data

txVars    == <<tx_delay, tx_count, tx_shift, tx_tld>>
rxVars    == <<rx_delay, rx_count, rx_shift, data_buf, data_flag, checksum, rx_tld>>
helloVars == <<hello_state, cursor, repeat_msg>>
uartVars  == <<txVars, rxVars, helloVars>>

bit_delay_max == (CyclesPerBit - 1) % DelaySize
bit_count_done    == 10
tx_bit_count_max  == 17
rx_bit_count_max  == 9

Ones == [i \in 0 .. 8 |-> 1]
Zero == [i \in 0 .. 7 |-> 0]

Value(byte) == byte[0] + 2 * byte[1] + 4 * byte[2] + 8 * byte[3]
             + 16 * byte[4] + 32 * byte[5] + 64 * byte[6] + 128 * byte[7]

Answer   == [valid : BOOLEAN, data : Nat]
NoAnswer == [valid |-> FALSE, data |-> 0]
Ack(d)   == [valid |-> TRUE, data |-> d]

TypeOK ==
  /\ {tx_delay, rx_delay} \subseteq 0 .. bit_delay_max
  /\ tx_count \in 0 .. tx_bit_count_max /\ rx_count \in 0 .. rx_bit_count_max
  /\ tx_shift \in [0 .. 8 -> Bit]
  /\ {rx_shift, data_buf} \subseteq Byte
  /\ data_flag \in Bit /\ checksum \in 0 .. ChecksumSize - 1
  /\ hello_state \in {"WAIT", "SEND", "DONE"}
  /\ cursor \in 0 .. MessageLen - 1 /\ repeat_msg \in BOOLEAN
  /\ {tx_tld, rx_tld} \subseteq Answer

----------------------------------------------------------------------------
(* uart_tx.                                                                *)
serial == tx_shift[0]

ready == \/ tx_count = bit_count_done /\ tx_delay = bit_delay_max
         \/ tx_count > bit_count_done

(* Mutant: idle without the extra stop bits.                               *)
idle_Short == tx_count = bit_count_done /\ tx_delay = bit_delay_max

idle == tx_count = tx_bit_count_max /\ tx_delay = bit_delay_max

(* A store to the data register replaces the byte of the message client.   *)
StoresByte(tla) == tla.op = "PUT" /\ tla.unit = "tx" /\ tla.reg = 4

next_data(tla) == IF StoresByte(tla) THEN tla.data ELSE Message[cursor]
next_req(tla)  == StoresByte(tla) \/ hello_state = "SEND"

Offset(byte) == [i \in 0 .. 8 |-> IF i = 0 THEN 0 ELSE byte[i - 1]]
Shifted      == [i \in 0 .. 8 |-> IF i = 8 THEN 1 ELSE tx_shift[i + 1]]

Waiting == tx_delay < bit_delay_max

(* Mutant: a new byte is taken one bit time early.                         *)
Accepts_Early(tla) == ~Waiting /\ tx_count >= bit_count_done - 2 /\ next_req(tla)

(* A byte is taken: the delay is over, the frame with its stop bits is out *)
(* and somebody asks.                                                      *)
Accepts(tla) == ~Waiting /\ tx_count >= bit_count_done /\ next_req(tla)

Accept(tla) ==
  /\ Accepts(tla)
  /\ tx_delay' = 0 /\ tx_count' = 0 /\ tx_shift' = Offset(next_data(tla))

(* Mutant: one extra stop bit too many.                                    *)
NextBit_TooFar(tla) ==
  /\ ~Waiting /\ ~Accepts(tla) /\ tx_count <= tx_bit_count_max
  /\ tx_delay' = 0 /\ tx_count' = tx_count + 1
  /\ tx_shift' = IF tx_count < bit_count_done THEN Shifted ELSE tx_shift

NextBit(tla) ==
  /\ ~Waiting /\ ~Accepts(tla) /\ tx_count < tx_bit_count_max
  /\ tx_delay' = 0 /\ tx_count' = tx_count + 1
  /\ tx_shift' = IF tx_count < bit_count_done THEN Shifted ELSE tx_shift

Pause ==
  /\ Waiting /\ tx_delay' = tx_delay + 1 /\ UNCHANGED <<tx_count, tx_shift>>

Rest(tla) ==
  /\ ~Waiting /\ ~Accepts(tla) /\ tx_count = tx_bit_count_max
  /\ UNCHANGED <<tx_delay, tx_count, tx_shift>>

TxTick(tla) == Accept(tla) \/ NextBit(tla) \/ Pause \/ Rest(tla)

TxReset == tx_delay' = bit_delay_max /\ tx_count' = tx_bit_count_max /\ tx_shift' = Ones

(* The adapter answers from the state before the tick, in reset too.       *)
TxAnswer(tla) ==
  tx_tld' = IF tla.unit = "tx" /\ tla.op = "GET" /\ tla.reg = 0
            THEN Ack(IF ready THEN 1 ELSE 0)
            ELSE IF StoresByte(tla) THEN Ack(0)
            ELSE NoAnswer

----------------------------------------------------------------------------
(* uart_rx, which samples the line on the first cycle of a bit.            *)
Consumes(tla) == tla.op = "GET" /\ tla.unit = "rx" /\ tla.reg = 4

Sampled == [i \in 0 .. 7 |-> IF i = 7 THEN serial ELSE rx_shift[i + 1]]

(* The last data bit is on the line.                                       *)
Completes == rx_delay = bit_delay_max /\ rx_count = 7

(* Mutant: reading a byte clears the flag of the one that just arrives.    *)
Flag_ReadWins(tla) == IF Consumes(tla) THEN 0 ELSE IF Completes THEN 1 ELSE data_flag

Flag(tla) == IF Completes THEN 1 ELSE IF Consumes(tla) THEN 0 ELSE data_flag

RxWait ==
  /\ rx_delay < bit_delay_max
  /\ rx_delay' = rx_delay + 1 /\ UNCHANGED <<rx_count, rx_shift>>

RxSample ==
  /\ rx_delay = bit_delay_max /\ rx_count < rx_bit_count_max
  /\ rx_delay' = 0 /\ rx_count' = rx_count + 1 /\ rx_shift' = Sampled

RxIdle ==
  /\ rx_delay = bit_delay_max /\ rx_count = rx_bit_count_max
  /\ rx_delay' = IF serial = 0 THEN 0 ELSE rx_delay
  /\ rx_count' = IF serial = 0 THEN 0 ELSE rx_count
  /\ UNCHANGED rx_shift

RxTick(tla) ==
  /\ RxWait \/ RxSample \/ RxIdle
  /\ data_buf' = IF Completes THEN Sampled ELSE data_buf
  /\ checksum' = IF Completes THEN (checksum + Value(Sampled)) % ChecksumSize ELSE checksum
  /\ data_flag' = Flag(tla)

(* data_buf and data_flag survive a reset.                                 *)
RxReset ==
  /\ rx_delay' = bit_delay_max /\ rx_count' = rx_bit_count_max /\ rx_shift' = Zero
  /\ checksum' = 0 /\ UNCHANGED <<data_buf, data_flag>>

RxAnswer(tla) ==
  rx_tld' = IF tla.unit # "rx" \/ tla.op # "GET" THEN NoAnswer
            ELSE IF tla.reg = 0 THEN Ack(data_flag)
            ELSE IF tla.reg = 4 THEN Ack(Value(data_buf))
            ELSE IF tla.reg = 8 THEN Ack(checksum)
            ELSE NoAnswer

----------------------------------------------------------------------------
(* uart_hello.                                                             *)
(* Mutant: the client starts as soon as the transmitter is ready.          *)
StartMessage_Ready ==
  /\ hello_state = "WAIT" /\ ready /\ hello_state' = "SEND" /\ UNCHANGED cursor

StartMessage ==
  /\ hello_state = "WAIT" /\ idle /\ hello_state' = "SEND" /\ UNCHANGED cursor

NextCharacter ==
  /\ hello_state = "SEND" /\ ready
  /\ IF cursor = MessageLen - 1 THEN hello_state' = "DONE" /\ UNCHANGED cursor
     ELSE cursor' = cursor + 1 /\ UNCHANGED hello_state

(* Mutant: the next message starts where the last one ended.               *)
EndMessage_Resumes ==
  /\ hello_state = "DONE" /\ UNCHANGED cursor
  /\ hello_state' = IF repeat_msg THEN "WAIT" ELSE hello_state

EndMessage ==
  /\ hello_state = "DONE" /\ cursor' = 0
  /\ hello_state' = IF repeat_msg THEN "WAIT" ELSE hello_state

HelloWaits ==
  /\ (hello_state = "WAIT" /\ ~idle) \/ (hello_state = "SEND" /\ ~ready)
  /\ UNCHANGED <<hello_state, cursor>>

HelloTick ==
  /\ StartMessage \/ NextCharacter \/ EndMessage \/ HelloWaits
  /\ UNCHANGED repeat_msg

HelloReset == hello_state' = "WAIT" /\ cursor' = 0 /\ UNCHANGED repeat_msg

----------------------------------------------------------------------------
(* pinwheel_soc::tock for the UART: every part sees the state of the       *)
(* others before the clock.                                                *)
Tock(tla)  == TxTick(tla) /\ RxTick(tla) /\ HelloTick /\ TxAnswer(tla) /\ RxAnswer(tla)
Reset(tla) == TxReset /\ RxReset /\ HelloReset /\ TxAnswer(tla) /\ RxAnswer(tla)

(* The constructors and the resets of app_init.  Neither initializes       *)
(* data_flag.                                                              *)
Init ==
  /\ tx_delay = bit_delay_max /\ tx_count = tx_bit_count_max /\ tx_shift = Ones
  /\ rx_delay = bit_delay_max /\ rx_count = rx_bit_count_max /\ rx_shift = Zero
  /\ data_buf = Zero /\ data_flag \in Bit /\ checksum = 0
  /\ hello_state = "WAIT" /\ cursor = 0 /\ repeat_msg \in BOOLEAN
  /\ tx_tld = NoAnswer /\ rx_tld = NoAnswer

Next == \E tla \in Accesses : Tock(tla) \/ Reset(tla)

Spec == Init /\ [][Next]_uartVars
=============================================================================
