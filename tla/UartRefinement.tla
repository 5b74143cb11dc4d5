--------------------------- MODULE UartRefinement ---------------------------
(***************************************************************************)
(* The UART implements SerialChannel.  Two history variables: wire is the  *)
(* byte the transmitter took and the receiver has not completed, asked     *)
(* tells whether the last access read the receiver's data register.        *)
(***************************************************************************)
EXTENDS UartLink

CONSTANT Nobody

VARIABLES wire, asked

ASSUME NobodyAssumption == Nobody \notin Byte /\ Nobody \notin Nat

linkVars == <<uartVars, wire, asked>>

LinkInit == Init /\ wire = Nobody /\ asked = FALSE

LinkTock(tla) ==
  /\ Tock(tla)
  /\ wire' = IF Accepts(tla) THEN next_data(tla) ELSE IF Completes THEN Nobody ELSE wire
  /\ asked' = Consumes(tla)

LinkReset(tla) == Reset(tla) /\ wire' = Nobody /\ asked' = Consumes(tla)

LinkNext == \E tla \in Accesses : LinkTock(tla) \/ LinkReset(tla)

LinkSpec == LinkInit /\ [][LinkNext]_linkVars

(* The clock does not stop.                                                *)
FairLinkSpec == LinkSpec /\ WF_linkVars(LinkNext)

Channel == INSTANCE SerialChannel
             WITH Bytes <- Byte, mailbox <- data_buf, flag <- data_flag,
                  reading <- IF asked THEN rx_tld.data ELSE Nobody

(* Every byte the transmitter takes is rebuilt by the receiver before the  *)
(* next one is taken, at any baud rate; none is flagged twice, none is     *)
(* lost to a read in the same cycle, and a read returns the newest         *)
(* (uart_tx.h:35-73, uart_rx.h:39-87, uart_tilelink.h:162-214).            *)
ImplementsChannel == Channel!ChannelSpec

(* Why: transmitter and receiver count the same frame, the receiver one    *)
(* cycle behind, and idle together; what is left of the byte is in the     *)
(* one's shift register, what has arrived in the other's.                  *)
InStep ==
  IF tx_count >= bit_count_done \/ (tx_count = 0 /\ tx_delay = 0)
  THEN rx_count = rx_bit_count_max /\ rx_delay = bit_delay_max
  ELSE IF tx_delay = 0 THEN rx_count = tx_count - 1 /\ rx_delay = bit_delay_max
  ELSE rx_count = tx_count /\ rx_delay = tx_delay - 1

Sent(i) == IF tx_count + i = 0 THEN 0 ELSE wire[tx_count + i - 1]

Underway ==
  /\ wire = Nobody <=> tx_count > 8 \/ (tx_count = 8 /\ rx_count = 8)
  /\ wire # Nobody =>
       /\ wire \in Byte
       /\ \A i \in 0 .. 8 - tx_count : tx_shift[i] = Sent(i)
       /\ rx_count < 8 => \A i \in 8 - rx_count .. 7 : rx_shift[i] = wire[i - (8 - rx_count)]
  /\ \A i \in 0 .. 8 : tx_count + i > 8 => tx_shift[i] = 1

(* A client that sends keeps the transmitter out of the extra stop bits,   *)
(* where it is ready but takes a byte only at the end of a bit.            *)
Eager == hello_state = "SEND" => tx_count <= bit_count_done \/ idle

(* A message that has not begun begins with its first character.           *)
Rewound == hello_state = "WAIT" => cursor = 0

LinkInv == InStep /\ Underway /\ Eager /\ Rewound

(* The message client never believes that a character was taken that was   *)
(* not: when it goes on to the next one, the transmitter has taken one in  *)
(* the same cycle, and it is its own unless the core stores a byte in that *)
(* very cycle (uart_hello.h:52-65, uart_tx.h:25-28, 57-64).                *)
CharacterTaken ==
  [][hello_state = "SEND" /\ ready /\ hello_state' # "WAIT" =>
       tx_count' = 0 /\ (tx_shift' = Offset(Message[cursor]) \/ tx_tld' = Ack(0))]_linkVars

(* If the core stops storing bytes and nobody resets, the message is sent  *)
(* to its end again and again, or once if it is not to be repeated         *)
(* (uart_hello.h:46-73).                                                   *)
Quiet == \E tla \in Accesses : ~StoresByte(tla) /\ LinkTock(tla)

MessageEnds == <>[][Quiet]_linkVars => []<>(hello_state = "DONE")

(* How long it still takes, in clock cycles: a frame has a start bit, the  *)
(* eight of the byte and two stop bits; the client waits for the extra     *)
(* stop bits of what was sent before it, and not between its own frames.   *)
BitTime       == bit_delay_max + 1
FrameTime     == (bit_count_done + 1) * BitTime
EndOfBit(n)   == (n - tx_count) * BitTime + bit_delay_max - tx_delay
FramesAfter   == (MessageLen - 1 - cursor) * FrameTime

CyclesLeft ==
  CASE hello_state = "WAIT" -> EndOfBit(tx_bit_count_max) + FramesAfter + 2
    [] hello_state = "SEND" -> (IF idle THEN 0 ELSE EndOfBit(bit_count_done)) + FramesAfter + 1
    [] hello_state = "DONE" -> 0

(* The message is on time: client and transmitter lose no cycle between    *)
(* two characters, at any baud rate, and so the message ends after exactly *)
(* CyclesLeft cycles without a store or a reset (uart_hello.h:46-73,       *)
(* uart_tx.h:24-73).                                                       *)
MessageOnTime ==
  [][Quiet /\ hello_state # "DONE" =>
       /\ CyclesLeft > 0 /\ CyclesLeft' = CyclesLeft - 1
       /\ hello_state' = "DONE" <=> CyclesLeft' = 0]_linkVars

(* Which character of the message is under way, or else is the next one,   *)
(* and that nothing but the message is on the line.                        *)
Upcoming ==
  IF wire = Nobody THEN IF hello_state = "SEND" THEN cursor ELSE 0
  ELSE IF hello_state = "SEND" THEN cursor - 1 ELSE MessageLen - 1

OnMessage ==
  wire # Nobody => Upcoming \in 0 .. MessageLen - 1 /\ wire = Message[Upcoming]

HearsNothing == UNCHANGED <<data_buf, checksum, Upcoming>>

HearsNext ==
  /\ data_buf' = Message[Upcoming]
  /\ checksum' = (checksum + Value(Message[Upcoming])) % ChecksumSize
  /\ Upcoming' = (Upcoming + 1) % MessageLen

(* What the receiver hears while the core stores nothing is the message,   *)
(* character after character and round and round, none left out, repeated  *)
(* or mixed with another, although the client is ahead of the line by a    *)
(* character and starts over while the last one is still on it             *)
(* (uart_hello.h:46-73, uart_tx.h:24-73, uart_rx.h:39-87).                 *)
MessageInOrder == [][Quiet /\ OnMessage => OnMessage' /\ (HearsNothing \/ HearsNext)]_linkVars

(* Where nobody ever stores or resets, all that is heard is the message.   *)
QuietSpec == LinkInit /\ [][Quiet]_linkVars
Recital   == [][HearsNothing \/ HearsNext]_<<data_buf, checksum, Upcoming>>

(* A byte that is offered while the transmitter says it is ready is taken  *)
(* (uart_tx.h:24-28).                                                      *)
ReadyTakes == \A tla \in Accesses : ready /\ next_req(tla) => Accepts(tla)
=============================================================================
