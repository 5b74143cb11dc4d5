------------------------------ MODULE PinwheelTB -----------------------------
(***************************************************************************)
(* The whole SoC in the simulator: the core of PinwheelCore, the UART of   *)
(* UartLink and the consoles in one clock.  The core drives the data bus   *)
(* of them all; four consoles print what is stored to their regions, and   *)
(* the fifth what the UART receives.                                       *)
(***************************************************************************)
EXTENDS PinwheelRefinement

CONSTANTS
  CyclesPerBit, DelaySize, MessageLen, Message, ChecksumSize, Nobody,  \* UartLink
  Width, Height, LF, CR, Question, Glyph,                              \* Console
  UartRegion,      \* 0xB
  UartBlock,       \* words of a 64K block: TX has the first one, RX the second
  ConsoleRegions   \* 0x4 .. 0x7

VARIABLES
  tx_delay, tx_count, tx_shift, tx_tld,
  rx_delay, rx_count, rx_shift, data_buf, data_flag, checksum, rx_tld,
  hello_state, cursor, repeat_msg, wire, asked,
  consoles, console5,
  resets     \* clock cycles in reset so far

ASSUME MapAssumption ==
  /\ {UartRegion} \union ConsoleRegions \subseteq
       (0 .. RegionCount - 1) \ {CodeRegion, MemRegion, RegfileRegion, DebugRegion}
  /\ UartRegion \notin ConsoleRegions
  /\ UartBlock \in Nat \ {0} /\ WordCount \div RegionCount \in Nat \ {0}

ASSUME ConsoleAssumption ==
  /\ Width \in Nat \ {0} /\ Height \in Nat \ {0}
  /\ {LF, CR, Question, Glyph} \subseteq Nat \ {0} /\ LF # CR /\ Glyph # Question

Byte == [0 .. 7 -> 0 .. 1]

UartAccesses == [op : {"NONE", "GET", "PUT"}, unit : {"tx", "rx", "other"},
                 reg : {0, 4, 8, 12}, data : Byte]

ASSUME WireAssumption ==
  /\ CyclesPerBit \in Nat /\ DelaySize \in Nat \ {0}
  /\ MessageLen \in Nat \ {0} /\ Message \in [0 .. MessageLen - 1 -> Byte]
  /\ ChecksumSize \in Nat \ {0}
  /\ Nobody \notin Byte /\ Nobody \notin Nat

Uart == INSTANCE UartRefinement WITH Accesses <- UartAccesses
Con  == INSTANCE Console

uartVars == <<tx_delay, tx_count, tx_shift, tx_tld,
              rx_delay, rx_count, rx_shift, data_buf, data_flag, checksum, rx_tld,
              hello_state, cursor, repeat_msg, wire, asked>>
tbVars == <<refVars, uartVars, consoles, console5, resets>>

----------------------------------------------------------------------------
(* What phase B puts on the data bus, as the UART and the consoles see it. *)
Offset == BC_addr % (WordCount \div RegionCount)

(* Mutant: the adapters look at the block but not at the region.           *)
UartUnit_AnyRegion == CASE Offset \div UartBlock = 0 -> "tx"
                        [] Offset \div UartBlock = 1 -> "rx"
                        [] OTHER -> "other"

UartUnit == CASE Region(BC_addr) = UartRegion /\ Offset \div UartBlock = 0 -> "tx"
              [] Region(BC_addr) = UartRegion /\ Offset \div UartBlock = 1 -> "rx"
              [] OTHER -> "other"

Weight     == <<1, 2, 4, 8, 16, 32, 64, 128>>
LowByte(w) == [i \in 0 .. 7 |-> (w \div Weight[i + 1]) % 2]

data_tla == [op |-> CASE B_insn.op = "LOAD" -> "GET" [] B_insn.op = "STORE" -> "PUT"
                      [] OTHER -> "NONE",
             unit |-> UartUnit, reg |-> 4 * (Offset % 4), data |-> LowByte(BC_reg2)]

(* pinwheel_soc::get_data_tld.                                             *)
soc_data_tld == IF debug_valid THEN debug
                ELSE IF tx_tld.valid THEN tx_tld.data
                ELSE IF rx_tld.valid THEN rx_tld.data
                ELSE data_rdata

(* pinwheel_soc::tock.                                                     *)
SocTock(x)  == RefTock(x) /\ Uart!LinkTock(data_tla)
SocReset(x) == RefReset(x) /\ Uart!LinkReset(data_tla)

----------------------------------------------------------------------------
(* Mutant: a byte is shown when the flag of the receiver rises.            *)
NewByte_Flag == data_flag = 0 /\ data_flag' = 1

\* get_valid before and after the clock
NewByte == rx_count # 8 /\ rx_count' = 8

ConsolesTick ==
  consoles' = [r \in ConsoleRegions |->
                 Con!tick(consoles[r], Region(BC_addr) = r, B_insn.op = "STORE", BC_reg2 % 256)]

(* PinwheelSim::step.                                                      *)
Step(x) ==
  /\ resets = 2 /\ SocTock(x) /\ ConsolesTick /\ UNCHANGED resets
  /\ console5' = IF NewByte THEN Con!putchar(console5, Uart!Value(data_buf')) ELSE console5

(* app_init holds the SoC in reset for two cycles before the simulation    *)
(* thread starts.  The consoles are not clocked then.                      *)
Boot(x) ==
  /\ resets < 2 /\ resets' = resets + 1
  /\ SocReset(x) /\ UNCHANGED <<consoles, console5>>

TBInit ==
  /\ RefInit /\ Uart!LinkInit /\ repeat_msg = TRUE
  /\ consoles = [r \in ConsoleRegions |-> Con!NewConsole] /\ console5 = Con!NewConsole
  /\ resets = 0

TBNext == \E x \in DONTCARE : Step(x) \/ Boot(x)

TBSpec == TBInit /\ [][TBNext]_tbVars

----------------------------------------------------------------------------
(* A load that takes an answer from the data bus takes that of the data    *)
(* RAM, whatever the other slot and the UART have just done on the bus.    *)
(* The core never sees the answers of the UART, which is why PinwheelCore  *)
(* needs only its own data_tld (soc:45-59, core:119, 165).                 *)
AnswersMatch == CD_read_mem => soc_data_tld = data_rdata /\ data_tld = data_rdata

(* The fifth console prints exactly the bytes that cross the wire, each    *)
(* once, when it arrives and as it was sent, whether or not the program    *)
(* ever reads the receiver (pinwheel_sim.cpp:22-32).                       *)
Console5Shows ==
  [][console5' = IF wire # Nobody /\ wire' # wire
                 THEN Con!putchar(console5, Uart!Value(wire)) ELSE console5]_tbVars

(* A console prints what the thread whose turn it is stores to its region, *)
(* with the value its register has in SmtMachine, and nothing else         *)
(* (core:228, pinwheel_sim.cpp:24-28).                                     *)
PrintsTurn ==
  [][\A r \in ConsoleRegions :
       legal' =>
         consoles'[r] = IF Smt!Stores(r) THEN Con!putchar(consoles[r], Smt!b % 256)
                        ELSE consoles[r]]_tbVars

(* What a turn of SmtMachine stores to the transmitter's data register.    *)
Sends ==
  /\ Smt!Stores(UartRegion)
  /\ LET offset == Smt!addr % (WordCount \div RegionCount)
     IN offset \div UartBlock = 0 /\ offset % 4 = 1

(* A byte that goes on the wire is what the thread whose turn it is stores *)
(* to the transmitter, with the value of SmtMachine, or else the message's *)
(* next character; and what a thread stores to an idle transmitter does go *)
(* out (core:228, uart_tilelink:48-66, uart_hello:40-44).                  *)
SendsTurn ==
  [][legal' =>
       /\ wire = Nobody /\ wire' # Nobody =>
            wire' = IF Sends THEN LowByte(Smt!b) ELSE Message[cursor]
       /\ Sends /\ Uart!idle => wire' = LowByte(Smt!b)]_tbVars

(* As long as no thread stores to the transmitter, the fifth console types *)
(* the message, character after character and round and round, whatever    *)
(* else the threads do on the bus and wherever the message was when they   *)
(* left it alone (uart_hello:46-73, soc:62-86, pinwheel_sim.cpp:22-32).    *)
MessageShown ==
  [][legal /\ ~Sends /\ UNCHANGED resets /\ Uart!OnMessage =>
       /\ Uart!OnMessage'
       /\ \/ UNCHANGED <<console5, Uart!Upcoming>>
          \/ /\ console5' = Con!putchar(console5, Uart!Value(Message[Uart!Upcoming]))
             /\ Uart!Upcoming' = (Uart!Upcoming + 1) % MessageLen]_tbVars

(* What a console shows, line by line, without the glyph at the cursor.    *)
Text(con) ==
  [k \in 1 .. con.y + 1 |->
     [i \in 0 .. Width - 1 |-> IF i = con.x /\ k - 1 = con.y THEN Con!Blank
                               ELSE con.buf[(k - 1) * Width + i]]]

\* The byte whose last bit the receiver sampled in the last cycle; what the thread
\* whose turn it was then stored to region r.
Received  == IF rx_count = 8 /\ rx_delay = 0 THEN Uart!Value(data_buf) ELSE Nobody
Stored(r) == IF IsStore(C_hpc, C_insn, C_addr, r) THEN C_result % 256 ELSE Nobody

Screen5 == INSTANCE Terminal
             WITH Blank <- Con!Blank, Chars <- 0 .. 255, lines <- Text(console5),
                  column <- console5.x, key <- Received

BusScreen(r) == INSTANCE Terminal
                  WITH Blank <- Con!Blank, Chars <- 0 .. 255, lines <- Text(consoles[r]),
                       column <- consoles[r].x, key <- Stored(r)

(* In the whole SoC each of the five consoles is a terminal: the bits that *)
(* are sampled on the serial line, and the words that the threads store,   *)
(* come out as lines of text, character by character and none of them      *)
(* twice, whatever the other parts do (console:28-71, pinwheel_sim.cpp:22).*)
Console5Types == Screen5!TermSpec
ConsolesType  ==
  /\ \A r \in ConsoleRegions : BusScreen(r)!TermInit
  /\ [][\A r \in ConsoleRegions : BusScreen(r)!TermNext]_tbVars
=============================================================================
