--------------------------- MODULE TestbenchProofs ---------------------------
(***************************************************************************)
(* The whole SoC: the core never mistakes an answer on the data bus, what  *)
(* is proved of the core and of the UART holds for both together, and the  *)
(* consoles are terminals that print what the threads of SmtMachine store  *)
(* and what the UART carries.                                              *)
(***************************************************************************)
EXTENDS PinwheelTB, ThreadProofs

(* The proofs about the UART, for the accesses the core makes.             *)
UP == INSTANCE UartProofs WITH Accesses <- UartAccesses

LEMMA UartAssumptions == UP!UartAssumption /\ UP!NobodyAssumption
  <1>1. UP!Byte = Byte
    BY DEF UP!Byte, Byte, UP!Bit
  <1>2. UartAccesses \subseteq UP!Access
    BY <1>1 DEF UartAccesses, UP!Access
  <1>3. UP!UartAssumption
    BY <1>1, <1>2, WireAssumption DEF UP!UartAssumption
  <1>4. UP!NobodyAssumption
    BY <1>1, WireAssumption DEF UP!NobodyAssumption
  <1> QED
    BY <1>3, <1>4

(* Both instances of UartRefinement are the same.                          *)
LEMMA SameUart ==
  /\ Uart!bit_delay_max = UP!bit_delay_max /\ Uart!bit_count_done = UP!bit_count_done
  /\ Uart!tx_bit_count_max = UP!tx_bit_count_max /\ Uart!rx_bit_count_max = UP!rx_bit_count_max
  /\ Uart!Ones = UP!Ones /\ Uart!Zero = UP!Zero /\ Uart!NoAnswer = UP!NoAnswer
  /\ Uart!ready = UP!ready /\ Uart!idle = UP!idle /\ Uart!serial = UP!serial
  /\ Uart!Waiting = UP!Waiting /\ Uart!Shifted = UP!Shifted /\ Uart!Sampled = UP!Sampled
  /\ Uart!Completes = UP!Completes
  /\ \A b : Uart!Value(b) = UP!Value(b) /\ Uart!Offset(b) = UP!Offset(b)
  /\ \A d : Uart!Ack(d) = UP!Ack(d)
  BY DEF Uart!bit_delay_max, UP!bit_delay_max, Uart!bit_count_done, UP!bit_count_done,
         Uart!tx_bit_count_max, UP!tx_bit_count_max, Uart!rx_bit_count_max, UP!rx_bit_count_max,
         Uart!Ones, UP!Ones, Uart!Zero, UP!Zero, Uart!NoAnswer, UP!NoAnswer,
         Uart!ready, UP!ready, Uart!idle, UP!idle, Uart!serial, UP!serial,
         Uart!Waiting, UP!Waiting, Uart!Shifted, UP!Shifted, Uart!Sampled, UP!Sampled,
         Uart!Completes, UP!Completes, Uart!Value, UP!Value, Uart!Offset, UP!Offset,
         Uart!Ack, UP!Ack

LEMMA SameAccess ==
  ASSUME NEW tla
  PROVE  /\ Uart!StoresByte(tla) <=> UP!StoresByte(tla)
         /\ Uart!next_data(tla) = UP!next_data(tla)
         /\ Uart!next_req(tla) <=> UP!next_req(tla)
         /\ Uart!Accepts(tla) <=> UP!Accepts(tla)
         /\ Uart!Consumes(tla) <=> UP!Consumes(tla)
         /\ Uart!Flag(tla) = UP!Flag(tla)
  <1>1. Uart!StoresByte(tla) <=> UP!StoresByte(tla)
    BY DEF Uart!StoresByte, UP!StoresByte
  <1>2. Uart!next_data(tla) = UP!next_data(tla) /\ (Uart!next_req(tla) <=> UP!next_req(tla))
    BY <1>1 DEF Uart!next_data, UP!next_data, Uart!next_req, UP!next_req
  <1>3. Uart!Accepts(tla) <=> UP!Accepts(tla)
    BY <1>2, SameUart DEF Uart!Accepts, UP!Accepts
  <1>4. Uart!Consumes(tla) <=> UP!Consumes(tla)
    BY DEF Uart!Consumes, UP!Consumes
  <1>5. Uart!Flag(tla) = UP!Flag(tla)
    BY <1>4, SameUart DEF Uart!Flag, UP!Flag
  <1> QED
    BY <1>1, <1>2, <1>3, <1>4, <1>5

LEMMA SameTicks ==
  ASSUME NEW tla
  PROVE  /\ Uart!TxTick(tla) <=> UP!TxTick(tla)
         /\ Uart!RxTick(tla) <=> UP!RxTick(tla)
         /\ Uart!HelloTick <=> UP!HelloTick
         /\ Uart!TxAnswer(tla) <=> UP!TxAnswer(tla)
         /\ Uart!RxAnswer(tla) <=> UP!RxAnswer(tla)
         /\ Uart!TxReset <=> UP!TxReset
         /\ Uart!RxReset <=> UP!RxReset
         /\ Uart!HelloReset <=> UP!HelloReset
  <1>1. Uart!TxTick(tla) <=> UP!TxTick(tla)
    BY SameUart, SameAccess, Zenon
       DEF Uart!TxTick, UP!TxTick, Uart!Accept, UP!Accept, Uart!NextBit, UP!NextBit,
           Uart!Pause, UP!Pause, Uart!Rest, UP!Rest
  <1>2. Uart!RxTick(tla) <=> UP!RxTick(tla)
    BY SameUart, SameAccess
       DEF Uart!RxTick, UP!RxTick, Uart!RxWait, UP!RxWait, Uart!RxSample, UP!RxSample,
           Uart!RxIdle, UP!RxIdle
  <1>3. Uart!HelloTick <=> UP!HelloTick
    BY SameUart
       DEF Uart!HelloTick, UP!HelloTick, Uart!StartMessage, UP!StartMessage,
           Uart!NextCharacter, UP!NextCharacter, Uart!EndMessage, UP!EndMessage,
           Uart!HelloWaits, UP!HelloWaits
  <1>4. /\ Uart!TxAnswer(tla) <=> UP!TxAnswer(tla)
        /\ Uart!RxAnswer(tla) <=> UP!RxAnswer(tla)
    BY SameUart, SameAccess DEF Uart!TxAnswer, UP!TxAnswer, Uart!RxAnswer, UP!RxAnswer
  <1>5. /\ Uart!TxReset <=> UP!TxReset
        /\ Uart!RxReset <=> UP!RxReset
        /\ Uart!HelloReset <=> UP!HelloReset
    BY SameUart
       DEF Uart!TxReset, UP!TxReset, Uart!RxReset, UP!RxReset, Uart!HelloReset, UP!HelloReset
  <1> QED
    BY <1>1, <1>2, <1>3, <1>4, <1>5

LEMMA SameLink ==
  ASSUME NEW tla
  PROVE  /\ Uart!LinkTock(tla) => UP!LinkTock(tla)
         /\ Uart!LinkReset(tla) => UP!LinkReset(tla)
  <1>1. Uart!Tock(tla) => UP!Tock(tla)
    BY SameTicks DEF Uart!Tock, UP!Tock
  <1>2. Uart!Reset(tla) => UP!Reset(tla)
    BY SameTicks DEF Uart!Reset, UP!Reset
  <1>3. asked' = Uart!Consumes(tla) => asked' = UP!Consumes(tla)
    BY DEF Uart!Consumes, UP!Consumes
  <1>4. Uart!LinkTock(tla) => UP!LinkTock(tla)
    <2>1. (IF Uart!Accepts(tla) THEN Uart!next_data(tla) ELSE IF Uart!Completes THEN Nobody ELSE wire)
            = (IF UP!Accepts(tla) THEN UP!next_data(tla) ELSE IF UP!Completes THEN Nobody ELSE wire)
      BY SameAccess, SameUart
    <2> QED
      BY <1>1, <1>3, <2>1 DEF Uart!LinkTock, UP!LinkTock
  <1>5. Uart!LinkReset(tla) => UP!LinkReset(tla)
    BY <1>2, <1>3 DEF Uart!LinkReset, UP!LinkReset
  <1> QED
    BY <1>4, <1>5

LEMMA SameInit == Uart!LinkInit => UP!LinkInit
  BY SameUart DEF Uart!LinkInit, UP!LinkInit, Uart!Init, UP!Init, Uart!Bit, UP!Bit

----------------------------------------------------------------------------
(* What the core drives is an access of the UART.                          *)
LEMMA DrivenAccess == TypeOK => data_tla \in UartAccesses
  <1> SUFFICES ASSUME TypeOK PROVE data_tla \in UartAccesses
    OBVIOUS
  <1>1. BC_addr \in Nat /\ BC_reg2 \in Nat
    BY OperandTypes, Sizes DEF Word
  <1>2. Offset \in Nat
    <2> DEFINE n == WordCount \div RegionCount
    <2>1. n \in Nat /\ n > 0
      BY MapAssumption
    <2> HIDE DEF n
    <2>2. BC_addr % n \in Nat
      BY <1>1, <2>1
    <2> QED
      BY <2>2 DEF n, Offset
  <1>3. 4 * (Offset % 4) \in {0, 4, 8, 12}
    BY <1>2
  <1>4. LowByte(BC_reg2) \in Byte
    <2>1. ASSUME NEW i \in 0 .. 7 PROVE (BC_reg2 \div Weight[i + 1]) % 2 \in 0 .. 1
      <3>1. Weight[i + 1] \in Nat /\ Weight[i + 1] > 0
        BY DEF Weight
      <3>2. BC_reg2 \div Weight[i + 1] \in Int
        BY <1>1, <3>1
      <3> QED
        BY <3>2
    <2> QED
      BY <2>1 DEF LowByte, Byte
  <1>5. UartUnit \in {"tx", "rx", "other"}
    BY DEF UartUnit
  <1> QED
    BY <1>3, <1>4, <1>5 DEF data_tla, UartAccesses

(* Reset waits for nothing, so nothing has run before its end; and a load  *)
(* from the data region leaves the other devices silent.                   *)
InReset == resets < 2 => wire = Nobody /\ B_hpc = Idle

OthersSilent == CD_read_mem => ~debug_valid /\ ~tx_tld.valid /\ ~rx_tld.valid

TBInv == TypeOK /\ PipeInv /\ UP!TypeOK /\ UP!LinkInv /\ resets \in 0 .. 2 /\ InReset /\ OthersSilent

LEMMA TBStart == TBInit => TBInv
  <1> SUFFICES ASSUME TBInit PROVE TBInv
    OBVIOUS
  <1>1. TypeOK /\ PipeInv
    BY PipeInit DEF TBInit
  <1>2. UP!LinkInit
    BY SameInit DEF TBInit
  <1>3. UP!TypeOK /\ UP!LinkInv
    BY <1>2, UartAssumptions, UP!TypeStart, UP!LinkInvStart DEF UP!LinkInit
  <1>4. InReset
    BY <1>2 DEF TBInit, RefInit, Init, UP!LinkInit, InReset
  <1>5. OthersSilent
    BY DEF TBInit, RefInit, Init, Idle, from_logic1, OthersSilent, CD_read_mem, IsLoad
  <1> QED
    BY <1>1, <1>3, <1>4, <1>5 DEF TBInit, TBInv

LEMMA SilentStep ==
  ASSUME TypeOK, NEW x \in DONTCARE, SocTock(x)
  PROVE  OthersSilent'
  <1> SUFFICES ASSUME CD_read_mem' PROVE ~debug_valid' /\ ~tx_tld'.valid /\ ~rx_tld'.valid
    BY DEF OthersSilent
  <1>1. Region(BC_addr) = MemRegion
    BY DEF SocTock, RefTock, Tock, CD_read_mem, IsLoad
  <1>2. MemRegion # DebugRegion /\ MemRegion # UartRegion
    BY RegionAssumption, MapAssumption
  <1>3. ~debug_valid'
    BY <1>1, <1>2 DEF SocTock, RefTock, Tock, SocTick, DataTick
  <1>4. data_tla.unit = "other"
    BY <1>1, <1>2 DEF data_tla, UartUnit
  <1>5. tx_tld' = Uart!NoAnswer /\ rx_tld' = Uart!NoAnswer
    BY <1>4 DEF SocTock, Uart!LinkTock, Uart!Tock, Uart!TxAnswer, Uart!RxAnswer, Uart!StoresByte
  <1> QED
    BY <1>3, <1>5 DEF Uart!NoAnswer

(* A cycle of the SoC is one of the link.                                  *)
LEMMA LinkStep == TypeOK /\ [TBNext]_tbVars => [UP!LinkNext]_(UP!linkVars)
  <1> SUFFICES ASSUME TypeOK, [TBNext]_tbVars PROVE [UP!LinkNext]_(UP!linkVars)
    OBVIOUS
  <1>1. data_tla \in UartAccesses
    BY DrivenAccess
  <1>2. CASE TBNext
    BY <1>1, <1>2, SameLink DEF TBNext, Step, Boot, SocTock, SocReset, UP!LinkNext
  <1>3. CASE UNCHANGED tbVars
    BY <1>3 DEF tbVars, uartVars, UP!linkVars, UP!uartVars, UP!txVars, UP!rxVars, UP!helloVars
  <1> QED
    BY <1>2, <1>3

LEMMA TBStep == TBInv /\ [TBNext]_tbVars => TBInv'
  <1> SUFFICES ASSUME TBInv, [TBNext]_tbVars PROVE TBInv'
    OBVIOUS
  <1>1. TypeOK' /\ PipeInv'
    <2>1. [RefNext]_refVars
      BY DEF TBNext, Step, Boot, SocTock, SocReset, RefNext, tbVars
    <2> QED
      BY <2>1, PipeNext DEF TBInv
  <1>2. UP!TypeOK' /\ UP!LinkInv'
    <2>2. [UP!LinkNext]_(UP!linkVars)
      BY LinkStep DEF TBInv
    <2>3. [UP!Next]_(UP!uartVars)
      BY <2>2, UartAssumptions, UP!LinkRefines
    <2> QED
      BY <2>2, <2>3, UartAssumptions, UP!TypeStep, UP!LinkInvStep DEF TBInv
  <1>3. ASSUME NEW x \in DONTCARE, Step(x) PROVE resets' \in 0 .. 2 /\ InReset' /\ OthersSilent'
    <2>1. resets = 2 /\ resets' = 2
      BY <1>3 DEF Step
    <2> QED
      BY <1>3, <2>1, SilentStep DEF Step, InReset, TBInv
  <1>4. ASSUME NEW x \in DONTCARE, Boot(x) PROVE resets' \in 0 .. 2 /\ InReset' /\ OthersSilent'
    <2>1. resets' \in 0 .. 2
      BY <1>4 DEF Boot, TBInv
    <2>2. wire' = Nobody /\ B_hpc' = Idle
      BY <1>4 DEF Boot, SocReset, Uart!LinkReset, RefReset, Reset
    <2>3. C_hpc' = Idle
      BY <1>4 DEF Boot, SocReset, RefReset, Reset
    <2> QED
      BY <2>1, <2>2, <2>3 DEF InReset, OthersSilent, CD_read_mem, IsLoad, Idle, from_logic1
  <1>5. CASE UNCHANGED tbVars
    <2>1. resets' \in 0 .. 2 /\ InReset'
      BY <1>5 DEF tbVars, refVars, vars, pipeVars, uartVars, InReset, TBInv
    <2>2. OthersSilent'
      BY <1>5 DEF tbVars, refVars, vars, pipeVars, socVars, uartVars, OthersSilent, CD_read_mem, TBInv
    <2> QED
      BY <1>1, <1>2, <2>1, <2>2 DEF TBInv
  <1> QED
    BY <1>1, <1>2, <1>3, <1>4, <1>5 DEF TBNext, TBInv

LEMMA TBInvariant == TBSpec => []TBInv
  BY TBStart, TBStep, PTL DEF TBSpec

----------------------------------------------------------------------------
(* A load never takes the answer of another device, or the answer to the   *)
(* access of the other slot (soc:45-59).                                   *)
THEOREM AnswersNeverMix == TBSpec => []AnswersMatch
  <1>1. TBInv => AnswersMatch
    BY DEF TBInv, OthersSilent, AnswersMatch, soc_data_tld, data_tld
  <1> QED
    BY <1>1, TBInvariant, PTL

(* The fifth console prints the bytes on the wire, each once and as it was *)
(* sent, at every baud rate (pinwheel_sim.cpp:22-32).                      *)
LEMMA ShowsStep == TBInv /\ [TBNext]_tbVars =>
  [console5' = IF wire # Nobody /\ wire' # wire
               THEN Con!putchar(console5, Uart!Value(wire)) ELSE console5]_tbVars
  <1> SUFFICES ASSUME TBInv, TBNext
               PROVE  console5' = IF wire # Nobody /\ wire' # wire
                                  THEN Con!putchar(console5, Uart!Value(wire)) ELSE console5
    OBVIOUS
  <1>1. ASSUME NEW x \in DONTCARE, Boot(x) PROVE console5' = console5 /\ wire = Nobody
    BY <1>1 DEF Boot, TBInv, InReset
  <1>2. ASSUME NEW x \in DONTCARE, Step(x), UP!Completes
        PROVE  wire # Nobody /\ wire' # wire /\ console5' = Con!putchar(console5, Uart!Value(wire))
    <2>1. UP!LinkTock(data_tla)
      BY <1>2, SameLink DEF Step, SocTock
    <2>2. wire # Nobody /\ UP!Sampled = wire /\ tx_count = 8
      BY <1>2, UartAssumptions, UP!CompletesWire DEF TBInv
    <2>3. ~UP!Accepts(data_tla)
      BY <2>2 DEF UP!Accepts, UP!bit_count_done
    <2>4. wire' = Nobody
      BY <1>2, <2>1, <2>3 DEF UP!LinkTock
    <2>5. data_buf' = wire /\ rx_count = 7 /\ rx_count' = 8
      <3>1. rx_count = 7 /\ rx_delay = UP!bit_delay_max /\ UP!bit_delay_max \in Nat
        BY <1>2, UartAssumptions, UP!DelayMaxNat DEF UP!Completes
      <3>2. UP!RxTick(data_tla)
        BY <2>1 DEF UP!LinkTock, UP!Tock
      <3>3. data_buf' = wire
        BY <1>2, <2>2, <3>2 DEF UP!RxTick
      <3>4. ~UP!RxWait /\ ~UP!RxIdle
        BY <3>1 DEF UP!RxWait, UP!RxIdle, UP!rx_bit_count_max
      <3> QED
        BY <3>1, <3>2, <3>3, <3>4 DEF UP!RxTick, UP!RxSample
    <2>6. NewByte
      BY <2>5 DEF NewByte
    <2> QED
      BY <1>2, <2>2, <2>4, <2>5, <2>6 DEF Step
  <1>3. ASSUME NEW x \in DONTCARE, Step(x), ~UP!Completes
        PROVE  (wire = Nobody \/ wire' = wire) /\ console5' = console5
    <2>1. UP!LinkTock(data_tla)
      BY <1>3, SameLink DEF Step, SocTock
    <2>2. UP!Accepts(data_tla) => wire = Nobody
      BY DEF TBInv, UP!TypeOK, UP!LinkInv, UP!Underway, UP!Accepts, UP!bit_count_done,
             UP!tx_bit_count_max
    <2>3. ~UP!Accepts(data_tla) => wire' = wire
      BY <1>3, <2>1 DEF UP!LinkTock
    <2>4. ~NewByte
      BY <1>3, <2>1
         DEF NewByte, TBInv, UP!TypeOK, UP!LinkTock, UP!Tock, UP!RxTick, UP!Completes,
             UP!RxWait, UP!RxSample, UP!RxIdle, UP!rx_bit_count_max
    <2> QED
      BY <1>3, <2>2, <2>3, <2>4 DEF Step
  <1> QED
    BY <1>1, <1>2, <1>3 DEF TBNext

(* The fifth console prints every byte of the wire once and unchanged.     *)
THEOREM ReceivedIsShown == TBSpec => Console5Shows
  BY TBInvariant, ShowsStep, PTL DEF TBSpec, Console5Shows

(* A store in phase B belongs to a thread that runs: a bubble prints       *)
(* nothing.                                                                *)
LEMMA StoresRun == TypeOK /\ PipeInv /\ B_insn.op = "STORE" => B_hpc.active = 1
  <1>1. TypeOK => B_hpc.active \in 0 .. 1
    BY DEF TypeOK, Hpc, Bit
  <1> QED
    BY <1>1, DecodeAssumption DEF PipeInv, BubbleInv, Bubble

(* The other consoles print what the thread whose turn it is stores, with  *)
(* the value it has in SmtMachine (core:228, pinwheel_sim.cpp:24-28).      *)
LEMMA PrintsStep == TBInv /\ [TBNext]_tbVars =>
  [\A r \in ConsoleRegions :
     legal' =>
       consoles'[r] = IF Smt!Stores(r) THEN Con!putchar(consoles[r], Smt!b % 256)
                      ELSE consoles[r]]_tbVars
  <1> SUFFICES ASSUME TBInv, TBNext, NEW r \in ConsoleRegions, legal'
               PROVE  consoles'[r] = IF Smt!Stores(r) THEN Con!putchar(consoles[r], Smt!b % 256)
                                     ELSE consoles[r]
    OBVIOUS
  <1>1. legal
    BY DEF TBNext, Step, Boot, SocTock, SocReset, RefTock, RefReset, Observe
  <1>2. Smt!b = BC_reg2 /\ Smt!addr = BC_addr
    BY <1>1, OperandsAgree DEF TBInv
  <1>3. Smt!Stores(r) <=> IsStore(B_hpc, B_insn, BC_addr, r)
    BY <1>2, SameIsa DEF Smt!Stores
  <1>4. B_insn.op = "STORE" => B_hpc.active = 1
    BY StoresRun DEF TBInv
  <1>5. ASSUME NEW x \in DONTCARE, Step(x)
        PROVE  consoles'[r] = IF Smt!Stores(r) THEN Con!putchar(consoles[r], Smt!b % 256)
                              ELSE consoles[r]
    <2>1. consoles'[r] = Con!tick(consoles[r], Region(BC_addr) = r, B_insn.op = "STORE", BC_reg2 % 256)
      BY <1>5 DEF Step, ConsolesTick
    <2>2. Region(BC_addr) = r /\ B_insn.op = "STORE" <=> Smt!Stores(r)
      BY <1>3, <1>4 DEF IsStore
    <2> QED
      BY <1>2, <2>1, <2>2, Zenon DEF Con!tick
  <1>6. ASSUME NEW x \in DONTCARE, Boot(x) PROVE consoles'[r] = consoles[r] /\ ~Smt!Stores(r)
    BY <1>3, <1>6 DEF Boot, TBInv, InReset, IsStore, Idle, from_logic1
  <1> QED
    BY <1>5, <1>6 DEF TBNext

(* A store prints at its turn, once, and nothing else prints.              *)
THEOREM StoresArePrinted == TBSpec => PrintsTurn
  BY TBInvariant, PrintsStep, PTL DEF TBSpec, PrintsTurn

(* The bus unit and the register that the transmitter's adapter sees are   *)
(* those of the store of the turn.                                         *)
LEMMA SendsAccess ==
  ASSUME TBInv, legal
  PROVE  (Sends <=> Uart!StoresByte(data_tla)) /\ data_tla.data = LowByte(Smt!b)
  <1>1. Smt!b = BC_reg2 /\ Smt!addr = BC_addr
    BY OperandsAgree DEF TBInv
  <1>2. Smt!Stores(UartRegion) <=> B_insn.op = "STORE" /\ Region(BC_addr) = UartRegion
    BY <1>1, SameIsa, StoresRun DEF Smt!Stores, IsStore, TBInv
  <1>3. data_tla.op = "PUT" <=> B_insn.op = "STORE"
    BY DEF data_tla
  <1>4. data_tla.unit = "tx" <=> Region(BC_addr) = UartRegion /\ Offset \div UartBlock = 0
    BY DEF data_tla, UartUnit
  <1>5. Offset \in Nat
    BY OperandTypes, Sizes, MapAssumption DEF TBInv, Word, Offset
  <1>6. data_tla.reg = 4 <=> Offset % 4 = 1
    <2>1. Offset % 4 \in 0 .. 3
      BY <1>5
    <2> QED
      BY <2>1 DEF data_tla
  <1> QED
    BY <1>1, <1>2, <1>3, <1>4, <1>6 DEF Sends, Offset, Uart!StoresByte, data_tla

LEMMA SendsStep == TBInv /\ [TBNext]_tbVars =>
  [legal' =>
     /\ wire = Nobody /\ wire' # Nobody =>
          wire' = IF Sends THEN LowByte(Smt!b) ELSE Message[cursor]
     /\ Sends /\ Uart!idle => wire' = LowByte(Smt!b)]_tbVars
  <1> SUFFICES ASSUME TBInv, TBNext, legal'
               PROVE  /\ wire = Nobody /\ wire' # Nobody =>
                           wire' = IF Sends THEN LowByte(Smt!b) ELSE Message[cursor]
                      /\ Sends /\ Uart!idle => wire' = LowByte(Smt!b)
    OBVIOUS
  <1>1. legal
    BY DEF TBNext, Step, Boot, SocTock, SocReset, RefTock, RefReset, Observe
  <1>2. (Sends <=> Uart!StoresByte(data_tla)) /\ data_tla.data = LowByte(Smt!b)
    BY <1>1, SendsAccess
  <1>3. ASSUME NEW x \in DONTCARE, Step(x)
        PROVE  /\ wire = Nobody /\ wire' # Nobody =>
                    wire' = IF Sends THEN LowByte(Smt!b) ELSE Message[cursor]
               /\ Sends /\ Uart!idle => wire' = LowByte(Smt!b)
    <2>1. wire' = IF Uart!Accepts(data_tla) THEN Uart!next_data(data_tla)
                  ELSE IF Uart!Completes THEN Nobody ELSE wire
      BY <1>3 DEF Step, SocTock, Uart!LinkTock
    <2>2. Uart!next_data(data_tla) = IF Sends THEN LowByte(Smt!b) ELSE Message[cursor]
      BY <1>2 DEF Uart!next_data
    <2>3. Sends /\ Uart!idle => Uart!Accepts(data_tla)
      BY <1>2 DEF Uart!idle, Uart!Accepts, Uart!Waiting, Uart!next_req, Uart!bit_delay_max,
                  Uart!tx_bit_count_max, Uart!bit_count_done
    <2> QED
      BY <2>1, <2>2, <2>3
  <1>4. ASSUME NEW x \in DONTCARE, Boot(x) PROVE wire' = Nobody /\ ~Sends
    <2>1. B_hpc = Idle
      BY <1>4 DEF Boot, TBInv, InReset
    <2>2. wire' = Nobody
      BY <1>4 DEF Boot, SocReset, Uart!LinkReset
    <2>3. Smt!Stores(UartRegion) <=> IsStore(B_hpc, B_insn, BC_addr, UartRegion)
      BY <1>1, OperandsAgree, SameIsa DEF TBInv, Smt!Stores
    <2> QED
      BY <2>1, <2>2, <2>3 DEF Sends, IsStore, Idle, from_logic1
  <1> QED
    BY <1>3, <1>4 DEF TBNext

(* The wire carries what the threads and the message client send.          *)
THEOREM StoresAreSent == TBSpec => SendsTurn
  BY TBInvariant, SendsStep, PTL DEF TBSpec, SendsTurn

(* Without stores to the transmitter only the message is typed.            *)
LEMMA ShownStep == TBInv /\ [TBNext]_tbVars =>
  [legal /\ ~Sends /\ UNCHANGED resets /\ Uart!OnMessage =>
     /\ Uart!OnMessage'
     /\ \/ UNCHANGED <<console5, Uart!Upcoming>>
        \/ /\ console5' = Con!putchar(console5, Uart!Value(Message[Uart!Upcoming]))
           /\ Uart!Upcoming' = (Uart!Upcoming + 1) % MessageLen]_tbVars
  <1> SUFFICES ASSUME TBInv, TBNext, legal, ~Sends, UNCHANGED resets, Uart!OnMessage
               PROVE  /\ Uart!OnMessage'
                      /\ \/ UNCHANGED <<console5, Uart!Upcoming>>
                         \/ /\ console5' = Con!putchar(console5, Uart!Value(Message[Uart!Upcoming]))
                            /\ Uart!Upcoming' = (Uart!Upcoming + 1) % MessageLen
    OBVIOUS
  <1>1. PICK x \in DONTCARE : Step(x)
    BY DEF TBNext, Boot, TBInv
  <1>2. data_tla \in UartAccesses /\ UP!TypeOK /\ UP!LinkInv
    BY DrivenAccess DEF TBInv
  <1>3. UP!LinkTock(data_tla) /\ ~UP!StoresByte(data_tla)
    BY <1>1, SendsAccess, SameAccess, SameLink DEF Step, SocTock
  <1>4. UP!Quiet
    BY <1>2, <1>3 DEF UP!Quiet
  <1>5. /\ Uart!Upcoming = UP!Upcoming /\ (Uart!OnMessage <=> UP!OnMessage)
        /\ Uart!Upcoming' = UP!Upcoming' /\ (Uart!OnMessage' <=> UP!OnMessage')
    BY DEF Uart!Upcoming, UP!Upcoming, Uart!OnMessage, UP!OnMessage
  <1>6. /\ UP!OnMessage'
        /\ IF wire # Nobody /\ wire' # wire THEN wire = Message[UP!Upcoming] /\ UP!HearsNext
           ELSE UP!HearsNothing
    BY <1>2, <1>4, <1>5, UartAssumptions, UP!InOrderStep
  <1>7. [console5' = IF wire # Nobody /\ wire' # wire
                     THEN Con!putchar(console5, Uart!Value(wire)) ELSE console5]_tbVars
    BY ShowsStep
  <1>8. CASE UNCHANGED tbVars
    BY <1>8 DEF tbVars, uartVars, Uart!OnMessage, Uart!Upcoming
  <1>9. CASE wire # Nobody /\ wire' # wire
    BY <1>5, <1>6, <1>7, <1>8, <1>9 DEF UP!HearsNext
  <1>10. CASE ~(wire # Nobody /\ wire' # wire)
    BY <1>5, <1>6, <1>7, <1>8, <1>10 DEF UP!HearsNothing
  <1> QED
    BY <1>9, <1>10

(* A program that leaves the transmitter alone leaves the message whole.   *)
THEOREM MessageIsShown == TBSpec => MessageShown
  BY TBInvariant, ShownStep, PTL DEF TBSpec, MessageShown

----------------------------------------------------------------------------
(* In the SoC the core and the link make only steps that they also make    *)
(* alone, so what is proved of each of them holds in the SoC.              *)
LEMMA SocIsCore == TBSpec => RefSpec
  <1>1. TBInit => RefInit
    BY DEF TBInit
  <1>2. [TBNext]_tbVars => [RefNext]_refVars
    BY DEF TBNext, Step, Boot, SocTock, SocReset, RefNext, tbVars
  <1> QED
    BY <1>1, <1>2, PTL DEF TBSpec, RefSpec

LEMMA SocIsLink == TBSpec => UP!LinkSpec
  <1>1. TBInit => UP!LinkInit
    BY SameInit DEF TBInit
  <1>2. TBInv => TypeOK
    BY DEF TBInv
  <1> QED
    BY <1>1, <1>2, TBInvariant, LinkStep, PTL DEF TBSpec, UP!LinkSpec

(* The programs of the SoC run on the machine of SmtMachine, on operands   *)
(* that are up to date, with threads that stay whole.                      *)
THEOREM SocRunsSmt ==
  TBSpec => /\ ImplementsSmt /\ []LawfulOperandsFresh
            /\ RegistersPrivate /\ ThreadsConserved
  BY SocIsCore, PipelineImplementsSmt, OperandsAreFresh, RegistersStayPrivate, ThreadsAreConserved

(* What the UART carries in the SoC goes through the channel of            *)
(* SerialChannel, no character of the message is passed over and none      *)
(* waits, while the core loads from and stores to it.                      *)
THEOREM SocCarriesBytes ==
  TBSpec => /\ UP!ImplementsChannel /\ UP!CharacterTaken
            /\ UP!MessageOnTime /\ UP!MessageInOrder
  <1>1. UP!LinkSpec => /\ UP!ImplementsChannel /\ UP!CharacterTaken
                       /\ UP!MessageOnTime /\ UP!MessageInOrder
    BY UartAssumptions, UP!UartImplementsChannel, UP!NoCharacterPassedOver, UP!MessageIsOnTime,
       UP!MessageHeardInOrder
  <1> QED
    BY <1>1, SocIsLink

----------------------------------------------------------------------------
(* The proofs about consoles; the rest of that module does not matter.     *)
NoWord == CHOOSE w : w \notin [0 .. 3 -> 0 .. 255]

DP == INSTANCE DataBusProofs
        WITH LaneSize <- 256, InitRam <- {}, Accesses <- {}, Nothing <- NoWord,
             C <- 0, rdata <- data_rdata, console <- console5

LEMMA BusAssumptions == DP!BusAssumption /\ DP!ScreenAssumption
  <1>1. NoWord \notin [0 .. 3 -> 0 .. 255]
    BY NoSetContainsEverything DEF NoWord
  <1>2. NoWord \notin DP!Word
    BY <1>1 DEF DP!Word, DP!Lane, DP!Byte
  <1>3. DP!BusAssumption
    BY <1>2, SizeAssumption DEF DP!BusAssumption
  <1>4. DP!ScreenAssumption
    BY ConsoleAssumption DEF DP!ScreenAssumption
  <1> QED
    BY <1>3, <1>4

LEMMA SameConsole ==
  /\ Con!NewConsole = DP!NewConsole
  /\ \A con, c : Con!putchar(con, c) = DP!putchar(con, c)
  /\ \A con : Text(con) = DP!LinesOf(con)
  <1>1. Con!NewConsole = DP!NewConsole
    BY DEF Con!NewConsole, DP!NewConsole, Con!Cells, DP!Cells, Con!Blank, DP!Blank
  <1>2. ASSUME NEW con, NEW c PROVE Con!putchar(con, c) = DP!putchar(con, c)
    BY DEF Con!putchar, DP!putchar, Con!Marked, DP!Marked, Con!Scrolled, DP!Scrolled,
           Con!Wrapped, DP!Wrapped, Con!Written, DP!Written, Con!Cursor, DP!Cursor,
           Con!Cells, DP!Cells, Con!Blank, DP!Blank
  <1>3. ASSUME NEW con PROVE Text(con) = DP!LinesOf(con)
    BY DEF Text, DP!LinesOf, DP!Columns, DP!Pos, Con!Blank, DP!Blank
  <1> QED
    BY <1>1, <1>2, <1>3

LEMMA SameScreens ==
  /\ Screen5!NewLine = DP!Screen!NewLine
  /\ \A ls : Screen5!Feed(ls) = DP!Screen!Feed(ls)
  /\ \A i, c, ls : Screen5!InLine(i, c, ls) = DP!Screen!InLine(i, c, ls)
  BY DEF Screen5!NewLine, DP!Screen!NewLine, Screen5!Feed, DP!Screen!Feed,
         Screen5!InLine, DP!Screen!InLine, Con!Blank, DP!Blank

LEMMA SameBusScreens ==
  ASSUME NEW r
  PROVE  /\ BusScreen(r)!NewLine = DP!Screen!NewLine
         /\ \A ls : BusScreen(r)!Feed(ls) = DP!Screen!Feed(ls)
         /\ \A i, c, ls : BusScreen(r)!InLine(i, c, ls) = DP!Screen!InLine(i, c, ls)
  BY DEF BusScreen!NewLine, DP!Screen!NewLine, BusScreen!Feed, DP!Screen!Feed,
         BusScreen!InLine, DP!Screen!InLine, Con!Blank, DP!Blank

(* A console that is tidy stays so, and what is put on it is typed.        *)
ScreensTidy == DP!Tidy(console5) /\ \A r \in ConsoleRegions : DP!Tidy(consoles[r])

LEMMA NewText == DP!Tidy(Con!NewConsole) /\ Text(Con!NewConsole) = <<DP!Screen!NewLine>>
  BY BusAssumptions, SameConsole, DP!NewTidy

LEMMA PutText ==
  ASSUME NEW con, DP!Tidy(con), NEW c \in Nat
  PROVE  LET new == Con!putchar(con, c)
             typed == DP!Screen!InLine(con.x, IF c = 0 THEN Question ELSE c, Text(con))
         IN /\ DP!Tidy(new)
            /\ c = LF => Text(new) = DP!Screen!Feed(Text(con)) /\ new.x = 0
            /\ c = CR => Text(new) = DP!Screen!InLine(0, Con!Blank, Text(con)) /\ new.x = 0
            /\ c \notin {LF, CR} =>
                 IF con.x = Width - 1 THEN Text(new) = DP!Screen!Feed(typed) /\ new.x = 0
                 ELSE /\ Text(new) = DP!Screen!InLine(con.x + 1, Con!Blank, typed)
                      /\ new.x = con.x + 1
  <1>1. /\ Con!putchar(con, c) = DP!putchar(con, c) /\ Text(con) = DP!LinesOf(con)
        /\ Text(DP!putchar(con, c)) = DP!LinesOf(DP!putchar(con, c))
        /\ Con!Blank = DP!Blank
    BY SameConsole DEF Con!Blank, DP!Blank
  <1>2. LET new == DP!putchar(con, c)
            ls == DP!LinesOf(con)
            typed == DP!Screen!InLine(con.x, IF c = 0 THEN Question ELSE c, ls)
        IN /\ DP!Tidy(new)
           /\ c = LF => DP!LinesOf(new) = DP!Screen!Feed(ls) /\ new.x = 0
           /\ c = CR => DP!LinesOf(new) = DP!Screen!InLine(0, DP!Blank, ls) /\ new.x = 0
           /\ c \notin {LF, CR} =>
                IF con.x = Width - 1 THEN DP!LinesOf(new) = DP!Screen!Feed(typed) /\ new.x = 0
                ELSE /\ DP!LinesOf(new) = DP!Screen!InLine(con.x + 1, DP!Blank, typed)
                     /\ new.x = con.x + 1
    BY BusAssumptions, DP!PutcharShows
  <1> QED
    BY <1>1, <1>2

(* A byte that is complete is received at once and only once.              *)
LEMMA ReceivedKey ==
  ASSUME TBInv, NEW x \in DONTCARE, Step(x)
  PROVE  /\ NewByte => Received' = Uart!Value(data_buf') /\ Uart!Value(data_buf') \in 0 .. 255
         /\ ~NewByte => Received' = Nobody
  <1>1. UP!RxTick(data_tla)
    BY SameLink DEF Step, SocTock, UP!LinkTock, UP!Tock
  <1>2. rx_delay \in 0 .. UP!bit_delay_max /\ rx_count \in 0 .. UP!rx_bit_count_max
        /\ UP!bit_delay_max \in Nat
    BY UartAssumptions, UP!DelayMaxNat DEF TBInv, UP!TypeOK
  <1>3. ASSUME NewByte PROVE Received' = Uart!Value(data_buf')
    <2>1. UP!RxSample
      BY <1>1, <1>3 DEF NewByte, UP!RxTick, UP!RxWait, UP!RxIdle, UP!rx_bit_count_max
    <2> QED
      BY <1>3, <2>1 DEF NewByte, UP!RxSample, Received, Uart!Value
  <1>4. ASSUME ~NewByte PROVE Received' = Nobody
    <2> SUFFICES ASSUME rx_count' = 8 PROVE rx_delay' # 0
      BY DEF Received
    <2>1. rx_count = 8
      BY <1>4 DEF NewByte
    <2>2. UP!RxWait
      BY <1>1, <1>2, <2>1 DEF UP!RxTick, UP!RxSample, UP!RxIdle, UP!rx_bit_count_max
    <2> QED
      BY <1>2, <2>2 DEF UP!RxWait
  <1>5. Uart!Value(data_buf') \in 0 .. 255
    <2>1. data_buf' \in UP!Byte
      BY TBStep DEF TBInv, TBNext, UP!TypeOK
    <2>2. \A i \in 0 .. 7 : data_buf'[i] \in 0 .. 1
      BY <2>1 DEF UP!Byte, UP!Bit
    <2>3. /\ data_buf'[0] \in 0 .. 1 /\ data_buf'[1] \in 0 .. 1 /\ data_buf'[2] \in 0 .. 1
          /\ data_buf'[3] \in 0 .. 1 /\ data_buf'[4] \in 0 .. 1 /\ data_buf'[5] \in 0 .. 1
          /\ data_buf'[6] \in 0 .. 1 /\ data_buf'[7] \in 0 .. 1
      BY <2>2
    <2> QED
      BY <2>3 DEF Uart!Value
  <1> QED
    BY <1>3, <1>4, <1>5

LEMMA Console5Step ==
  ASSUME TBInv, DP!Tidy(console5), [TBNext]_tbVars
  PROVE  DP!Tidy(console5)' /\ [Screen5!TermNext]_(Screen5!termVars)
  <1> DEFINE c == Uart!Value(data_buf')
  <1>1. ASSUME NEW x \in DONTCARE, Step(x), NewByte
        PROVE  DP!Tidy(console5)' /\ Screen5!TermNext
    <2>1. console5' = Con!putchar(console5, c) /\ Received' = c /\ c \in 0 .. 255 /\ c \in Nat
      BY <1>1, ReceivedKey DEF Step
    <2> HIDE DEF c
    <2>2. DP!Tidy(console5)'
      BY <2>1, PutText
    <2>3. CASE c = LF
      <3>1. Screen5!LineFeed
        BY <2>1, <2>3, PutText, SameScreens DEF Screen5!LineFeed
      <3> QED
        BY <2>2, <3>1 DEF Screen5!TermNext
    <2>4. CASE c = CR
      <3>1. Screen5!CarriageReturn
        BY <2>1, <2>4, PutText, SameScreens DEF Screen5!CarriageReturn
      <3> QED
        BY <2>2, <3>1 DEF Screen5!TermNext
    <2>5. CASE c \notin {LF, CR}
      <3>1. Screen5!Type(c)
        BY <2>1, <2>5, PutText, SameScreens DEF Screen5!Type
      <3> QED
        BY <2>1, <2>2, <2>5, <3>1 DEF Screen5!TermNext
    <2> QED
      BY <2>3, <2>4, <2>5
  <1>2. ASSUME console5' = console5, Received' = Nobody
        PROVE  DP!Tidy(console5)' /\ Screen5!TermNext
    <2>1. Text(console5)' = Text(console5)
      BY <1>2
    <2> QED
      BY <1>2, <2>1 DEF Screen5!TermNext, Screen5!Rest
  <1>3. ASSUME NEW x \in DONTCARE, Step(x), ~NewByte
        PROVE  console5' = console5 /\ Received' = Nobody
    BY <1>3, ReceivedKey DEF Step
  <1>4. ASSUME NEW x \in DONTCARE, Boot(x) PROVE console5' = console5 /\ Received' = Nobody
    <2>1. rx_count' = UP!rx_bit_count_max
      BY <1>4, SameLink DEF Boot, SocReset, UP!LinkReset, UP!Reset, UP!RxReset
    <2> QED
      BY <1>4, <2>1 DEF Boot, Received, UP!rx_bit_count_max
  <1>5. CASE UNCHANGED tbVars
    <2>1. console5' = console5 /\ Received' = Received
      BY <1>5 DEF tbVars, uartVars, Received
    <2>2. Text(console5)' = Text(console5)
      BY <2>1
    <2> QED
      BY <2>1, <2>2 DEF Screen5!termVars
  <1> QED
    BY <1>1, <1>2, <1>3, <1>4, <1>5 DEF TBNext

(* What phase B stores is in phase C in the next cycle.                    *)
LEMMA StoredKey ==
  ASSUME TBInv, NEW x \in DONTCARE, Step(x), NEW r \in ConsoleRegions
  PROVE  /\ BC_reg2 % 256 \in 0 .. 255
         /\ Stored(r)' = IF Region(BC_addr) = r /\ B_insn.op = "STORE"
                         THEN BC_reg2 % 256 ELSE Nobody
  <1>1. C_hpc' = B_hpc /\ C_insn' = B_insn /\ C_addr' = BC_addr /\ C_result' = BC_result(x)
    BY DEF Step, SocTock, RefTock, Tock
  <1>2. Stored(r)' = IF IsStore(B_hpc, B_insn, BC_addr, r) THEN BC_result(x) % 256 ELSE Nobody
    BY <1>1 DEF Stored, IsStore, Region
  <1>3. B_insn.op = "STORE" => B_hpc.active = 1 /\ BC_result(x) = BC_reg2
    BY StoresRun DEF TBInv, BC_result, execute, IsYield, IsSwap
  <1>4. BC_reg2 \in Nat
    BY OperandTypes, Sizes DEF TBInv, Word
  <1> QED
    BY <1>2, <1>3, <1>4 DEF IsStore

LEMMA BusScreenStep ==
  ASSUME TBInv, NEW r \in ConsoleRegions, DP!Tidy(consoles[r]), TBNext
  PROVE  DP!Tidy(consoles[r])' /\ BusScreen(r)!TermNext
  <1> DEFINE c == BC_reg2 % 256
             stores == Region(BC_addr) = r /\ B_insn.op = "STORE"
  <1>1. ASSUME NEW x \in DONTCARE, Step(x), stores
        PROVE  DP!Tidy(consoles[r])' /\ BusScreen(r)!TermNext
    <2>1. consoles[r]' = Con!putchar(consoles[r], c) /\ Stored(r)' = c
          /\ c \in 0 .. 255 /\ c \in Nat
      BY <1>1, StoredKey DEF Step, ConsolesTick, Con!tick
    <2>2. /\ Text(consoles[r])' = Text(Con!putchar(consoles[r], c))
          /\ consoles[r].x' = Con!putchar(consoles[r], c).x
          /\ DP!Tidy(consoles[r])' <=> DP!Tidy(Con!putchar(consoles[r], c))
      BY <2>1
    <2> HIDE DEF c
    <2>6. DP!Tidy(consoles[r])'
      BY <2>1, <2>2, PutText
    <2>7. /\ \A ls : BusScreen(r)!Feed(ls) = DP!Screen!Feed(ls)
          /\ \A i, d, ls : BusScreen(r)!InLine(i, d, ls) = DP!Screen!InLine(i, d, ls)
      BY SameBusScreens
    <2>3. CASE c = LF
      <3>1. BusScreen(r)!LineFeed
        BY <2>1, <2>2, <2>3, <2>7, PutText DEF BusScreen!LineFeed
      <3> QED
        BY <2>6, <3>1 DEF BusScreen!TermNext
    <2>4. CASE c = CR
      <3>1. BusScreen(r)!CarriageReturn
        BY <2>1, <2>2, <2>4, <2>7, PutText DEF BusScreen!CarriageReturn
      <3> QED
        BY <2>6, <3>1 DEF BusScreen!TermNext
    <2>5. CASE c \notin {LF, CR}
      <3>1. BusScreen(r)!Type(c)
        BY <2>1, <2>2, <2>5, <2>7, PutText DEF BusScreen!Type
      <3> QED
        BY <2>1, <2>5, <2>6, <3>1 DEF BusScreen!TermNext
    <2> QED
      BY <2>3, <2>4, <2>5
  <1>2. ASSUME consoles[r]' = consoles[r], Stored(r)' = Nobody
        PROVE  DP!Tidy(consoles[r])' /\ BusScreen(r)!TermNext
    <2>1. Text(consoles[r])' = Text(consoles[r])
      BY <1>2
    <2> QED
      BY <1>2, <2>1 DEF BusScreen!TermNext, BusScreen!Rest
  <1>3. ASSUME NEW x \in DONTCARE, Step(x), ~stores
        PROVE  consoles[r]' = consoles[r] /\ Stored(r)' = Nobody
    BY <1>3, StoredKey DEF Step, ConsolesTick, Con!tick
  <1>4. ASSUME NEW x \in DONTCARE, Boot(x) PROVE consoles[r]' = consoles[r] /\ Stored(r)' = Nobody
    BY <1>4 DEF Boot, SocReset, RefReset, Reset, Stored, IsStore, Idle, from_logic1
  <1> QED
    BY <1>1, <1>2, <1>3, <1>4 DEF TBNext

LEMMA ScreensStart ==
  TBInit => /\ ScreensTidy /\ Screen5!TermInit
            /\ \A r \in ConsoleRegions : BusScreen(r)!TermInit
  <1> SUFFICES ASSUME TBInit
               PROVE  /\ ScreensTidy /\ Screen5!TermInit
                      /\ \A r \in ConsoleRegions : BusScreen(r)!TermInit
    OBVIOUS
  <1>1. console5 = Con!NewConsole /\ \A r \in ConsoleRegions : consoles[r] = Con!NewConsole
    BY DEF TBInit
  <1>2. Received = Nobody
    BY SameInit, SameUart DEF TBInit, UP!LinkInit, UP!Init, Received, UP!rx_bit_count_max
  <1>3. \A r : Stored(r) = Nobody
    BY DEF TBInit, RefInit, Init, Stored, IsStore, Idle, from_logic1
  <1>4. Con!NewConsole.x = 0
    BY DEF Con!NewConsole
  <1>5. Screen5!TermInit
    BY <1>1, <1>2, <1>4, NewText, SameScreens DEF Screen5!TermInit
  <1>6. ASSUME NEW r \in ConsoleRegions PROVE BusScreen(r)!TermInit
    BY <1>1, <1>3, <1>4, NewText, SameBusScreens DEF BusScreen!TermInit
  <1> QED
    BY <1>1, <1>5, <1>6, NewText DEF ScreensTidy

LEMMA ScreensStep ==
  TBInv /\ ScreensTidy /\ [TBNext]_tbVars =>
    /\ ScreensTidy' /\ [Screen5!TermNext]_(Screen5!termVars)
    /\ [\A r \in ConsoleRegions : BusScreen(r)!TermNext]_tbVars
  <1> SUFFICES ASSUME TBInv, ScreensTidy, [TBNext]_tbVars
               PROVE  /\ ScreensTidy' /\ [Screen5!TermNext]_(Screen5!termVars)
                      /\ [\A r \in ConsoleRegions : BusScreen(r)!TermNext]_tbVars
    OBVIOUS
  <1>1. DP!Tidy(console5)' /\ [Screen5!TermNext]_(Screen5!termVars)
    BY Console5Step DEF ScreensTidy
  <1>2. ASSUME TBNext, NEW r \in ConsoleRegions
        PROVE  DP!Tidy(consoles[r])' /\ BusScreen(r)!TermNext
    BY <1>2, BusScreenStep DEF ScreensTidy
  <1>3. ASSUME UNCHANGED tbVars, NEW r \in ConsoleRegions PROVE DP!Tidy(consoles[r])'
    BY <1>3 DEF tbVars, ScreensTidy
  <1> QED
    BY <1>1, <1>2, <1>3 DEF ScreensTidy

(* In the whole SoC the fifth console is a terminal that types the bytes   *)
(* whose bits were sampled on the serial line, for every size of the       *)
(* screen, every rate and all programs (console:28-71, pinwheel_sim:22).   *)
THEOREM WireIsTyped == TBSpec => Console5Types
  BY TBInvariant, ScreensStart, ScreensStep, PTL DEF TBSpec, Console5Types, Screen5!TermSpec

(* And each of the others types what the threads store to its region.      *)
THEOREM StoresAreTyped == TBSpec => ConsolesType
  BY TBInvariant, ScreensStart, ScreensStep, PTL DEF TBSpec, ConsolesType
=============================================================================
