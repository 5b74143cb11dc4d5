------------------------------- MODULE DataBus -------------------------------
(***************************************************************************)
(* The data bus of the SoC to the byte: what gen_bus makes of a load or    *)
(* store, what the data RAM, the debug register and a console do with it,  *)
(* and what unpack_mem makes of the answer one cycle later, while the next *)
(* access is on the bus.  A word is the function of its four lanes.  The   *)
(* UART answers in other regions than the ones here (module PinwheelTB).   *)
(***************************************************************************)
EXTENDS Console

CONSTANTS
  LaneSize,   \* 2^8
  DataSize,   \* data_dwords of the SoC
  InitRam,    \* contents of data_ram at the start
  Accesses,   \* what phase B may put on the bus
  Nothing

Lane == 0 .. 3
Byte == 0 .. LaneSize - 1
Word == [Lane -> Byte]

(* The instruction's kind and funct3, the region and the rest of the       *)
(* address, and the second operand.  funct3 is a legal one: sb, sh, sw or  *)
(* lb, lh, lw, lbu, lhu.                                                   *)
Access == [op : {"NONE", "LOAD", "STORE"}, f3 : {0, 1, 2, 4, 5},
           region : {"mem", "debug", "console", "other"}, offset : Nat, reg2 : Word]

Zero == [i \in Lane |-> 0]
NoAccess == [op |-> "NONE", f3 |-> 0, region |-> "other", offset |-> 0, reg2 |-> Zero]

ASSUME BusAssumption ==
  /\ LaneSize \in Nat \ {0, 1} /\ DataSize \in Nat \ {0}
  /\ InitRam \subseteq [0 .. DataSize - 1 -> Word]
  /\ Accesses \subseteq Access /\ \A a \in Accesses : a.op = "STORE" => a.f3 < 3
  /\ Nothing \notin Word

VARIABLES
  C,                   \* the access of the instruction in phase C
  ram, rdata,          \* data_ram and its output
  debug, debug_valid,  \* test_reg
  console              \* one of the four

busVars == <<C, ram, rdata, debug, debug_valid, console>>

TypeOK ==
  /\ C \in Access /\ ram \in [0 .. DataSize - 1 -> Word] /\ {rdata, debug} \subseteq Word
  /\ debug_valid \in BOOLEAN
  /\ console.buf \in [Cells -> Nat] /\ console.x \in 0 .. Width - 1 /\ console.y \in 0 .. Height - 1

----------------------------------------------------------------------------
(* gen_bus.                                                                *)
lane(a) == a.offset % 4
cell(a) == (a.offset \div 4) % DataSize

bus_bytes(a) == CASE a.f3 = 0 -> 1 [] a.f3 = 1 -> 2 [] a.f3 = 2 -> 4 [] OTHER -> 0

(* Mutant: the mask wraps around to the low lanes.                         *)
a_mask_Wraps(a) == {i \in Lane : (i - lane(a)) % 4 < bus_bytes(a)}

(* The mask is shifted to the lanes of the address and cut to four bits.   *)
a_mask(a) == {i \in Lane : i - lane(a) \in 0 .. bus_bytes(a) - 1}

a_data(a) == [i \in Lane |-> IF i >= lane(a) THEN a.reg2[i - lane(a)] ELSE 0]

a_valid(a) == a.op \in {"LOAD", "STORE"}
puts(a)    == a.op = "STORE"    \* PutFullData or PutPartialData

----------------------------------------------------------------------------
Merge(old, new, mask) == [i \in Lane |-> IF i \in mask THEN new[i] ELSE old[i]]

selects(a, region) == a_valid(a) /\ a.region = region

(* bus_ram::tock_b and block_ram::tock: the output is the old word.        *)
RamTock(a) ==
  /\ rdata' = ram[cell(a)]
  /\ ram' = IF selects(a, "mem") /\ puts(a)
            THEN [ram EXCEPT ![cell(a)] = Merge(ram[cell(a)], a_data(a), a_mask(a))] ELSE ram

(* test_reg::tick.                                                         *)
DebugTick(a) ==
  /\ debug_valid' = selects(a, "debug")
  /\ debug' = IF selects(a, "debug") /\ puts(a)
              THEN Merge(debug, a_data(a), a_mask(a)) ELSE debug

ConsoleTick(a) == console' = tick(console, a.region = "console", puts(a), a_data(a)[0])

data_tld == IF debug_valid THEN debug ELSE rdata

Down(word, n) == [i \in Lane |-> IF i + n \in Lane THEN word[i + n] ELSE 0]

extend(word, n, signed) ==
  [i \in Lane |-> IF i < n THEN word[i]
                  ELSE IF signed /\ 2 * word[n - 1] >= LaneSize THEN LaneSize - 1 ELSE 0]

unpack_mem(f3, a, packed) ==
  LET mem == Down(packed, lane(a))
  IN CASE f3 = 0 -> extend(mem, 1, TRUE)  [] f3 = 1 -> extend(mem, 2, TRUE)
       [] f3 = 4 -> extend(mem, 1, FALSE) [] f3 = 5 -> extend(mem, 2, FALSE)
       [] OTHER -> mem

(* What phase C writes back: only a load from the data region takes an     *)
(* answer from the bus.                                                    *)
CD_read_mem  == C.op = "LOAD" /\ C.region = "mem"
CD_writeback == IF CD_read_mem THEN unpack_mem(C.f3, C, data_tld) ELSE Nothing

----------------------------------------------------------------------------
Cycle(a) == RamTock(a) /\ DebugTick(a) /\ ConsoleTick(a) /\ C' = a

(* The constructors, a DONTCARE being 0; no one sets the RAM's output.     *)
Init ==
  /\ C = NoAccess /\ ram \in InitRam /\ rdata \in Word
  /\ debug = Zero /\ debug_valid = FALSE /\ console = NewConsole

Next == \E a \in Accesses : Cycle(a)

Spec == Init /\ [][Next]_busVars

----------------------------------------------------------------------------
(* Loads and stores of bytes, half-words and words, aligned or not, on     *)
(* memory and debug register, back to back in any order, do what a memory  *)
(* of bytes does, and no answer is mistaken for that of another access     *)
(* (core:338-383, bus_ram:39-67, block_ram:25-40, test_reg:35-48, soc:45). *)
Memory == INSTANCE ByteMemory
            WITH ByteSize <- LaneSize, ByteCount <- 4 * DataSize,
                 InitBytes <- {[k \in 0 .. 4 * DataSize - 1 |-> r[k \div 4][k % 4]] : r \in InitRam},
                 bytes <- [k \in 0 .. 4 * DataSize - 1 |-> ram[k \div 4][k % 4]],
                 register <- debug, last <- C, answer <- CD_writeback

ImplementsByteMemory == Memory!MemSpec

(* What is printed is the low byte of the bus, whatever the lanes the      *)
(* store is for: a byte stored at an odd address prints '?'.               *)
Printed == IF C.op = "STORE" /\ C.region = "console"
           THEN IF C.offset % 4 = 0 THEN C.reg2[0] ELSE 0
           ELSE Nothing

Shown(i, k) == IF i = console.x /\ k = console.y THEN Blank ELSE console.buf[k * Width + i]

(* The flat buffer with its wrapping, scrolling and cursor glyph shows     *)
(* what a terminal with its lines would show, whatever is stored to it     *)
(* (console:28-71).                                                        *)
Screen == INSTANCE Terminal
            WITH Chars <- Byte, Nobody <- Nothing, key <- Printed, column <- console.x,
                 lines <- [k \in 1 .. console.y + 1 |-> [i \in 0 .. Width - 1 |-> Shown(i, k - 1)]]

ImplementsTerminal == Screen!TermSpec

(* Below the line of the cursor there is no text, and as long as nobody    *)
(* prints the glyph's own code there is one only at the cursor: it leaves  *)
(* no trail however the text wraps and scrolls (console:29, 45-56).        *)
BelowBlank ==
  \A k \in console.y + 1 .. Height - 1, i \in 0 .. Width - 1 : console.buf[k * Width + i] = Blank

PrintsGlyph(a) == a.region = "console" /\ puts(a) /\ a_data(a)[0] = Glyph

CursorInv ==
  /\ BelowBlank
  /\ (\A a \in Accesses : ~PrintsGlyph(a)) =>
       \A i \in Cells : console.buf[i] = Glyph => i = Cursor(console)
=============================================================================
