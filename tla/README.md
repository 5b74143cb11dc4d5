# Pinwheel, verified

TLA+ models, TLC runs and TLAPS proofs for [pinwheel](../src/README.md), a
RISC-V microcontroller core that runs two hardware threads in one four-phase
pipeline.  Paths below are relative to `src/`; `core:99` is line 99 of
`pinwheel/core/pinwheel_core.h`.

## 1. The system

| component | state | operations | talks to |
|---|---|---|---|
| **core** `pinwheel/core/pinwheel_core.h` | the thread words (`hpc`: active, hart, pc) of phases A, B, C; the instructions of B and C; address and result of C; the register write of D | `tock` (one clock cycle), reset | drives the code bus, the data bus and the register ports; gets the RAM outputs of the previous cycle |
| **register file** `soc/regfile.h` | two copies of 256 words, two output registers | one read per copy and one common write per cycle, with a write-port bypass | core |
| **code and data RAM** `soc/bus_ram.h`, `soc/block_ram.h` | the words, one output register | read one word per cycle, write its masked bytes | code bus, data bus |
| **debug register** `soc/test_reg.h` | a word, "answered last cycle" | masked write; answer | data bus |
| **SoC** `soc/pinwheel_soc.h` | none | orders the ticks, multiplexes the answers on the data bus | all of the above and the UART |
| **UART** `uart/uart_tx.h`, `uart_rx.h`, `uart_hello.h`, `uart_tilelink.h` | bit counters and shift registers, message cursor, byte and flag, checksum | one tick per cycle each | transmitter feeds the receiver; both sit on the data bus |
| **simulator thread** `simulator/sim_thread.*` | four flags, a mutex, a condition variable | `start`, `stop`, `pause`, `resume`, the thread's main loop | the application and the simulation share the SoC state |
| **simulator, application** `simulator/pinwheel_sim.*`, `simulator/pinwheel_app.*` | steps to run, stack of snapshots, running and fast mode | `step`, keyboard events, update and drawing of a frame | SoC state, simulator thread |
| **console** `soc/console.*` | a text buffer, a cursor | `putchar` | consoles 1 to 4 print what is stored to their regions of the data bus, console 5 what the UART receives |

A hart in phase B at one cycle executes its instruction; at the next cycle that
instruction is in C and the hart's *next* instruction is fetched for A, while the
hart that was in A is in B.  So two harts alternate, one instruction each per two
cycles, and a slot without a thread carries bubbles.  Each of the two custom
instructions exchanges a register for a running thread: `csrrw 0x801` (*yield*)
the thread that executes it, one cycle after its fetch; `csrrw 0x800` (*swap*) the
thread in the *other* slot, and only one cycle later, in phase C, after that thread
has executed one more instruction.  Registers of threads that are not running can
be reached as memory at 0xExxx'xxxx, and code memory can be written, when the other
slot leaves the port or the bus free.

What is hard here is not an instruction but what two of them do to each other
three cycles apart: operands are read one cycle before they are used and written
three cycles after they were fetched; the register read port and the code bus are
shared between slots; a swap is split in two and can meet a yield half way; reset
arrives in the middle of it all.  The hazards are listed, each at its line, in
`PROJECT.json`.

What makes each part correct:

- core: a program sees whole instructions on up-to-date registers, and a thread is
  changed only by itself or through the documented doors; a thread that is moved
  around is neither lost nor doubled.
- data bus: a load gives the bytes that the stores before it left, whatever their
  sizes and lanes, and every answer meets its own access.
- console: its flat buffer shows a column of lines; the cursor stays inside and its
  glyph leaves no copies.
- UART: a byte that is taken arrives unchanged and before the next one; no byte is
  flagged twice or not at all; the message goes out completely, on time and in order.
- simulator thread: the two threads never touch the simulation at the same time,
  pausing always succeeds, halting always ends, and no step is done that was not
  asked for.

## 2. The modules

```
PinwheelIsa                words, thread words, regions, what one instruction computes
  PinwheelCore             the pipeline with register file, RAMs and debug register
    PinwheelRefinement     history variables, mapping to SmtMachine, lawful properties
      MCCore               the small instance: instruction table, programs, registers
      PinwheelProofs       types
        FreshnessProofs    the inductive invariant, operands
          RefinementProofs the refinement, mapped reads
            ThreadProofs   registers of other threads, threads that stay whole,
                           programs that are lawful by construction
  SmtMachine               the abstract machine: one whole instruction per turn

UartLink                   transmitter, receiver, message client, bus adapters
  UartRefinement           history variables, mapping to SerialChannel, invariants
    MCUart                 the small instance
    UartProofs             types, invariant, refinement, the message's timing and order
SerialChannel              the abstract channel: one byte at a time

SimState                   what both threads share, the event handlers, one step
  SimThread                the two threads, their flags, mutex, condition variable
    SimThreadProofs        mutual exclusion, pauses, refinement
  PinwheelApp              the abstract application: no threads
```

```
Console                    putchar, the bus side of a console
  DataBus                  byte lanes: gen_bus, the RAM, the debug register, a console,
                           unpack_mem; mappings to ByteMemory and Terminal
    MCDataBus              the small instance
    DataBusProofs          types, both refinements, the cursor
ByteMemory                 the abstract bus: a memory of bytes, no lanes
Terminal                   the abstract console: lines, no buffer and no glyph

PinwheelTB                 PinwheelRefinement, UartRefinement and five consoles in
                           one clock
  MCTestbench              the small instance
  TestbenchProofs          answers, printing, the consoles as terminals; on top of
                           ThreadProofs, UartProofs and DataBusProofs
```

PinwheelCore, UartLink, DataBus and SimThread can be read and checked alone.  What
another part does to one enters as an arbitrary input: the UART sees any access to
the data bus in any cycle, DataBus any sequence of accesses, and for the simulator
thread a step of the SoC is one increment of its tick counter.  PinwheelTB puts the
core, the UART and the consoles together with the arbitrary inputs replaced by what
the core drives, and shows what the separation relies on: the core never takes an
answer of the UART (`AnswersMatch`; its loads take the data bus only in region 8,
`core:119`, so a program can wait for the transmitter or fetch a received byte only
by looking at something else -- the cause of `debug_read` below).

### The core

**PinwheelIsa** is the pure part of the core.  The field widths are constants
(2^24, 2^7, 2^5, ... in the code); `Decode` maps every word to the fields of an
instruction and `Alu` is the arithmetic, both constants, so that what is checked
and proved does not depend on the instruction set's encoding.  Addresses count
words and stores are full words here; the bytes are DataBus's.

**PinwheelCore** is one step per clock.  Names are those of the source.

| source | model |
|---|---|
| `A_hpc_` ... `D_wren_` (core:543-555) | the variables of the same names |
| `ram_256x32` (regfile:22) | `ram`, `rs1data`, `rs2data`, `RamRead`, `RegfileTick` |
| `code_ram`, `data_ram`, `debug_reg` | `code`, `code_rdata`, `CodeTick`; `data`, `data_rdata`, `debug`, `debug_valid`, `DataTick` |
| the locals of `tock` (core:89-235) | the operators `AB_insn` ... `CD_wren` |
| `tick` with `reset_in` 0 / 1 (core:471-511) | the actions `Tock(x)` / `Reset(x)` |

The tick counter is left out.  A `DONTCARE` of the code, a value some build may
choose, is an element of the constant set `DONTCARE`, chosen once per cycle (`x`).

**SmtMachine** is what the core promises a programmer: threads take turns, a turn
executes one whole instruction on registers and memories that are simply up to
date.  Only two things are left of the pipeline because a program can see them: a
swap and a code store take effect one turn later, and the next instruction of a
thread is fetched at the end of its turn.  The promise holds for programs that keep
four rules (`LegalTurn`):

- `Housed`: only harts that have a register set run;
- `Rested`: the thread that gets a slot is neither the one in the other slot nor the
  one whose turn it was there one turn ago;
- `ColdMappedRead`: registers are read as memory only while the other slot is empty,
  by a thread that already had the previous turn of its slot, and neither its own
  registers nor those of the thread that ran one turn ago;
- `MappedWriteInReach`: registers are written as memory only while the other slot is
  empty and only where the write address reaches.

The last part of `Rested` and the "previous turn" of `ColdMappedRead` were not found
by testing programs but by the proof: without them the induction step fails, and
each failure turned out to be a program of swaps and yields that really reads a
stale register.  None of the rules is stated anywhere in the repository; the
violation runs show what happens to programs that follow its README instead.  One
more thing the rules permit and a programmer might not expect is part of SmtMachine:
a yield that meets the swap of its own thread is dropped (`Successor`), and the
thread is then in a slot and in a register.  A thread is a word, and words can be
copied and overwritten; `Careful` says of one turn that it does neither to the thread
of a given hart: a swap or a yield gives a register the thread of its slot and takes
another one out of it (`Exchange`), no other instruction writes a word that is that
thread or over one, and no swap meets a store to the same register.

**PinwheelRefinement** maps the pipeline to SmtMachine: the turn is the cycle in
which an instruction is in B; the registers a program sees are the RAM, over it the
write in D, over that the result of the instruction in C (`VisibleRegs`).  `legal` is
a history variable that is TRUE as long as the rules are kept, `D_hpc` one that
remembers whose instruction is in D.  `Places` are the slots and registers a hart's
thread is in, found in the pipeline and not in SmtMachine; `Copies` their number.
`ThreadsConserved` says that a careful cycle leaves a hart that is in one place in one
place, although a swap is spread over two cycles: the word it will start waits in C
while its register still holds it, and the thread it stops executes one more
instruction.  `RefSpec` allows a reset in any cycle, `BootSpec` only when the pipeline
is empty (`app_init`, and the first `tock(1)` of each test).

Two kinds of programs keep the rules by construction, so that a programmer need not
check every turn.  `SoloProgram` never swaps nor yields; it must only keep the rules
of mapped accesses (`OneThread`).  `WatchfulProgram(harts)` starts with no thread of
`harts` in two places and is careful with all of them in every turn; what it still has
to watch (`Watches`) is where it sends the *other* harts, that a stopped hart rests a
turn before it moves to the other slot, and its mapped accesses.  `harts` is a
parameter because a thread is only a word, and some words cannot be watched: 0x80000000
is hart 0, active, at pc 0, and the address of data memory.  A program with pointers to
data has many copies of "hart 0", is not careful with it and need not be; it watches
harts 1 to 7.

### The UART

**UartLink** is one step per clock for `pinwheel_soc::tock`'s UART part: `Tock(tla)`
and `Reset(tla)`, where `tla` is what the core puts on the data bus.  Every part
sees the others' state before the clock, as in the code, where `tock` computes from
the old registers.  `TxTick` (`Accept`, `NextBit`, `Pause`, `Rest`), `RxTick`
(`RxWait`, `RxSample`, `RxIdle`) and `HelloTick` (`StartMessage`, `NextCharacter`,
`EndMessage`, `HelloWaits`) are the branches of the three `tick` functions;
`TxAnswer` and `RxAnswer` the adapters, whose answers appear one cycle later, in
reset too.  A byte is the function of its bits.  `Init` is the constructors and the
resets of `app_init`; the data flag is left open because nothing initializes it.
The TileLink fields nothing reads are left out.

**SerialChannel** has a byte under way or none, a mailbox with a flag, and no bits
and no clock.  **UartRefinement** maps to it: the byte under way is a history
variable from the cycle the transmitter takes it to the one in which the receiver
completes it.

### The data bus and the console

**DataBus** is one step per clock: the access that phase B puts on the bus is any of
the constant set `Accesses` (kind, funct3, region, offset, operand), the one of the
cycle before is in phase C and takes its answer.  A word is the function of its four
lanes.  `a_mask`, `a_data`, `cell` are gen_bus (core:338) and bus_ram's addressing;
`RamTock`, `DebugTick`, `ConsoleTick` the three kinds of device; `Down`, `extend`,
`unpack_mem` the way back.  **ByteMemory** has bytes, addresses and sizes: the part
of an access that leaves its word is lost (a store) or zero (a load), which is what
the code does to misaligned accesses, and nothing else of lanes, masks and shifts is
left.

**Console** has the four statements of `putchar` as four operators, `Written`,
`Wrapped`, `Scrolled` and `Marked`; a console is a record.  **Terminal** has at most
`Height` lines and writes the last one.  Two oddities of the code are visible and
therefore part of it: the glyph overwrites the character under it, so a carriage
return wipes the first character of its line; and a console prints the lowest lane
of the bus, so a byte stored at an odd address prints `?`.

**PinwheelTB** is `PinwheelSim::step`: `SocTock`, then the four consoles on the bus,
then the fifth when `get_valid` rises (`NewByte`).  `Boot` is `app_init`'s two cycles
in reset, after which the simulator never resets the SoC.  `data_tla` cuts what the
core drives down to what the UART looks at, with the addresses of
`pinwheel_soc`'s constructor.

### The simulator

**SimThread** has a place for each thread and one action per access to a flag, to the
mutex or to the shared data.  `pause` is `Pause`, `Acked`, `AppBlock`, `AppRelock`;
`resume` is `Resume`, `NotifyResume`; `stop` is `Stop`, `NotifyStop`, `Join`;
`thread_main` is `SimLock` ... `EndStep`, with the wait's predicate read by read
(`WantExit`, `WantRun`, `WantWork`) and the reads of `busy()` that only choose a log
message (`Woken`, `Left`) as steps of their own.  `set` and `clear` write a flag and
notify; they are two actions where the caller does not hold the mutex and one where it
does, since nobody who is woken can then go on before the mutex is released.  A condition
variable may wake up by itself at any time (`SimSpurious`, `AppSpurious`).  Mutex,
condition variable, the snapshot stack `StatePointerStack` and `AppHost` are not in
the repository and modelled from their use.  **SimState** has the data: a snapshot is
its tick counter.  `MaxStates` bounds the snapshots and is not in the code.

**PinwheelApp** is the same without threads: update and drawing hold the simulation,
and in between it steps, on the top snapshot, while there are steps left to do.

## 3. The runs

### The core's instance

16 pcs, 8 harts of which 4 have registers, 4 registers each, a mapped write range of
8 (so that half of the register file is out of its reach, as in the code), 8 words of
code, 2 of data, and the 16 regions of the code with its region numbers.  `MCCore`
fills it with *every* program of a family: hart 0 loops over three instructions and
harts 1 and 2 over two, each chosen freely from the family's instructions, so that
every pair and triple of a family's instructions meets at every distance the pipeline
has (it is four deep, and the loops are shorter than the time two slots need to drift
through all alignments).  Registers start with thread words and addresses that make swaps,
yields and mapped accesses hit.  The constraint `Lawful` cuts a behaviour off after
its first unlawful turn, about which nothing is promised.  Each family puts together
what one question needs; merging them into one would only multiply the states.
The families of run `programs` are: threads that swap, yield, compute, load and store
(`ThreadImages`, with `Twins` for two harts that both slots want); threads that reach
each other's registers through memory, in and out of the write address's reach
(`MappedImages`); a thread that starts, stops and steps another (`SwapImages`); code
stores (`CodeImages`); and programs that are reset in any state (`ResetImages`).  A
family has the instructions that its question is about and not all fifteen: the runs
answer in minutes, and what the properties say of all instructions, sizes and programs
is what the proofs are for.
`DONTCARE` is 8, not the value any register has after a reset, except in PinwheelTB,
where it is 0.

### The data bus's instance

Bytes have six values, three of them negative; the RAM has two words, so that
addresses wrap; the screen is 2 by 3, so that a line wraps, the text scrolls more
than once and a cleared line reaches the cursor.  The accesses are every load and store size
at every lane of RAM and debug register, words at two more addresses of the RAM, and
stores to the console: a zero, a letter, the line feed and the carriage return, a byte
at an odd address, and a word.  The constraint
`OneDevice` ends a behaviour when a second device is written: the devices share only
the answer of the last access, and any two accesses still follow each other.  As
in the code the glyph's number (30 there, 5 here) is a byte that a program can print,
and one that prints it puts glyphs wherever it likes.  So what `CursorInv` says of the
glyph is about programs that never do (`PrintsGlyph`), such as the instance's;
`BelowBlank` and `ImplementsTerminal` hold without that.

### The testbench's instance

The core of `MCCore`, with programs in which hart 0 starts and stops hart 1 and both
load and store.  There are three register files: hart 0 points to a console and hart 1
to the transmitter; hart 0 to the word of data RAM that has the transmitter's offset and
hart 1 to the receiver; hart 0 to the debug register and hart 1 to data RAM.  Two cycles
per bit; a message of two
characters, one of them a line feed; screens of 2 by 2; two consoles on the bus.
The message is sent again and again, so that console 5 wraps and scrolls.
A thread's store to the transmitter meets both an idle one and the end of a frame of
the message, and a store to the data RAM has the offset of the transmitter's register:
for `MessageShown` the first is a store that breaks into the message and the second one
that must not.

### The UART's instance

Three cycles per bit (two would make the delay counters a single bit, and the proofs
cover every rate), a message of two characters with different bits, a third byte
stored by the core, checksums modulo 8, and in every cycle any of nine accesses that
reach every branch of the adapters.

### The simulator's instance

Three values of the tick counter (so that it wraps), manual steps of 1 or 2, 1 step
per frame while running and 2 in fast mode, up to 3 snapshots.  The number of frames
is not bounded.

### Passing runs

| run | specification | checks | shows |
|---|---|---|---|
| `programs` | ProgramSpec | `TypeOK`, `PipeInv`, `LawfulOperandsFresh`, `LawfulMappedReadFresh`, `ImplementsSmt`, `RegistersPrivate`, `ThreadsConserved` | every cycle of the pipeline, resets included, is a turn of SmtMachine; operands and mapped reads are never stale; registers are private; careful turns neither lose nor double a thread |
| `databus` | Spec of DataBus | `TypeOK`, `CursorInv`, `ImplementsByteMemory`, `ImplementsTerminal` | the bus is a memory of bytes, the console a terminal |
| `testbench` | TBSpec | `AnswersMatch`, `Console5Shows`, `MessageShown`, `PrintsTurn`, `SendsTurn`, `Console5Types`, `ConsolesType` | the composed SoC: a load of the core takes its own answer; console 5 prints each byte of the wire once, and the message in order while no thread stores to the transmitter; consoles 1 to 4 print and the UART sends what the turn's thread stores, with its value in SmtMachine; each of the five is a terminal |
| `loopback` | FairLinkSpec | `TypeOK`, `LinkInv`, `ImplementsChannel`, `CharacterTaken`, `MessageOnTime`, `MessageInOrder`, `MessageEnds` | the UART is a one-byte channel, no character is passed over, and without interference the receiver hears the message's characters in order and the message ends again and again, after the number of cycles `CyclesLeft` computes |
| `frames` | FairSpec | `TypeOK`, `Handshake`, `NoDataRace`, `PauseIsHeard`, `ImplementsApp`, `PauseIsPrompt`, `PauseReturns` | the two threads exclude each other, behave like one, and `pause()` always returns: it is acknowledged within eight steps of the simulator thread, and the wake-up is not lost |

### Runs that find a disagreement

Seven runs show statements of the repository's documents and comments that the code
does not keep; each checks one property and ends in a short trace (`findings` in
`PROJECT.json` quotes the statements):

| run | property | what happens |
|---|---|---|
| `hot_move` | `OperandsFresh` | step a thread, then yield to it at once: it reads a stale register, because the register RAM's bypass ignores the write enable |
| `stale_read` | `MappedReadFresh` | stop a thread and load one of its registers at once: its last write is missing |
| `alias` | `MappedWriteLands` | a mapped store to harts 4 to 7 changes harts 0 to 3 |
| `debug_read` | `DebugReadable` | a load from the debug register returns a DONTCARE |
| `reset_fetch` | `FetchedAtPc` | after a warm reset the first instruction executed is one the old program was fetching |
| `tx_ready` | `ReadyTakes` | the transmitter says "ready" in every cycle of the extra stop bits but takes a byte only in the last one of a bit: a byte stored in between is lost |
| `halt` | `HaltEnds` | `stop()` and `resume()` notify without the mutex; the notification falls between the simulator thread's test and its sleep, and after `stop()` both threads wait forever |

### Fairness and deadlock

A clocked circuit makes one step per cycle, so the core needs no fairness and the
UART only that the clock goes on (`WF` of its next-state relation in `FairLinkSpec`).
`MessageEnds` is conditional: from some time on no reset comes and the core stores
no byte, since the client waits for an *idle* transmitter and the core can keep it
busy.

In `FairSpec` of SimThread each thread is scheduled (`WF` of its steps), and whoever
wants the mutex gets it if it is free again and again (`SF` of the four
acquisitions): the simulator thread releases and re-takes it while it has work, and
without `SF` that could starve the application forever, which no scheduler does.
There is no fairness for `Frame` and `Stop` (the user may leave), for events (a frame
may have none, and only finitely many count because the end of the frame is a
scheduled step), or for spurious wake-ups.

Deadlock is checked except in the runs of SimThread, where the program really stops
after `stop()`.

## 4. The proofs

All theorems hold for every value of the constants that meets the named assumptions:
`SizeAssumption`, `RegionAssumption`, `DecodeAssumption`, `AluAssumption`,
`DontCareAssumption`, `InitAssumption` for the core; `UartAssumption`,
`NobodyAssumption`; `SimAssumption`; `ScreenAssumption` and
`BusAssumption`; `MapAssumption`, `WireAssumption` and `ConsoleAssumption` for the
testbench.  Most of it is typing: sizes are positive, regions
differ, `Decode` and `Alu` return what they should.  Two assumptions say more:
the all-zero word decodes to no instruction (it is the bubble), and a DONTCARE names a
register 0 when it reaches the register file's write port, as the 0 of the C++ build
does.  Every assumption is evaluated by the runs.

| theorem | says | along |
|---|---|---|
| `TypeCorrect` (core, bus, simulator) | `Spec => []TypeOK` | core: one lemma per phase, mixed-radix arithmetic for the packed thread words; bus: the cursor is back inside after wrapping and scrolling |
| `PipelineInvariant` | `RefSpec => []PipeInv` | see below |
| `OperandsAreFresh` | `RefSpec => []LawfulOperandsFresh` | from `PipeInv` |
| `PipelineImplementsSmt` | `RefSpec => ImplementsSmt` | every cycle is a turn: operands, result, successor, deferred effect, memories and fetch agree one by one |
| `MappedReadsAreFresh` | `RefSpec => []LawfulMappedReadFresh` | `ColdMappedRead` keeps the writes in C and D away from the register read |
| `RegistersStayPrivate` | `RefSpec => RegistersPrivate` | from the refinement: what one turn of SmtMachine does to the registers; a reset may lose a write but never makes one |
| `ThreadsAreConserved` | `RefSpec => ThreadsConserved` | see below |
| `CarefulProgramsConserve` | `CarefulSpec(hart, n) => []Conserved(hart, n)` | a careful step keeps `Copies(hart)`, whatever it is |
| `SoloProgramsAreLawful` | `SoloProgram => ImplementsSmt /\ [](legal /\ Alone /\ OperandsFresh /\ MappedReadFresh)` | `Alone` is inductive and makes every turn lawful |
| `WatchfulProgramsAreLawful` | `WatchfulProgram(harts) => ImplementsSmt /\ [](legal /\ Unique(harts) /\ OperandsFresh)` | see below |
| `LinkTypes`, `LinkInvariant` | `TypeOK`, `LinkInv` | see below |
| `UartImplementsChannel` | `LinkSpec => ImplementsChannel` | from `LinkInv` |
| `NoCharacterPassedOver` | `LinkSpec => CharacterTaken` | from `Eager` |
| `MessageIsOnTime` | `LinkSpec => MessageOnTime` | see below |
| `MessageHeardInOrder` | `LinkSpec => MessageInOrder` | see below |
| `QuietLineRecites` | `QuietSpec => []OnMessage /\ Recital` | `MessageInOrder` from power-on on, where the line is empty |
| `BusIsByteMemory` | `Spec => ImplementsByteMemory` | a byte's address splits into word and lane; masks and reach agree lane by lane |
| `ConsoleIsTerminal` | `Spec => ImplementsTerminal` | see below |
| `CursorIsTidy` | `Spec => []CursorInv` | nothing but the last statement of `putchar` writes the glyph, unless the program prints character 30 |
| `AnswersNeverMix` | `TBSpec => []AnswersMatch` | the answers of UART and debug register are valid only after an access to them |
| `ReceivedIsShown` | `TBSpec => Console5Shows` | from `LinkInv`: `get_valid` rises exactly when a byte leaves the wire |
| `MessageIsShown` | `TBSpec => MessageShown` | from `MessageInOrder` and `Console5Shows`: a step without `Sends` is a quiet one of the link |
| `StoresArePrinted` | `TBSpec => PrintsTurn` | from the refinement: the operands in B are the registers of the turn |
| `StoresAreSent` | `TBSpec => SendsTurn` | likewise; the store's address selects the transmitter and its register (`SendsAccess`) |
| `SocRunsSmt` | `TBSpec => ImplementsSmt /\ []LawfulOperandsFresh /\ RegistersPrivate /\ ThreadsConserved` | a step of the SoC is one of the core |
| `SocCarriesBytes` | `TBSpec => ImplementsChannel /\ CharacterTaken /\ MessageOnTime /\ MessageInOrder` | a step of the SoC is one of the link, with one of its accesses |
| `WireIsTyped` | `TBSpec => Console5Types` | `PutcharShows` at the rising edge of `get_valid`; the byte is the value of the bits sampled |
| `StoresAreTyped` | `TBSpec => ConsolesType` | `PutcharShows` for each console; a store in B is a store of a thread |
| `HandshakeHolds` | `Spec => [](TypeOK /\ Handshake)` | see below |
| `NoDataRaceHolds` | `Spec => []NoDataRace` | from `Handshake` |
| `PauseIsAlwaysHeard`, `PauseIsAlwaysPrompt` | `Spec => []PauseIsHeard`, `Spec => PauseIsPrompt` | see below |
| `AppImplemented` | `Spec => ImplementsApp` | every step of a thread is one of PinwheelApp or a stutter |

**Why operands are fresh.**  An operand is read in A and used in B, when the write of
the instruction two slots ahead is in D and will reach the RAM only now.  The RAM's
bypass catches the write that was in D during the read, the forward the one that is
in D now; what could be missed is a write of the same hart that is one phase
off (`HartsApart` excludes it) or a bypass from a port that is not enabled.
The latter is the subtle one: a disabled port still shows an address, and
`WritePortQuiet` says that it is none phase A is about to read -- true because the
port then belongs to the thread that was last in the other slot, register 0 or a
DONTCARE of an empty slot.  For the last case the proof needs `DontCareAssumption`:
a build in which a DONTCARE is any word could read a stale register here.  `PipeInv` is the conjunction
of the three with freshness itself and is inductive relative to `TypeOK`.

**Why the pipeline is the machine.**  `HistInv` ties `D_hpc` to the port; `VisibleRegs`
then changes in each turn exactly by what the instruction in B does and by the swap
in C.  A reset loses the write in C, and may lose one in D to an entry, which is why
`ResetTurn` lets one register change.

**Why threads stay whole.**  A cycle hands contents on between at most three places:
the slot in A becomes the slot in B, the thread that leaves B goes back to A or, by a
swap or a yield, to one register whose old contents then go to A instead.  This is a
permutation (`Rotation`), so it keeps the number of places a hart is in, as long as
nothing but such exchanges touches its words, which is `Careful`.  Which words a swap
exchanges is settled only one turn later, after the thread it stops has executed one
more instruction; the refinement says what a turn leaves in each register (`NewReg`).
A yield that meets a swap writes its own thread to its register and keeps its slot as
well; `Careful` excludes that turn for the hart that yields and for no other.  A
reset drops the slots and the write in C, so it spares a hart that is saved.

**Why a careful program is lawful.**  `Rested` asks that the thread that gets a slot be
another hart than the one in the other slot.  Where does that thread come from?  From
the slot itself, and then `HartsApart` has it; or a swap or a yield takes it out of a
register.  `Careful` says that this register really holds the hart (`Exchange`), so if
the other slot had it too, the hart would be in two places (`SuccessorApart`).  That no
hart is in two is in turn what careful steps keep (`Rotation`), as long as the program
has been lawful so far: `legal` and `Unique` are one induction.  A reset that loses no
write only empties slots, and boots hart 0, which must then not be saved anywhere
(`CleanReset`).  The other half of `Rested` does not follow: a hart that was just
stopped is in one place and can be started in the other slot a turn too early, which is
run `hot_move`.

**Why the buffer is a column of lines.**  `Exact` says that a buffer without glyph
holds given lines one after the other and blanks below; `Tidy` that a console with
its glyph has blanks below its line.  Writing or erasing at the cursor turns a tidy
console into an exact buffer (`PutExact`), scrolling keeps exactness and feeds a line
(`ScrolledFeeds`), and placing the cursor makes it tidy again and hides one character
(`PlaceCursor`).  `PutcharShows` chains the three.

**Why the receiver keeps up.**  `InStep` says that the receiver counts the same frame
one cycle behind the transmitter although it takes one stop bit where the transmitter
takes up to eight, and that it is idle before a start bit can come; `Underway` that
the bits still to be sent and those received are those of the byte taken.  `Eager`
says that a client that sends never lets the transmitter go into the extra stop bits,
where `ready` is not the whole truth.

**Why the message is on time.**  `CyclesLeft` counts the bits the transmitter has left
before it says `idle` (or, between two characters, before it can accept), and the
frames after that.  In a quiet cycle it falls by one: within a bit by the delay
counter (`BitPasses`), at the end of a bit because the count starts again
(`BitEnds`), and at the end of a frame because the client, by `Eager`, offers the next
character in the very cycle the transmitter can take it (`SendOnTime`).

**Why the message is heard in order.**  The client's cursor does not say where the line
is: it moves when a character is *taken*, a frame before the receiver has it, and it is
back at 0 while the last character is still under way.  `Upcoming` is the character that
is under way or, on an empty line, the next one, computed from the cursor and the
client's state.  A quiet cycle is one of three (`QuietCases`): the client's character is
taken, and `Upcoming` stays what it was because the line was empty; a byte arrives, and
`Upcoming` goes on by one; or neither.  The induction needs two facts besides `InStep`
and `Underway`: the line is empty whenever a character is taken, and a message that has
not begun is at its first character (`Rewound`, the part of `LinkInv` found by this
proof).  `OnMessage` is a premise, since a byte the core has stored may still be on the
line; from power-on it holds by itself (`QuietLineRecites`).

**Why a pause is heard.**  `StepsToAck` orders the simulator thread's places by their
distance to the wait.  The proof needs `PauseInv`: a requested pause finds the thread
at a place from which it cannot go back to work unacknowledged, and while the
application waits no acknowledgement is set -- it goes to sleep with the mutex held,
so the thread cannot acknowledge between its test and its sleep.  With
`PauseIsPrompt` the acknowledgement comes after at most eight steps and the thread
notifies with the mutex held; that these steps are taken is all that fairness adds.

**Why the threads exclude each other.**  `pause()` may see an acknowledgement that an
earlier pause, or being out of work, has left.  `Handshake` says that ACK_PAUSE is
set exactly while the simulator thread is in its wait, that REQ_PAUSE stays set as
long as the application works, and that with both set the wait's predicate is never
evaluated as far as `busy()`.  The other reads of the step counter fall before the
acknowledgement or after it was withdrawn, two of them (`CheckBusy`, `Woken`) under the
mutex and the others (`Enter`, `Loop`, `Left`, and `step` itself) without it.

**Only model-checked**: the two liveness properties, `PauseReturns` and `MessageEnds`;
liveness and ENABLED are out of the prover's reach, as is induction over data.  What
each of them needs besides fairness is proved: `PauseIsPrompt` and `PauseIsHeard` for
the first, `MessageOnTime` for the second.  Every invariant and every action property
of a passing run has its theorem.

## 5. What is not modelled, and what comes next

Not modelled:

- `decode_imm` and the arithmetic of `execute_alu`: they are the constants `Decode`
  and `Alu`.  They are pure functions of 32-bit words without any state, the
  properties hold for all of them, and the instruction tests of the repository cover
  them one by one.
- sub-word stores in PinwheelCore and PinwheelTB: their words are whole, DataBus has
  the bytes.  So a program that stores a byte to the UART, which the adapter ignores
  (uart_tilelink:58), is outside the models.
- the TileLink handshake fields nothing uses, painting, the disassembler, the FPGA
  tops, the earlier core (`pinwheel.mc`), `uart_top` (it does not compile) and the
  serial stub.

The reasons are with each component in `PROJECT.json`.

Next: the bytes of DataBus under the pipeline, so that the word that a load of the
core returns is put together from the bytes of ByteMemory.
