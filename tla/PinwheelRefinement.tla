------------------------- MODULE PinwheelRefinement -------------------------
(***************************************************************************)
(* The pipelined core implements SmtMachine: the turn of SmtMachine is the *)
(* cycle in which an instruction is in phase B.  There are two history     *)
(* variables: legal records whether the program has kept the rules, D_hpc  *)
(* is the thread whose instruction is in phase D.                          *)
(***************************************************************************)
EXTENDS PinwheelCore, FiniteSets

VARIABLES legal, D_hpc

(* The registers a programmer sees: what is in the RAM, over it the write  *)
(* on its way in phase D, over that the one of the instruction in C.  A    *)
(* swap in C has no result yet.                                            *)
VisibleRegs ==
  [i \in 0 .. RegfileSize - 1 |->
     IF CD_wren = 1 /\ ~CD_swap /\ i = Entry(CD_waddr(0))
     THEN CD_writeback(0) ELSE Settled(i)]

Deferred ==
  IF CD_swap
  THEN [kind |-> "SWAP", addr |-> RegAddr(C_hpc.hart, C_insn.rd), value |-> C_result]
  ELSE IF CD_write_code THEN [kind |-> "CODE", addr |-> C_addr, value |-> C_result]
  ELSE [kind |-> "NONE", addr |-> 0, value |-> 0]

Smt == INSTANCE SmtMachine
         WITH turn <- B_hpc, follow <- A_hpc, last <- C_hpc, prior <- D_hpc,
              insn <- B_insn, prefetch <- AB_insn,
              deferred <- Deferred, regs <- VisibleRegs

refVars == <<vars, legal, D_hpc>>

RefInit == Init /\ legal = TRUE /\ D_hpc = Idle

Observe(x) == legal' = (legal /\ Smt!LegalTurn(x))

RefTock(x)  == Tock(x) /\ D_hpc' = C_hpc /\ Observe(x)
RefReset(x) == Reset(x) /\ D_hpc' = Idle /\ Observe(x)
PowerOn(x)  == A_hpc.active = 0 /\ B_hpc.active = 0 /\ C_hpc.active = 0 /\ RefReset(x)

(* Reset at any time, and only at power-on: the simulator and the first    *)
(* test of a chip reset an empty pipeline.                                 *)
RefNext  == \E x \in DONTCARE : RefTock(x) \/ RefReset(x)
BootNext == \E x \in DONTCARE : RefTock(x) \/ PowerOn(x)

RefSpec  == RefInit /\ [][RefNext]_refVars
BootSpec == RefInit /\ [][BootNext]_refVars

(* Every cycle of the pipeline is a turn of SmtMachine: forwarding, the    *)
(* delayed writeback, the shared read port, the stolen code bus and the    *)
(* two-phase swap are invisible to a program that keeps the rules.         *)
ImplementsSmt == Smt!SmtSpec

(* The rules are all that freshness of operands needs.                     *)
LawfulOperandsFresh == legal => OperandsFresh
LawfulMappedReadFresh == legal => MappedReadFresh

(* Why they are: harts in neighbouring phases differ, a mapped write is    *)
(* alone in the pipeline, and a write address that is not enabled is none  *)
(* phase A is about to read.                                               *)
Apart(h, k) == h.active = 1 /\ k.active = 1 => h.hart # k.hart

HartsApart ==
  /\ \A h \in {A_hpc, B_hpc, C_hpc} : h.active = 1 => h.hart < RegfileHarts
  /\ Apart(A_hpc, B_hpc) /\ Apart(B_hpc, C_hpc)

WritePortQuiet ==
  /\ D_wren = 1 => D_waddr < RegfileSize
  /\ CD_write_regfile => B_hpc.active = 0
  /\ A_hpc.active = 1 /\ D_wren = 0 =>
       \A r \in 1 .. RegCount - 1 : Entry(D_waddr) # Entry(RegAddr(A_hpc.hart, r))

PipeInv ==
  /\ BubbleInv
  /\ legal => HartsApart /\ WritePortQuiet /\ OperandsFresh

(* Where a thread can be: saved in a register as a word that is ready to   *)
(* run, or in one of the two slots.                                        *)
SlotA == RegfileSize
SlotB == RegfileSize + 1
Place == 0 .. SlotB

Thread(p) == CASE p = SlotA -> A_hpc [] p = SlotB -> B_hpc
               [] OTHER -> from_logic2(VisibleRegs[p])

Places(hart) == {p \in Place : Thread(p).active = 1 /\ Thread(p).hart = hart}
Copies(hart) == Cardinality(Places(hart))

(* A reset drops the slots and the write in phase C, and boots hart 0.     *)
Spared(hart) == hart # 0 /\ Places(hart) \subseteq DOMAIN VisibleRegs /\ CD_wren = 0

Resets == \E x \in DONTCARE : RefReset(x)

Keeps(hart) == IF Resets THEN Spared(hart) ELSE \A x \in DONTCARE : Smt!Careful(hart, x)

Harts == 0 .. RegfileHarts - 1

(* Swapping and yielding moves threads: as long as no other instruction    *)
(* copies or overwrites the word of one, a hart that is in one place, a    *)
(* slot or a register, is never lost and never in two (core:137-158).      *)
ThreadsConserved ==
  [][\A hart \in Harts :
       legal' /\ Copies(hart) = 1 /\ Keeps(hart) => Copies(hart)' = 1]_refVars

(* So it is at all times in a program that is careful throughout, and a    *)
(* hart in any number of places stays in as many.                          *)
CarefulSpec(hart, n) == RefInit /\ Copies(hart) = n /\ [][RefNext /\ Keeps(hart)]_refVars
Conserved(hart, n)   == legal => Copies(hart) = n

(* A program that starts with no thread of these harts twice, and that is  *)
(* careful with them, keeps one rule by itself: none of them gets into     *)
(* both slots.  It has to watch only where it sends the other harts, such  *)
(* as hart 0, whose thread looks like a pointer to data, that a stopped    *)
(* hart rests before it moves to the other slot, and its mapped accesses.  *)
Unique(harts)  == \A hart \in harts : Copies(hart) <= 1
Careful(harts) == \A hart \in harts, x \in DONTCARE : Smt!Careful(hart, x)

Watches(harts) ==
  \A x \in DONTCARE :
    /\ Smt!Housed(x) /\ Smt!ColdMappedRead /\ Smt!MappedWriteInReach
    /\ Smt!Successor(x).active = 1 =>
         /\ A_hpc.active = 1 /\ A_hpc.hart \notin harts => Smt!Successor(x).hart # A_hpc.hart
         /\ C_hpc.active = 1 => Smt!Successor(x).hart # C_hpc.hart

\* A reset loses no write, and starts no second copy of hart 0.
CleanReset(harts) ==
  Resets => /\ CD_wren = 0
            /\ 0 \in harts => Places(0) \intersect DOMAIN VisibleRegs = {}

WatchfulProgram(harts) ==
  /\ RefInit /\ Unique(harts)
  /\ [][RefNext /\ Careful(harts) /\ Watches(harts) /\ CleanReset(harts)]_refVars

(* A program of one thread, which neither swaps nor yields, has no rule to *)
(* keep but those of mapped accesses: none to its own registers or by its  *)
(* first instruction, and writes only where the write address reaches.     *)
OneThread ==
  /\ ~IsYield(B_hpc, B_insn) /\ ~IsSwap(B_hpc, B_insn)
  /\ BC_read_regfile => D_hpc.active = 1 /\ ~Smt!Owns(0, BC_addr)
  /\ IsStore(B_hpc, B_insn, BC_addr, RegfileRegion) =>
       Entry(BC_addr) = Entry(BC_addr % MappedWriteSize)

SoloProgram == RefInit /\ [][RefNext /\ OneThread]_refVars

(* Why: hart 0 runs in one of the slots and the other one stays empty.     *)
Alone ==
  /\ \A h \in {A_hpc, B_hpc, C_hpc, D_hpc} : h.active = 1 => h.hart = 0
  /\ B_hpc.active = 1 => A_hpc.active = 0 /\ C_hpc.active = 0
  /\ ~CD_swap

(* A turn of one thread leaves the registers of every other thread alone,  *)
(* unless it stores through the mapped register file or completes the swap *)
(* of that other thread, and a reset loses no write but the one of the     *)
(* instruction in phase C (core:176-191, 478-493).                         *)
HartRegs(hart) == {Entry(RegAddr(hart, r)) : r \in Reg}

RegistersPrivate ==
  [][\A hart \in Harts :
       /\ legal'
       /\ ~(B_hpc.active = 1 /\ B_hpc.hart = hart)
       /\ ~(CD_swap /\ C_hpc.hart = hart)
       /\ ~IsStore(B_hpc, B_insn, BC_addr, RegfileRegion)
       /\ CD_wren = 1 => D_wren' = 1
       => \A i \in HartRegs(hart) : VisibleRegs'[i] = VisibleRegs[i]]_refVars
=============================================================================
