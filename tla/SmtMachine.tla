----------------------------- MODULE SmtMachine -----------------------------
(***************************************************************************)
(* What the pinwheel core promises a programmer: two threads take turns,   *)
(* and each turn executes one whole instruction of one thread.  There is   *)
(* no pipeline here: registers and memories are read and written in the    *)
(* turn itself.  Only a swap and a store into code memory are completed    *)
(* in the turn that follows, after the other thread's instruction; and the *)
(* next instruction of a thread is fetched at the end of its turn.         *)
(*                                                                         *)
(* The promise is conditional.  legal records that the program has so far  *)
(* kept the rules of LegalTurn; once it has not, anything may happen.      *)
(***************************************************************************)
EXTENDS PinwheelIsa

VARIABLES
  turn,      \* the thread whose instruction is executed next
  follow,    \* the thread whose turn comes after that
  insn,      \* the instruction of turn
  prefetch,  \* the instruction of follow
  last,      \* the thread whose turn it was
  prior,     \* the thread whose turn came before that, in the slot of turn
  deferred,  \* the swap or code store of the last turn, to be completed
  regs,      \* the registers of all harts
  code, data, debug,
  legal

absVars == <<turn, follow, insn, prefetch, last, prior, deferred, regs, code, data, debug, legal>>

Nothing == [kind |-> "NONE", addr |-> 0, value |-> 0]

----------------------------------------------------------------------------
Value(reg) == IF reg = 0 THEN 0 ELSE regs[Entry(RegAddr(turn.hart, reg))]

a    == Value(insn.rs1)
b    == Value(insn.rs2)
addr == (a + insn.imm) % WordCount

Loads(region)  == IsLoad(turn, insn, addr, region)
Stores(region) == IsStore(turn, insn, addr, region)

Onward(x) == next_hpc(turn, insn, a, b, x)

(* The thread that gets this slot's next turn.                             *)
Successor(x) == IF deferred.kind = "SWAP" THEN from_logic2(deferred.value)
                ELSE IF IsYield(turn, insn) THEN from_logic2(a)
                ELSE Onward(x)

Result(x) == IF Loads(RegfileRegion) THEN regs[Entry(addr)]
             ELSE IF Loads(MemRegion) THEN data[addr % DataSize]
             ELSE execute(turn, insn, a, b, Onward(x), x)

Put(f, on, i, v) == IF on THEN [f EXCEPT ![i] = v] ELSE f

(* A swap that is due hands the state of the thread it evicts to the       *)
(* swapping thread's rd; then the turn's own instruction writes.           *)
NewRegs(x) ==
  Put(Put(Put(regs, deferred.kind = "SWAP" /\ deferred.addr % RegCount # 0,
              Entry(deferred.addr), to_logic(Onward(x))),
          turn.active = 1 /\ WritesRd(insn) /\ ~IsSwap(turn, insn),
          Entry(RegAddr(turn.hart, insn.rd)), Result(x)),
      Stores(RegfileRegion), Entry(addr), b)

(* A code store that is due happens only if the slot it waited for will    *)
(* have no thread to fetch for.                                            *)
StoresCode(x) == deferred.kind = "CODE" /\ Successor(x).active = 0

NewDeferred ==
  IF IsSwap(turn, insn)
  THEN [kind |-> "SWAP", addr |-> RegAddr(turn.hart, insn.rd), value |-> a]
  ELSE IF Stores(CodeRegion) THEN [kind |-> "CODE", addr |-> addr, value |-> b]
  ELSE Nothing

----------------------------------------------------------------------------
(* The rules.                                                              *)

Owns(hart, raddr) == Entry(raddr) \in {Entry(RegAddr(hart, r)) : r \in Reg}

\* Only harts that have a register set run.
Housed(x) == Successor(x).active = 1 => Successor(x).hart < RegfileHarts

\* The thread that gets a slot shares no registers with the thread in the other
\* slot, nor with the one that had its turn there just now: two running threads
\* are different harts, and a hart that was stopped rests for a turn before it
\* moves to the other slot.
Rested(x) ==
  \A h \in {follow, last} :
    Successor(x).active = 1 /\ h.active = 1 => Successor(x).hart # h.hart

\* Registers are read through memory only while the other slot is empty, by a
\* thread that had the previous turn of its slot too, and neither its own nor
\* those of the thread that had the last turn in the other slot.
ColdMappedRead ==
  Loads(RegfileRegion) =>
    /\ follow.active = 0
    /\ prior.active = 1 /\ prior.hart = turn.hart
    /\ ~Owns(turn.hart, addr)
    /\ last.active = 1 => ~Owns(last.hart, addr)

\* They are written through memory only while the other slot is empty, and only
\* those the write address reaches.
MappedWriteInReach ==
  Stores(RegfileRegion) =>
    /\ follow.active = 0
    /\ Entry(addr) = Entry(addr % MappedWriteSize)

LegalTurn(x) == Housed(x) /\ Rested(x) /\ ColdMappedRead /\ MappedWriteInReach

----------------------------------------------------------------------------
(* Threads are words, and words can be copied and overwritten.  A program  *)
(* is careful with the thread of a hart if it does neither.                *)
IsThread(h, hart) == h.active = 1 /\ h.hart = hart
Holds(word, hart) == IsThread(from_logic2(word), hart)

\* The thread of turn goes to the register at raddr, and word to its slot: the
\* register gives the hart up exactly if word brings it.  A register 0 takes none.
Exchange(hart, raddr, word) ==
  IF raddr % RegCount # 0 THEN Holds(regs[Entry(raddr)], hart) <=> Holds(word, hart)
  ELSE ~Holds(word, hart) /\ ~IsThread(turn, hart)

SwapDue == deferred.kind = "SWAP"
Yields  == IsYield(turn, insn) /\ ~SwapDue

\* A yield that meets a swap writes its register like any other instruction.
Careful(hart, x) ==
  /\ SwapDue => Exchange(hart, deferred.addr, deferred.value)
  /\ Yields => Exchange(hart, RegAddr(turn.hart, insn.rd), a)
  /\ turn.active = 1 /\ WritesRd(insn) /\ ~IsSwap(turn, insn) /\ ~Yields =>
       /\ ~Holds(regs[Entry(RegAddr(turn.hart, insn.rd))], hart)
       /\ ~Holds(Result(x), hart)
  /\ Stores(RegfileRegion) =>
       /\ ~Holds(regs[Entry(addr)], hart) /\ ~Holds(b, hart)
       /\ SwapDue => Entry(addr) # Entry(deferred.addr)

----------------------------------------------------------------------------
Memories(x) ==
  /\ code' = Put(code, StoresCode(x), deferred.addr % CodeSize, deferred.value)
  /\ data' = Put(data, Stores(MemRegion), addr % DataSize, b)
  /\ debug' = IF Stores(DebugRegion) THEN b ELSE debug

Turn(x) ==
  /\ turn' = follow /\ follow' = Successor(x) /\ last' = turn /\ prior' = last
  /\ insn' = prefetch
  /\ prefetch' = IF Successor(x).active = 1
                 THEN Decode[code[Successor(x).pc % CodeSize]] ELSE Bubble
  /\ deferred' = NewDeferred
  /\ regs' = NewRegs(x)
  /\ Memories(x)

(* Reset completes the turn in the memories, but the registers lose its    *)
(* result and may lose the one of the turn before.  The boot thread starts *)
(* with whatever word the code bus was reading, not with the one at BootPc.*)
ResetTurn(x) ==
  /\ insn' = Bubble
  /\ \E cell \in DOMAIN code : prefetch' = Decode[code[cell]]
  /\ turn' = Idle /\ last' = Idle /\ prior' = Idle /\ follow' = from_logic1(1, 0, BootPc)
  /\ deferred' = Nothing
  /\ \E i \in DOMAIN regs : \A j \in DOMAIN regs \ {i} : regs'[j] = regs[j]
  /\ Memories(x)

SmtInit ==
  /\ turn = Idle /\ follow = Idle /\ last = Idle /\ prior = Idle /\ deferred = Nothing
  /\ insn = Bubble /\ prefetch = Bubble
  /\ regs \in [0 .. RegfileSize - 1 -> Word]
  /\ code \in [0 .. CodeSize - 1 -> Word]
  /\ data \in [0 .. DataSize - 1 -> Word] /\ debug \in Word
  /\ legal = TRUE

SmtNext ==
  \/ \E x \in DONTCARE : /\ legal /\ LegalTurn(x) /\ legal' = TRUE
                          /\ (Turn(x) \/ ResetTurn(x))
  \/ (~legal \/ \E x \in DONTCARE : ~LegalTurn(x)) /\ legal' = FALSE

SmtSpec == SmtInit /\ [][SmtNext]_absVars
=============================================================================
