---------------------------- MODULE ThreadProofs ----------------------------
(***************************************************************************)
(* A thread's registers are its own, and a thread is neither lost nor in   *)
(* two places.  Because a cycle of the pipeline is a turn of SmtMachine    *)
(* (RefinementProofs), it is enough to look at what one turn does.         *)
(***************************************************************************)
EXTENDS RefinementProofs, FiniteSetTheorems

(* A turn of another thread writes to none of the hart's registers.        *)
LEMMA TurnIsPrivate ==
  ASSUME TypeOK, PipeInv, HistInv, legal, NEW x \in DONTCARE, Tock(x), Smt!LegalTurn(x),
         NEW hart \in 0 .. RegfileHarts - 1, NEW i \in HartRegs(hart),
         ~(B_hpc.active = 1 /\ B_hpc.hart = hart), ~(CD_swap /\ C_hpc.hart = hart),
         ~IsStore(B_hpc, B_insn, BC_addr, RegfileRegion)
  PROVE  VisibleRegs'[i] = VisibleRegs[i]
<1>1. PICK r \in Reg : i = Entry(RegAddr(hart, r))
  BY DEF HartRegs
<1>2. hart \in Hart /\ hart < RegfileHarts
  BY SizeAssumption DEF Hart
<1>3. B_hpc.hart \in Hart /\ C_hpc.hart \in Hart /\ B_insn.rd \in Reg /\ C_insn.rd \in Reg
  BY InsnFields DEF TypeOK, Hpc
<1>4. ASSUME B_hpc.active = 1 PROVE i # Entry(RegAddr(B_hpc.hart, B_insn.rd))
  <2>1. B_hpc.hart # hart /\ B_hpc.hart < RegfileHarts
    BY <1>4 DEF PipeInv, HartsApart
  <2> QED
    BY <1>1, <1>2, <1>3, <2>1, HartsDisjoint
<1>5. ASSUME CD_swap PROVE i # Entry(RegAddr(C_hpc.hart, C_insn.rd))
  <2>1. C_hpc.hart # hart /\ C_hpc.hart < RegfileHarts
    BY <1>5 DEF CD_swap, IsSwap, PipeInv, HartsApart
  <2> QED
    BY <1>1, <1>2, <1>3, <2>1, HartsDisjoint
<1>6. VisibleRegs' = Smt!NewRegs(x)
  BY RegsAgree
<1>7. ~Smt!Stores(RegfileRegion)
  BY OperandsAgree, SameIsa DEF Smt!Stores
<1>8. Deferred.kind = "SWAP" => CD_swap /\ Deferred.addr = RegAddr(C_hpc.hart, C_insn.rd)
  BY DEF Deferred
<1> DEFINE base == Smt!Put(VisibleRegs, Deferred.kind = "SWAP" /\ Deferred.addr % RegCount # 0,
                           Smt!Entry(Deferred.addr), Smt!to_logic(Smt!Onward(x)))
           mid == Smt!Put(base, B_hpc.active = 1 /\ Smt!WritesRd(B_insn) /\ ~Smt!IsSwap(B_hpc, B_insn),
                          Smt!Entry(Smt!RegAddr(B_hpc.hart, B_insn.rd)), Smt!Result(x))
<1>9. base[i] = VisibleRegs[i]
  <2>1. Smt!Entry(Deferred.addr) = Entry(Deferred.addr)
    BY SameIsa
  <2> QED
    BY <1>5, <1>8, <2>1 DEF Smt!Put
<1>10. mid[i] = base[i]
  <2>1. Smt!Entry(Smt!RegAddr(B_hpc.hart, B_insn.rd)) = Entry(RegAddr(B_hpc.hart, B_insn.rd))
    BY SameIsa
  <2> HIDE DEF base
  <2> QED
    BY <1>4, <2>1 DEF Smt!Put
<1>11. Smt!NewRegs(x) = mid
  BY <1>7 DEF Smt!NewRegs, Smt!Put
<1> HIDE DEF base, mid
<1> QED
  BY <1>6, <1>9, <1>10, <1>11

(* A reset that drops no write lets the one in phase D land.               *)
LEMMA ResetIsPrivate ==
  ASSUME TypeOK, NEW x, Reset(x), CD_wren = 0, NEW i \in 0 .. RegfileSize - 1
  PROVE  VisibleRegs'[i] = VisibleRegs[i]
<1>1. C_hpc' = Idle /\ D_wren' = 0 /\ SocTick(x)
  BY DEF Reset
<1>2. Idle.active = 0
  BY DEF Idle, from_logic1
<1>3. CD_wren' = 0
  BY <1>1, <1>2 DEF CD_wren, CD_write_regfile, IsStore
<1>4. Entry(i) = i
  BY EntryOfAddr
<1>5. VisibleRegs[i] = Settled(i) /\ VisibleRegs'[i] = ram'[i]
  BY <1>1, <1>3, <1>4 DEF VisibleRegs, Settled
<1>6. ram'[i] = Settled(i)
  BY <1>1, <1>4 DEF SocTick, RegfileTick, Settled, TypeOK
<1> QED
  BY <1>5, <1>6

LEMMA PrivateStep ==
  ASSUME TypeOK, PipeInv, HistInv, [RefNext]_refVars, legal',
         NEW hart \in 0 .. RegfileHarts - 1, NEW i \in HartRegs(hart),
         ~(B_hpc.active = 1 /\ B_hpc.hart = hart), ~(CD_swap /\ C_hpc.hart = hart),
         ~IsStore(B_hpc, B_insn, BC_addr, RegfileRegion), CD_wren = 1 => D_wren' = 1
  PROVE  VisibleRegs'[i] = VisibleRegs[i]
<1>1. ASSUME NEW x \in DONTCARE, RefTock(x) PROVE VisibleRegs'[i] = VisibleRegs[i]
  <2>1. Tock(x) /\ legal /\ Smt!LegalTurn(x)
    BY <1>1 DEF RefTock, Observe
  <2> QED
    BY <2>1, TurnIsPrivate
<1>2. ASSUME NEW x \in DONTCARE, RefReset(x) PROVE VisibleRegs'[i] = VisibleRegs[i]
  <2>1. PICK r \in Reg : i = Entry(RegAddr(hart, r))
    BY DEF HartRegs
  <2>2. hart \in Hart
    BY SizeAssumption DEF Hart
  <2>3. i \in 0 .. RegfileSize - 1
    BY <2>1, <2>2, RegAddrType, EntryType
  <2>4. Reset(x) /\ D_wren' = 0
    BY <1>2 DEF RefReset, Reset
  <2>5. CD_wren = 0
    BY <2>4 DEF CD_wren
  <2> QED
    BY <2>3, <2>4, <2>5, ResetIsPrivate
<1>3. ASSUME UNCHANGED refVars PROVE VisibleRegs' = VisibleRegs
  BY <1>3 DEF refVars, vars, pipeVars, socVars, VisibleRegs, Settled, CD_swap, CD_wren,
     CD_waddr, CD_writeback, CD_write_regfile, CD_read_regfile, CD_read_mem, reg2,
     Forwarded, data_tld
<1> QED
  BY <1>1, <1>2, <1>3 DEF RefNext

(* Whatever two threads that keep the rules do, a turn of one leaves the   *)
(* registers of every other hart alone, unless it stores through the       *)
(* mapped register file or completes the swap of that hart; a reset loses  *)
(* at most the write in phase C (core:176-191, 478-493).                   *)
THEOREM RegistersStayPrivate == RefSpec => RegistersPrivate
<1>1. RefInit => TypeOK /\ PipeInv /\ HistInv
  BY PipeInit, SmtStart
<1>2. TypeOK /\ PipeInv /\ HistInv /\ [RefNext]_refVars => TypeOK' /\ PipeInv' /\ HistInv'
  BY PipeNext, HistStep
<1>3. TypeOK /\ PipeInv /\ HistInv /\ [RefNext]_refVars =>
        [\A hart \in Harts :
           /\ legal'
           /\ ~(B_hpc.active = 1 /\ B_hpc.hart = hart)
           /\ ~(CD_swap /\ C_hpc.hart = hart)
           /\ ~IsStore(B_hpc, B_insn, BC_addr, RegfileRegion)
           /\ CD_wren = 1 => D_wren' = 1
           => \A i \in HartRegs(hart) : VisibleRegs'[i] = VisibleRegs[i]]_refVars
  BY PrivateStep DEF Harts
<1> QED
  BY <1>1, <1>2, <1>3, PTL DEF RefSpec, RegistersPrivate

----------------------------------------------------------------------------
(* Packing a thread and unpacking the word gives the thread again.         *)
LEMMA RadixDigits ==
  ASSUME NEW n \in Nat \ {0}, NEW i \in Nat, NEW r \in 0 .. n - 1
  PROVE  (i * n + r) \div n = i /\ (i * n + r) % n = r
<1> DEFINE w == i * n + r
<1>1. i * n \in Nat /\ n * i = i * n /\ r \in Nat
  BY SMT
<1>2. w \in Nat
  BY <1>1
<1> HIDE DEF w
<1>3. w \div n \in Nat /\ w % n \in 0 .. n - 1 /\ w = n * (w \div n) + (w % n)
  BY <1>2, DivType, DivMod, Modulo
<1>4. n * (w \div n) = (w \div n) * n /\ (w \div n) * n \in Nat
  BY <1>3, SMT
<1>5. (w \div n) * n + (w % n) = i * n + r
  BY <1>3, <1>4 DEF w
<1>6. w \div n = i
  BY <1>3, <1>5, MixedRadixUnique
<1> QED
  BY <1>1, <1>3, <1>5, <1>6 DEF w

LEMMA UnpackPack ==
  ASSUME NEW h \in Hpc PROVE from_logic2(to_logic(h)) = h
<1> DEFINE w == to_logic(h)
<1>1. /\ h.active \in 0 .. 1 /\ h.hart \in 0 .. HartCount - 1 /\ h.pc \in 0 .. PcCount - 1
      /\ HartCount \in Nat \ {0} /\ PcCount \in Nat \ {0}
  BY SizeAssumption DEF Hpc, Bit, Hart, Pc
<1>2. h.active * HartCount + h.hart \in Nat
  BY <1>1, SMT
<1>3. w \div PcCount = h.active * HartCount + h.hart /\ w % PcCount = h.pc
  BY <1>1, <1>2, RadixDigits DEF to_logic
<1>4. (w \div PcCount) % HartCount = h.hart
  <2>1. h.active \in Nat /\ HartCount \in Nat \ {0} /\ h.hart \in 0 .. HartCount - 1
    BY <1>1
  <2>2. (h.active * HartCount + h.hart) % HartCount = h.hart
    BY <2>1, RadixDigits, Zenon
  <2> QED
    BY <1>3, <2>2
<1>5. (w \div (HartCount * PcCount)) % 2 = h.active
  <2>1. HartCount * PcCount \in Nat \ {0}
    BY <1>1, MulPositive
  <2>2. h.hart * PcCount + h.pc \in 0 .. HartCount * PcCount - 1
    BY <1>1, MixedRadix
  <2>3. w = h.active * (HartCount * PcCount) + (h.hart * PcCount + h.pc)
    BY <1>1, SMT DEF to_logic
  <2> HIDE DEF w
  <2> DEFINE n == HartCount * PcCount
             r == h.hart * PcCount + h.pc
  <2>4. n \in Nat \ {0} /\ r \in 0 .. n - 1 /\ w = h.active * n + r /\ h.active \in Nat
    BY <1>1, <2>1, <2>2, <2>3
  <2> HIDE DEF n, r
  <2>5. w \div n = h.active
    BY <2>4, RadixDigits
  <2> QED
    BY <1>1, <2>5, SmallModulo DEF n
<1> HIDE DEF w
<1>6. h = [active |-> h.active, hart |-> h.hart, pc |-> h.pc]
  BY DEF Hpc
<1> QED
  BY <1>3, <1>4, <1>5, <1>6 DEF from_logic2, w

----------------------------------------------------------------------------
(* The two slots and at most one register hand their contents on: then a   *)
(* hart is in as many places as before.  d is that register, or SlotB when *)
(* there is none.                                                          *)
LEMMA Rotation ==
  ASSUME NEW S \in SUBSET Place, NEW T \in SUBSET Place, NEW d \in Place \ {SlotA},
         SlotB \in T <=> SlotA \in S,
         SlotA \in T <=> d \in S,
         d # SlotB => (d \in T <=> SlotB \in S),
         \A i \in 0 .. RegfileSize - 1 : i # d => (i \in T <=> i \in S)
  PROVE  Cardinality(T) = Cardinality(S)
<1>1. RegfileSize \in Nat
  BY Sizes
<1>2. Place = 0 .. RegfileSize - 1 \union {SlotA, SlotB} /\ SlotA # SlotB
      /\ {SlotA, SlotB} \intersect 0 .. RegfileSize - 1 = {}
  BY <1>1 DEF Place, SlotA, SlotB
<1>3. IsFiniteSet(S)
  <2>1. IsFiniteSet(Place)
    BY <1>1, FS_Interval DEF Place, SlotB
  <2> QED
    BY <2>1, FS_Subset
<1> DEFINE f == [p \in S |-> IF p = SlotA THEN SlotB ELSE IF p = d THEN SlotA
                             ELSE IF p = SlotB THEN d ELSE p]
<1>4. \A p \in S : f[p] \in T
  BY <1>2
<1>5. \A p, q \in S : f[p] = f[q] => p = q
  BY <1>2
<1>6. ASSUME NEW t \in T PROVE \E p \in S : f[p] = t
  <2>1. CASE t = SlotB
    <3>1. f[SlotA] = t /\ SlotA \in S
      BY <2>1
    <3> QED
      BY <3>1
  <2>2. CASE t = SlotA
    <3>1. f[d] = t /\ d \in S
      BY <2>2
    <3> QED
      BY <3>1
  <2>3. CASE t \notin {SlotA, SlotB} /\ t = d
    <3>1. f[SlotB] = t /\ SlotB \in S
      BY <1>2, <2>3
    <3> QED
      BY <3>1
  <2>4. CASE t \notin {SlotA, SlotB} /\ t # d
    <3>1. f[t] = t /\ t \in S
      BY <1>2, <2>4
    <3> QED
      BY <3>1
  <2> QED
    BY <2>1, <2>2, <2>3, <2>4
<1>7. f \in [S -> T]
  BY <1>4
<1> HIDE DEF f
<1>8. f \in Bijection(S, T)
  BY <1>5, <1>6, <1>7 DEF Bijection, Injection, Surjection, IsInjective
<1>9. ExistsBijection(S, T)
  BY <1>8 DEF ExistsBijection
<1> QED
  BY <1>3, <1>9, FS_Bijection

(* A word saved for the thread of a turn, before or after its instruction. *)
LEMMA SavedThread ==
  ASSUME TypeOK, PipeInv, legal, NEW x \in DONTCARE, NEW hart
  PROVE  /\ Smt!IsThread(Smt!Onward(x), hart) <=> Smt!IsThread(B_hpc, hart)
         /\ Smt!Holds(to_logic(Smt!Onward(x)), hart) <=> Smt!IsThread(B_hpc, hart)
<1>1. Smt!Onward(x) = BC_hpc(x)
  BY OperandsAgree, SameNext DEF Smt!Onward, BC_hpc
<1>2. BC_hpc(x) \in Hpc
  BY OperandTypes, NextHpcType, DontCareAssumption DEF BC_hpc, TypeOK
<1>3. BC_hpc(x).active = B_hpc.active /\ BC_hpc(x).hart = B_hpc.hart
  BY DEF BC_hpc, next_hpc, TypeOK, Hpc
<1> QED
  BY <1>1, <1>2, <1>3, UnpackPack, SameIsa DEF Smt!IsThread, Smt!Holds

(* What a turn leaves in each register.                                    *)
LEMMA NewReg ==
  ASSUME TypeOK, PipeInv, HistInv, legal, NEW x \in DONTCARE, Tock(x), Smt!LegalTurn(x),
         NEW i \in 0 .. RegfileSize - 1
  PROVE  VisibleRegs'[i] =
           IF Smt!Stores(RegfileRegion) /\ i = Entry(Smt!addr) THEN Smt!b
           ELSE IF /\ B_hpc.active = 1 /\ Smt!WritesRd(B_insn) /\ ~Smt!IsSwap(B_hpc, B_insn)
                   /\ i = Entry(RegAddr(B_hpc.hart, B_insn.rd)) THEN Smt!Result(x)
           ELSE IF /\ Smt!SwapDue /\ Deferred.addr % RegCount # 0
                   /\ i = Entry(Deferred.addr) THEN to_logic(Smt!Onward(x))
           ELSE VisibleRegs[i]
<1> DEFINE base == Smt!Put(VisibleRegs, Deferred.kind = "SWAP" /\ Deferred.addr % RegCount # 0,
                           Smt!Entry(Deferred.addr), Smt!to_logic(Smt!Onward(x)))
           mid == Smt!Put(base, B_hpc.active = 1 /\ Smt!WritesRd(B_insn) /\ ~Smt!IsSwap(B_hpc, B_insn),
                          Smt!Entry(Smt!RegAddr(B_hpc.hart, B_insn.rd)), Smt!Result(x))
           new == Smt!Put(mid, Smt!Stores(RegfileRegion), Smt!Entry(Smt!addr), Smt!b)
<1>1. VisibleRegs' = new
  BY RegsAgree DEF Smt!NewRegs
<1>2. DOMAIN VisibleRegs = 0 .. RegfileSize - 1
  BY DEF VisibleRegs
<1>3. base[i] = IF Smt!SwapDue /\ Deferred.addr % RegCount # 0 /\ i = Entry(Deferred.addr)
                THEN to_logic(Smt!Onward(x)) ELSE VisibleRegs[i]
  BY <1>2, SameIsa, SameIsa2 DEF Smt!Put, Smt!SwapDue
<1>4. DOMAIN base = 0 .. RegfileSize - 1
  BY <1>2 DEF Smt!Put
<1> HIDE DEF base
<1>5. mid[i] = IF /\ B_hpc.active = 1 /\ Smt!WritesRd(B_insn) /\ ~Smt!IsSwap(B_hpc, B_insn)
                  /\ i = Entry(RegAddr(B_hpc.hart, B_insn.rd))
               THEN Smt!Result(x) ELSE base[i]
  BY <1>4, SameIsa DEF Smt!Put
<1>6. DOMAIN mid = 0 .. RegfileSize - 1
  BY <1>4 DEF Smt!Put
<1> HIDE DEF mid
<1>7. new[i] = IF Smt!Stores(RegfileRegion) /\ i = Entry(Smt!addr) THEN Smt!b ELSE mid[i]
  BY <1>6, SameIsa DEF Smt!Put
<1> HIDE DEF new
<1> QED
  BY <1>1, <1>3, <1>5, <1>7

(* A careful turn moves the thread of a hart and neither loses nor copies  *)
(* it: a swap or a yield passes the threads on through one register.       *)
LEMMA TurnConserves ==
  ASSUME TypeOK, PipeInv, HistInv, legal, NEW x \in DONTCARE, Tock(x), Smt!LegalTurn(x),
         NEW hart, Smt!Careful(hart, x)
  PROVE  Copies(hart)' = Copies(hart)
<1> DEFINE S == Places(hart)
           T == Places(hart)'
           own == Entry(RegAddr(B_hpc.hart, B_insn.rd))
           due == Entry(Deferred.addr)
<1>1. S \in SUBSET Place /\ T \in SUBSET Place
  BY DEF Places, Place, SlotB, RegfileSize
<1>2. RegfileSize \in Nat /\ 0 .. RegfileSize - 1 \subseteq Place \ {SlotA, SlotB}
      /\ SlotA \in Place /\ SlotB \in Place /\ SlotA # SlotB
  BY Sizes DEF Place, SlotA, SlotB
<1>3. \A i \in 0 .. RegfileSize - 1 :
        /\ i \in S <=> Smt!Holds(VisibleRegs[i], hart)
        /\ i \in T <=> Smt!Holds(VisibleRegs'[i], hart)
  BY <1>2, SameIsa DEF Places, Thread, Smt!Holds, Place, SlotA, SlotB, RegfileSize,
     from_logic2, Smt!IsThread
<1>4. /\ SlotA \in S <=> Smt!IsThread(A_hpc, hart)
      /\ SlotB \in S <=> Smt!IsThread(B_hpc, hart)
      /\ SlotA \in T <=> Smt!IsThread(A_hpc', hart)
      /\ SlotB \in T <=> Smt!IsThread(B_hpc', hart)
  BY <1>2 DEF Places, Thread, Place, SlotA, SlotB, RegfileSize, Smt!IsThread
<1>5. A_hpc' = Smt!Successor(x) /\ B_hpc' = A_hpc
  BY SuccessorAgrees DEF Tock
<1>6. B_hpc.hart \in Hart /\ B_insn.rd \in Reg /\ own \in 0 .. RegfileSize - 1
      /\ RegAddr(B_hpc.hart, B_insn.rd) % RegCount = B_insn.rd
  <2>1. B_hpc.hart \in Hart /\ B_insn.rd \in Reg
    BY InsnFields DEF TypeOK, Hpc
  <2> QED
    BY <2>1, RegAddrType, RegAddrModulo, EntryType
<1>7. ASSUME Smt!SwapDue
      PROVE  due \in 0 .. RegfileSize - 1 /\ (B_hpc.active = 1 => own # due)
  <2>1. CD_swap /\ C_hpc.active = 1 /\ Deferred.addr = RegAddr(C_hpc.hart, C_insn.rd)
    BY <1>7 DEF Smt!SwapDue, Deferred, CD_swap, IsSwap
  <2>2. C_hpc.hart \in Hart /\ C_insn.rd \in Reg
    BY InsnFields DEF TypeOK, Hpc
  <2>3. B_hpc.active = 1 => /\ B_hpc.hart # C_hpc.hart
                            /\ B_hpc.hart < RegfileHarts /\ C_hpc.hart < RegfileHarts
    BY <2>1 DEF PipeInv, HartsApart, Apart
  <2> QED
    BY <1>6, <2>1, <2>2, <2>3, HartsDisjoint, RegAddrType, EntryType
<1>8. /\ Smt!IsThread(Smt!Onward(x), hart) <=> Smt!IsThread(B_hpc, hart)
      /\ Smt!Holds(to_logic(Smt!Onward(x)), hart) <=> Smt!IsThread(B_hpc, hart)
  BY SavedThread
<1>9. /\ Smt!RegAddr(B_hpc.hart, B_insn.rd) = RegAddr(B_hpc.hart, B_insn.rd)
      /\ Smt!Entry(RegAddr(B_hpc.hart, B_insn.rd)) = own
      /\ Smt!Entry(Deferred.addr) = due /\ Smt!Entry(Smt!addr) = Entry(Smt!addr)
  BY SameIsa
<1> HIDE DEF S, T, own, due
<1> DEFINE passes == Smt!SwapDue /\ Deferred.addr % RegCount # 0
           writes == B_hpc.active = 1 /\ Smt!WritesRd(B_insn) /\ ~Smt!IsSwap(B_hpc, B_insn)
           stores == Smt!Stores(RegfileRegion)
<1>10. /\ Smt!SwapDue => Smt!Exchange(hart, Deferred.addr, Deferred.value)
       /\ Smt!Yields => Smt!Exchange(hart, RegAddr(B_hpc.hart, B_insn.rd), Smt!a)
       /\ writes /\ ~Smt!Yields => /\ ~Smt!Holds(VisibleRegs[own], hart)
                                  /\ ~Smt!Holds(Smt!Result(x), hart)
       /\ stores => /\ ~Smt!Holds(VisibleRegs[Entry(Smt!addr)], hart) /\ ~Smt!Holds(Smt!b, hart)
                    /\ Smt!SwapDue => Entry(Smt!addr) # due
  BY <1>9 DEF Smt!Careful
<1>11. \A i \in 0 .. RegfileSize - 1 :
         VisibleRegs'[i] = IF stores /\ i = Entry(Smt!addr) THEN Smt!b
                           ELSE IF writes /\ i = own THEN Smt!Result(x)
                           ELSE IF passes /\ i = due THEN to_logic(Smt!Onward(x))
                           ELSE VisibleRegs[i]
  BY NewReg DEF own, due
<1>12. Smt!Yields => /\ ~Smt!SwapDue /\ ~stores /\ (writes <=> B_insn.rd # 0)
                     /\ Smt!Result(x) = to_logic(Smt!Onward(x))
  BY SameIsa2 DEF Smt!Yields, Smt!IsYield, Smt!Stores, Smt!IsStore, Smt!WritesRd, Smt!IsSwap,
     Smt!Result, Smt!Loads, Smt!IsLoad, Smt!execute
<1>13. Smt!Successor(x) = IF Smt!SwapDue THEN from_logic2(Deferred.value)
                          ELSE IF Smt!Yields THEN from_logic2(Smt!a) ELSE Smt!Onward(x)
  BY SameIsa DEF Smt!Successor, Smt!SwapDue, Smt!Yields
<1>14. \A w : Smt!IsThread(from_logic2(w), hart) <=> Smt!Holds(w, hart)
  BY SameIsa DEF Smt!Holds
<1> HIDE DEF passes, writes, stores
<1>15. CASE passes
  <2>1. Smt!Holds(VisibleRegs[due], hart) <=> Smt!Holds(Deferred.value, hart)
    BY <1>9, <1>10, <1>15 DEF Smt!Exchange, passes
  <2>2. due \in 0 .. RegfileSize - 1 /\ (writes => own # due) /\ (stores => Entry(Smt!addr) # due)
        /\ ~Smt!Yields
    BY <1>7, <1>10, <1>15 DEF passes, writes, Smt!Yields
  <2>3. due \in T <=> SlotB \in S
    BY <1>3, <1>4, <1>8, <1>11, <1>15, <2>2
  <2>4. SlotA \in T <=> due \in S
    BY <1>3, <1>4, <1>5, <1>13, <1>14, <1>15, <2>1, <2>2 DEF passes
  <2>5. \A i \in 0 .. RegfileSize - 1 : i # due => (i \in T <=> i \in S)
    BY <1>3, <1>10, <1>11, <2>2
  <2> QED
    BY <1>1, <1>2, <1>4, <1>5, <2>2, <2>3, <2>4, <2>5, Rotation DEF Copies, S, T
<1>16. CASE Smt!Yields /\ B_insn.rd # 0
  <2>1. Smt!Holds(VisibleRegs[own], hart) <=> Smt!Holds(Smt!a, hart)
    BY <1>6, <1>9, <1>10, <1>16 DEF Smt!Exchange
  <2>2. own \in T <=> SlotB \in S
    BY <1>3, <1>4, <1>6, <1>8, <1>11, <1>12, <1>16
  <2>3. SlotA \in T <=> own \in S
    BY <1>3, <1>4, <1>5, <1>6, <1>12, <1>13, <1>14, <1>16, <2>1
  <2>4. \A i \in 0 .. RegfileSize - 1 : i # own => (i \in T <=> i \in S)
    BY <1>3, <1>11, <1>12, <1>16 DEF passes
  <2> QED
    BY <1>1, <1>2, <1>4, <1>5, <1>6, <2>2, <2>3, <2>4, Rotation DEF Copies, S, T
<1>17. CASE ~passes /\ ~(Smt!Yields /\ B_insn.rd # 0)
  <2>1. SlotA \in T <=> SlotB \in S
    <3>1. CASE Smt!SwapDue
      <4>1. ~Smt!Holds(Deferred.value, hart) /\ ~Smt!IsThread(B_hpc, hart)
        BY <1>10, <1>17, <3>1 DEF Smt!Exchange, passes
      <4> QED
        BY <1>4, <1>5, <1>13, <1>14, <3>1, <4>1
    <3>2. CASE Smt!Yields
      <4>1. ~Smt!Holds(Smt!a, hart) /\ ~Smt!IsThread(B_hpc, hart)
        BY <1>6, <1>10, <1>17, <3>2 DEF Smt!Exchange
      <4> QED
        BY <1>4, <1>5, <1>12, <1>13, <1>14, <3>2, <4>1
    <3>3. CASE ~Smt!SwapDue /\ ~Smt!Yields
      BY <1>4, <1>5, <1>8, <1>13, <3>3
    <3> QED
      BY <3>1, <3>2, <3>3
  <2>2. \A i \in 0 .. RegfileSize - 1 : i \in T <=> i \in S
    BY <1>3, <1>10, <1>11, <1>12, <1>17
  <2> QED
    BY <1>1, <1>2, <1>4, <1>5, <2>1, <2>2, Rotation DEF Copies, S, T
<1> QED
  BY <1>15, <1>16, <1>17

(* A reset keeps a saved thread that no write on its way concerns.         *)
LEMMA ResetConserves ==
  ASSUME TypeOK, NEW x, Reset(x), NEW hart, Spared(hart)
  PROVE  Copies(hart)' = Copies(hart)
<1>1. RegfileSize \in Nat /\ DOMAIN VisibleRegs = 0 .. RegfileSize - 1
  BY Sizes DEF VisibleRegs
<1>2. hart # 0 /\ Places(hart) \subseteq 0 .. RegfileSize - 1
  BY <1>1 DEF Spared
<1>3. \A i \in 0 .. RegfileSize - 1 : VisibleRegs'[i] = VisibleRegs[i]
  BY ResetIsPrivate DEF Spared
<1>4. ~Smt!IsThread(A_hpc', hart) /\ ~Smt!IsThread(B_hpc', hart)
  BY <1>2 DEF Reset, Idle, from_logic1, Smt!IsThread
<1>5. Place = 0 .. RegfileSize - 1 \union {SlotA, SlotB}
      /\ {SlotA, SlotB} \intersect 0 .. RegfileSize - 1 = {}
  BY <1>1 DEF Place, SlotA, SlotB
<1>6. \A i \in 0 .. RegfileSize - 1 : i \in Places(hart)' <=> i \in Places(hart)
  BY <1>1, <1>3, <1>5 DEF Places, Thread, SlotA, SlotB, Place, RegfileSize, from_logic2,
     Smt!IsThread
<1>7. SlotA \notin Places(hart)' /\ SlotB \notin Places(hart)'
  BY <1>1, <1>4 DEF Places, Thread, SlotA, SlotB, Place, RegfileSize, Smt!IsThread
<1>8. Places(hart)' \subseteq Place
  BY DEF Places, Place, SlotB, RegfileSize
<1>9. Places(hart)' = Places(hart)
  BY <1>2, <1>5, <1>6, <1>7, <1>8
<1> QED
  BY <1>9 DEF Copies

LEMMA RefStutters ==
  ASSUME UNCHANGED refVars, NEW hart PROVE Copies(hart)' = Copies(hart)
<1>1. VisibleRegs' = VisibleRegs
  BY DEF refVars, vars, pipeVars, socVars, VisibleRegs, Settled, CD_swap, CD_wren,
     CD_waddr, CD_writeback, CD_write_regfile, CD_read_regfile, CD_read_mem, reg2,
     Forwarded, data_tld
<1>2. Places(hart)' = Places(hart)
  BY <1>1 DEF refVars, vars, pipeVars, Places, Thread, from_logic2, Place, SlotA, SlotB, RegfileSize
<1> QED
  BY <1>2 DEF Copies

LEMMA ConservedStep ==
  ASSUME TypeOK, PipeInv, HistInv, [RefNext]_refVars, legal', NEW hart,
         [Keeps(hart)]_refVars
  PROVE  Copies(hart)' = Copies(hart)
<1>1. ASSUME NEW x \in DONTCARE, RefReset(x), Keeps(hart)
      PROVE  Copies(hart)' = Copies(hart)
  <2>1. Spared(hart) /\ Reset(x)
    BY <1>1 DEF Keeps, Resets, RefReset
  <2> QED
    BY <2>1, ResetConserves
<1>2. ASSUME NEW x \in DONTCARE, RefTock(x), ~Resets, Keeps(hart)
      PROVE  Copies(hart)' = Copies(hart)
  <2>1. Tock(x) /\ legal /\ Smt!LegalTurn(x) /\ Smt!Careful(hart, x)
    BY <1>2 DEF RefTock, Observe, Keeps
  <2> QED
    BY <2>1, TurnConserves
<1>3. ASSUME UNCHANGED refVars PROVE Copies(hart)' = Copies(hart)
  BY <1>3, RefStutters
<1> QED
  BY <1>1, <1>2, <1>3 DEF RefNext, Resets

(* In every program that keeps the rules, a step that is careful with the  *)
(* thread of a hart leaves it in exactly one place if it was in one: swaps *)
(* and yields lose and duplicate nothing (core:137-158).                   *)
THEOREM ThreadsAreConserved == RefSpec => ThreadsConserved
<1>1. RefInit => TypeOK /\ PipeInv /\ HistInv
  BY PipeInit, SmtStart
<1>2. TypeOK /\ PipeInv /\ HistInv /\ [RefNext]_refVars => TypeOK' /\ PipeInv' /\ HistInv'
  BY PipeNext, HistStep
<1>3. TypeOK /\ PipeInv /\ HistInv /\ [RefNext]_refVars =>
        [\A hart \in Harts :
           legal' /\ Copies(hart) = 1 /\ Keeps(hart) => Copies(hart)' = 1]_refVars
  BY ConservedStep
<1> QED
  BY <1>1, <1>2, <1>3, PTL DEF RefSpec, ThreadsConserved

(* So a program that is careful with a hart throughout always has it in as *)
(* many places, slots and registers, as it started with, as long as it     *)
(* keeps the rules.                                                        *)
THEOREM CarefulProgramsConserve ==
  ASSUME NEW CONSTANT hart \in Harts, NEW CONSTANT n
  PROVE  CarefulSpec(hart, n) => []Conserved(hart, n)
<1>1. RefInit /\ Copies(hart) = n => TypeOK /\ PipeInv /\ HistInv /\ Conserved(hart, n)
  BY PipeInit, SmtStart DEF Conserved
<1>2. TypeOK /\ PipeInv /\ HistInv /\ Conserved(hart, n) /\ [RefNext /\ Keeps(hart)]_refVars
        => TypeOK' /\ PipeInv' /\ HistInv' /\ Conserved(hart, n)'
  <2> SUFFICES ASSUME TypeOK, PipeInv, HistInv, Conserved(hart, n),
                      [RefNext /\ Keeps(hart)]_refVars
               PROVE  TypeOK' /\ PipeInv' /\ HistInv' /\ Conserved(hart, n)'
    OBVIOUS
  <2>1. [RefNext]_refVars /\ [Keeps(hart)]_refVars
    OBVIOUS
  <2>2. legal' => legal
    BY <2>1 DEF RefNext, RefTock, RefReset, Observe, refVars
  <2>3. Conserved(hart, n)'
    BY <2>1, <2>2, ConservedStep DEF Conserved
  <2> QED
    BY <2>1, <2>3, PipeNext, HistStep
<1> QED
  BY <1>1, <1>2, PTL DEF CarefulSpec

----------------------------------------------------------------------------
(* A program of one thread.  No other thread is in the pipeline to mix     *)
(* with, so only mapped accesses are left to break a rule.                 *)
LEMMA SoloTurn ==
  ASSUME TypeOK, PipeInv, legal, Alone, OneThread, NEW x
  PROVE  /\ Smt!LegalTurn(x)
         /\ BA_hpc(x).active = B_hpc.active /\ BA_hpc(x).hart = B_hpc.hart
<1>1. BA_hpc(x) = BC_hpc(x) /\ Smt!Successor(x) = BC_hpc(x)
  BY SuccessorAgrees DEF BA_hpc, BC_yield, OneThread, Alone
<1>2. BC_hpc(x).active = B_hpc.active /\ BC_hpc(x).hart = B_hpc.hart
  BY DEF BC_hpc, next_hpc, TypeOK, Hpc
<1>3. Smt!Housed(x) /\ Smt!Rested(x)
  BY <1>1, <1>2 DEF PipeInv, HartsApart, Alone, Smt!Housed, Smt!Rested
<1>4. Smt!ColdMappedRead
  <2>1. ASSUME Smt!Loads(RegfileRegion) PROVE BC_read_regfile /\ B_hpc.active = 1
    BY <2>1, OperandsAgree, SameIsa2 DEF Smt!Loads, BC_read_regfile, IsLoad
  <2> QED
    BY <2>1, OperandsAgree DEF Alone, OneThread, Smt!ColdMappedRead
<1>5. Smt!MappedWriteInReach
  <2>1. ASSUME Smt!Stores(RegfileRegion)
        PROVE  IsStore(B_hpc, B_insn, BC_addr, RegfileRegion) /\ B_hpc.active = 1
    BY <2>1, OperandsAgree, SameIsa DEF Smt!Stores, IsStore
  <2> QED
    BY <2>1, OperandsAgree, SameIsa DEF Alone, OneThread, Smt!MappedWriteInReach
<1> QED
  BY <1>1, <1>2, <1>3, <1>4, <1>5 DEF Smt!LegalTurn

LEMMA AloneStep ==
  ASSUME TypeOK, PipeInv, legal, Alone, [RefNext /\ OneThread]_refVars
  PROVE  legal' /\ Alone'
<1>1. ASSUME NEW x \in DONTCARE, RefTock(x), OneThread PROVE legal' /\ Alone'
  <2>1. Smt!LegalTurn(x) /\ BA_hpc(x).active = B_hpc.active /\ BA_hpc(x).hart = B_hpc.hart
    BY <1>1, SoloTurn
  <2>2. /\ A_hpc' = BA_hpc(x) /\ B_hpc' = A_hpc /\ C_hpc' = B_hpc /\ D_hpc' = C_hpc
        /\ C_insn' = B_insn
    BY <1>1 DEF RefTock, Tock
  <2>3. ~CD_swap'
    BY <1>1, <2>2 DEF CD_swap, OneThread, IsSwap
  <2>4. A_hpc.active \in Bit /\ B_hpc.active \in Bit /\ C_hpc.active \in Bit
    BY DEF TypeOK, Hpc
  <2>5. legal'
    BY <1>1, <2>1 DEF RefTock, Observe
  <2>6. A_hpc'.active = B_hpc.active /\ A_hpc'.hart = B_hpc.hart
    BY <2>1, <2>2
  <2>7. Alone'
    BY <2>2, <2>3, <2>4, <2>6 DEF Alone, Bit
  <2> QED
    BY <2>5, <2>7
<1>2. ASSUME NEW x \in DONTCARE, RefReset(x), OneThread PROVE legal' /\ Alone'
  <2>1. Smt!LegalTurn(x)
    BY <1>2, SoloTurn
  <2>2. /\ A_hpc' = from_logic1(1, 0, BootPc) /\ B_hpc' = Idle /\ C_hpc' = Idle
        /\ D_hpc' = Idle
    BY <1>2 DEF RefReset, Reset
  <2>3. legal'
    BY <1>2, <2>1 DEF RefReset, Observe
  <2>4. Alone'
    BY <2>2 DEF Alone, Idle, from_logic1, CD_swap, IsSwap
  <2> QED
    BY <2>3, <2>4
<1>3. ASSUME UNCHANGED refVars PROVE legal' /\ Alone'
  BY <1>3 DEF refVars, vars, pipeVars, Alone, CD_swap
<1> QED
  BY <1>1, <1>2, <1>3 DEF RefNext

(* A program of one thread that reads and writes registers through memory  *)
(* only where the rules allow it keeps all rules whenever it is reset, so  *)
(* it runs as on SmtMachine, with fresh operands (core:86-235).            *)
THEOREM SoloProgramsAreLawful ==
  SoloProgram => ImplementsSmt /\ [](legal /\ Alone /\ OperandsFresh /\ MappedReadFresh)
<1>1. SoloProgram => RefSpec
  <2>1. [RefNext /\ OneThread]_refVars => [RefNext]_refVars
    OBVIOUS
  <2> QED
    BY <2>1, PTL DEF SoloProgram, RefSpec
<1>2. RefInit => TypeOK /\ PipeInv /\ legal /\ Alone
  <2>1. RefInit => legal /\ Alone
    BY DEF RefInit, Init, Alone, Idle, from_logic1, CD_swap, IsSwap
  <2> QED
    BY <2>1, PipeInit
<1>3. TypeOK /\ PipeInv /\ legal /\ Alone /\ [RefNext /\ OneThread]_refVars
        => TypeOK' /\ PipeInv' /\ legal' /\ Alone'
  <2> SUFFICES ASSUME TypeOK, PipeInv, legal, Alone, [RefNext /\ OneThread]_refVars
               PROVE  TypeOK' /\ PipeInv' /\ legal' /\ Alone'
    OBVIOUS
  <2>1. [RefNext]_refVars
    OBVIOUS
  <2> QED
    BY <2>1, PipeNext, AloneStep
<1>4. /\ legal /\ LawfulOperandsFresh => OperandsFresh
      /\ legal /\ LawfulMappedReadFresh => MappedReadFresh
  BY DEF LawfulOperandsFresh, LawfulMappedReadFresh
<1> QED
  BY <1>1, <1>2, <1>3, <1>4, PipelineImplementsSmt, OperandsAreFresh, MappedReadsAreFresh, PTL
     DEF SoloProgram

----------------------------------------------------------------------------
(* Programs whose harts are each in one place at most.                     *)
LEMMA OnePlace ==
  ASSUME NEW S, IsFiniteSet(S), Cardinality(S) <= 1, NEW p \in S, NEW q \in S
  PROVE  p = q
<1>1. SUFFICES ASSUME p # q PROVE FALSE
  OBVIOUS
<1>2. IsFiniteSet({p}) /\ Cardinality({p}) = 1
  BY FS_Singleton
<1>3. Cardinality({p} \union {q}) = 2
  BY <1>1, <1>2, FS_AddElement
<1>4. {p} \union {q} \subseteq S
  OBVIOUS
<1>5. Cardinality({p} \union {q}) <= Cardinality(S)
  BY <1>4, FS_Subset
<1> QED
  BY <1>3, <1>5, FS_CardinalityType

LEMMA InPlaces ==
  ASSUME NEW hart
  PROVE  /\ SlotA \in Places(hart) <=> Smt!IsThread(A_hpc, hart)
         /\ \A i \in 0 .. RegfileSize - 1 :
              i \in Places(hart) <=> Smt!Holds(VisibleRegs[i], hart)
         /\ IsFiniteSet(Places(hart)) /\ SlotA \notin 0 .. RegfileSize - 1
<1>1. RegfileSize \in Nat /\ IsFiniteSet(Place)
  BY Sizes, FS_Interval DEF Place, SlotB
<1>2. Places(hart) \subseteq Place
  BY DEF Places
<1> QED
  BY <1>1, <1>2, FS_Subset, SameIsa DEF Places, Thread, Smt!Holds, Place, SlotA, SlotB,
     Smt!IsThread

(* The thread that gets a slot comes out of a register, or has just left   *)
(* the slot: if its hart is in one place, it is not in the other slot.     *)
LEMMA SuccessorApart ==
  ASSUME TypeOK, PipeInv, legal, NEW x \in DONTCARE, NEW hart,
         Smt!Careful(hart, x), Copies(hart) <= 1, Smt!IsThread(A_hpc, hart)
  PROVE  ~Smt!IsThread(Smt!Successor(x), hart)
<1>1. SUFFICES ASSUME Smt!IsThread(Smt!Successor(x), hart) PROVE FALSE
  OBVIOUS
<1>2. \A i \in 0 .. RegfileSize - 1 : ~Smt!Holds(VisibleRegs[i], hart)
  <2>1. IsFiniteSet(Places(hart)) /\ Cardinality(Places(hart)) <= 1 /\ SlotA \in Places(hart)
    BY InPlaces DEF Copies
  <2> QED
    BY <2>1, InPlaces, OnePlace
<1>3. \A w : Smt!IsThread(from_logic2(w), hart) <=> Smt!Holds(w, hart)
  BY SameIsa DEF Smt!Holds
<1>4. CASE Smt!SwapDue
  <2>1. CD_swap /\ C_hpc.active = 1 /\ Deferred.addr = RegAddr(C_hpc.hart, C_insn.rd)
    BY <1>4 DEF Smt!SwapDue, Deferred, CD_swap, IsSwap
  <2>2. C_hpc.hart \in Hart /\ C_insn.rd \in Reg
    BY InsnFields DEF TypeOK, Hpc
  <2>3. Smt!Entry(Deferred.addr) \in 0 .. RegfileSize - 1
    BY <2>1, <2>2, RegAddrType, EntryType, SameIsa
  <2>4. Smt!Exchange(hart, Deferred.addr, Deferred.value) /\ Smt!Holds(Deferred.value, hart)
    BY <1>1, <1>3, <1>4, SameIsa DEF Smt!Careful, Smt!Successor, Smt!SwapDue
  <2> QED
    BY <1>2, <2>3, <2>4 DEF Smt!Exchange
<1>5. CASE Smt!Yields
  <2>1. B_hpc.hart \in Hart /\ B_insn.rd \in Reg
    BY InsnFields DEF TypeOK, Hpc
  <2>2. Smt!Entry(Smt!RegAddr(B_hpc.hart, B_insn.rd)) \in 0 .. RegfileSize - 1
    BY <2>1, RegAddrType, EntryType, SameIsa
  <2>3. Smt!Exchange(hart, Smt!RegAddr(B_hpc.hart, B_insn.rd), Smt!a) /\ Smt!Holds(Smt!a, hart)
    BY <1>1, <1>3, <1>5, SameIsa DEF Smt!Careful, Smt!Successor, Smt!SwapDue, Smt!Yields
  <2> QED
    BY <1>2, <2>2, <2>3 DEF Smt!Exchange
<1>6. CASE ~Smt!SwapDue /\ ~Smt!Yields
  <2>1. Smt!IsThread(B_hpc, hart)
    BY <1>1, <1>6, SavedThread DEF Smt!Successor, Smt!SwapDue, Smt!Yields
  <2> QED
    BY <2>1 DEF PipeInv, HartsApart, Apart, Smt!IsThread
<1> QED
  BY <1>4, <1>5, <1>6

LEMMA WatchfulTurn ==
  ASSUME TypeOK, PipeInv, legal, NEW harts, NEW x \in DONTCARE,
         Unique(harts), Careful(harts), Watches(harts)
  PROVE  Smt!LegalTurn(x)
<1>1. ASSUME Smt!Successor(x).active = 1, A_hpc.active = 1, A_hpc.hart \in harts
      PROVE  Smt!Successor(x).hart # A_hpc.hart
  <2>1. Smt!IsThread(A_hpc, A_hpc.hart)
    BY <1>1 DEF Smt!IsThread
  <2>2. ~Smt!IsThread(Smt!Successor(x), A_hpc.hart)
    BY <1>1, <2>1, SuccessorApart DEF Unique, Careful
  <2> QED
    BY <1>1, <2>2 DEF Smt!IsThread
<1>2. Smt!Rested(x)
  BY <1>1 DEF Watches, Smt!Rested
<1> QED
  BY <1>2 DEF Watches, Smt!LegalTurn

(* A reset that catches no write empties the slots but for hart 0, which   *)
(* it boots.                                                               *)
LEMMA ResetUnique ==
  ASSUME TypeOK, NEW x, Reset(x), CD_wren = 0, NEW hart, Copies(hart) <= 1,
         hart = 0 => Places(0) \intersect DOMAIN VisibleRegs = {}
  PROVE  Copies(hart)' <= 1
<1>1. RegfileSize \in Nat /\ DOMAIN VisibleRegs = 0 .. RegfileSize - 1
  BY Sizes DEF VisibleRegs
<1>2. \A i \in 0 .. RegfileSize - 1 : VisibleRegs'[i] = VisibleRegs[i]
  BY ResetIsPrivate
<1>3. A_hpc'.hart = 0 /\ B_hpc'.active = 0
  BY DEF Reset, Idle, from_logic1
<1>4. Place = 0 .. RegfileSize - 1 \union {SlotA, SlotB}
      /\ {SlotA, SlotB} \intersect 0 .. RegfileSize - 1 = {}
  BY <1>1 DEF Place, SlotA, SlotB
<1>5. \A i \in 0 .. RegfileSize - 1 : i \in Places(hart)' <=> i \in Places(hart)
  BY <1>1, <1>2, <1>4 DEF Places, Thread, SlotA, SlotB, Place, RegfileSize, from_logic2
<1>6. SlotB \notin Places(hart)' /\ (hart # 0 => SlotA \notin Places(hart)')
  BY <1>1, <1>3 DEF Places, Thread, SlotA, SlotB, Place, RegfileSize
<1>7. Places(hart)' \subseteq Place
  BY DEF Places, Place, SlotB, RegfileSize
<1>8. CASE hart = 0
  <2>1. Places(hart)' \subseteq {SlotA}
    BY <1>1, <1>4, <1>5, <1>6, <1>7, <1>8
  <2>2. IsFiniteSet({SlotA}) /\ Cardinality({SlotA}) = 1
    BY FS_Singleton
  <2> QED
    BY <2>1, <2>2, FS_Subset DEF Copies
<1>9. CASE hart # 0
  <2>1. Places(hart)' \subseteq Places(hart)
    BY <1>4, <1>5, <1>6, <1>7, <1>9
  <2>2. IsFiniteSet(Places(hart)) /\ IsFiniteSet(Places(hart)')
    BY <2>1, InPlaces, FS_Subset
  <2>3. Cardinality(Places(hart)') <= Cardinality(Places(hart))
    BY <2>1, <2>2, FS_Subset
  <2>4. Cardinality(Places(hart)') \in Nat /\ Cardinality(Places(hart)) \in Nat
    BY <2>2, FS_CardinalityType
  <2> QED
    BY <2>3, <2>4 DEF Copies
<1> QED
  BY <1>8, <1>9

LEMMA WatchfulStep ==
  ASSUME TypeOK, PipeInv, HistInv, legal, NEW CONSTANT harts \in SUBSET Harts, Unique(harts),
         [RefNext /\ Careful(harts) /\ Watches(harts) /\ CleanReset(harts)]_refVars
  PROVE  legal' /\ Unique(harts)'
<1>1. ASSUME NEW x \in DONTCARE, RefTock(x), Careful(harts), Watches(harts)
      PROVE  legal' /\ Unique(harts)'
  <2>1. Tock(x) /\ Smt!LegalTurn(x) /\ legal' = (legal /\ Smt!LegalTurn(x))
    BY <1>1, WatchfulTurn DEF RefTock, Observe
  <2>2. \A hart \in harts : Copies(hart)' = Copies(hart)
    BY <1>1, <2>1, TurnConserves DEF Careful
  <2> QED
    BY <2>1, <2>2 DEF Unique
<1>2. ASSUME NEW x \in DONTCARE, RefReset(x), Careful(harts), Watches(harts), CleanReset(harts)
      PROVE  legal' /\ Unique(harts)'
  <2>1. Reset(x) /\ Smt!LegalTurn(x) /\ legal' = (legal /\ Smt!LegalTurn(x))
    BY <1>2, WatchfulTurn DEF RefReset, Observe
  <2>2. CD_wren = 0 /\ (0 \in harts => Places(0) \intersect DOMAIN VisibleRegs = {})
    BY <1>2 DEF CleanReset, Resets
  <2>3. \A hart \in harts : Copies(hart)' <= 1
    BY <2>1, <2>2, ResetUnique DEF Unique
  <2> QED
    BY <2>1, <2>3 DEF Unique
<1>3. ASSUME UNCHANGED refVars PROVE legal' /\ Unique(harts)'
  <2>1. \A hart \in harts : Copies(hart)' = Copies(hart)
    BY <1>3, RefStutters
  <2> QED
    BY <1>3, <2>1 DEF Unique, refVars
<1> QED
  BY <1>1, <1>2, <1>3 DEF RefNext

(* A program that has no thread of some harts twice and neither copies nor *)
(* overwrites one need not look where it sends them: none of these harts   *)
(* ever gets into both slots, however it swaps and yields (core:137-158).  *)
THEOREM WatchfulProgramsAreLawful ==
  ASSUME NEW CONSTANT harts \in SUBSET Harts
  PROVE  WatchfulProgram(harts) => ImplementsSmt /\ [](legal /\ Unique(harts) /\ OperandsFresh)
<1>1. WatchfulProgram(harts) => RefSpec
  <2>1. [RefNext /\ Careful(harts) /\ Watches(harts) /\ CleanReset(harts)]_refVars
          => [RefNext]_refVars
    OBVIOUS
  <2> QED
    BY <2>1, PTL DEF WatchfulProgram, RefSpec
<1>2. RefInit /\ Unique(harts) => TypeOK /\ PipeInv /\ HistInv /\ legal /\ Unique(harts)
  BY PipeInit, SmtStart DEF RefInit
<1>3. /\ TypeOK /\ PipeInv /\ HistInv /\ legal /\ Unique(harts)
      /\ [RefNext /\ Careful(harts) /\ Watches(harts) /\ CleanReset(harts)]_refVars
      => TypeOK' /\ PipeInv' /\ HistInv' /\ legal' /\ Unique(harts)'
  <2> SUFFICES ASSUME TypeOK, PipeInv, HistInv, legal, Unique(harts),
                      [RefNext /\ Careful(harts) /\ Watches(harts) /\ CleanReset(harts)]_refVars
               PROVE  TypeOK' /\ PipeInv' /\ HistInv' /\ legal' /\ Unique(harts)'
    OBVIOUS
  <2>1. [RefNext]_refVars
    OBVIOUS
  <2> QED
    BY <2>1, PipeNext, HistStep, WatchfulStep
<1>4. legal /\ LawfulOperandsFresh => OperandsFresh
  BY DEF LawfulOperandsFresh
<1> QED
  BY <1>1, <1>2, <1>3, <1>4, PipelineImplementsSmt, OperandsAreFresh, PTL DEF WatchfulProgram
=============================================================================
