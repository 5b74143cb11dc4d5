--------------------------- MODULE FreshnessProofs ---------------------------
(***************************************************************************)
(* A program that keeps the rules of SmtMachine never computes with a      *)
(* stale operand.  PipeInv is inductive: it says which harts share the     *)
(* pipeline and what the register write port may hold while a read is on   *)
(* its way.                                                                *)
(***************************************************************************)
EXTENDS PinwheelProofs

(* Register addresses: below the size of the register file the RAM's       *)
(* truncation changes nothing, and different harts never meet.             *)
LEMMA EntryOfAddr ==
  ASSUME NEW e \in 0 .. RegfileSize - 1 PROVE Entry(e) = e
  BY SmallModulo, Sizes DEF Entry

LEMMA HousedAddr ==
  ASSUME NEW h \in Hart, h < RegfileHarts, NEW r \in Reg
  PROVE  /\ RegAddr(h, r) \in 0 .. RegfileSize - 1
         /\ Entry(RegAddr(h, r)) = RegAddr(h, r)
<1>1. h \in 0 .. RegfileHarts - 1 /\ RegfileHarts \in Nat
  BY SizeAssumption DEF Hart
<1>2. RegAddr(h, r) \in 0 .. RegfileSize - 1
  BY <1>1, MixedRadix, SizeAssumption DEF Reg, RegAddr, RegfileSize
<1> QED
  BY <1>2, EntryOfAddr

LEMMA MixedRadixUnique ==
  ASSUME NEW n \in Nat \ {0}, NEW i \in Nat, NEW k \in Nat,
         NEW r \in 0 .. n - 1, NEW s \in 0 .. n - 1, i * n + r = k * n + s
  PROVE  i = k
<1>1. CASE i >= k + 1
  <2>1. (i - k - 1) * n >= 0
    BY <1>1, SMT
  <2>2. (i - k - 1) * n = i * n - k * n - n
    BY SMT
  <2>3. i * n \in Int /\ k * n \in Int
    OBVIOUS
  <2> QED
    BY <2>1, <2>2, <2>3, SMT
<1>2. CASE k >= i + 1
  <2>1. (k - i - 1) * n >= 0
    BY <1>2, SMT
  <2>2. (k - i - 1) * n = k * n - i * n - n
    BY SMT
  <2>3. i * n \in Int /\ k * n \in Int
    OBVIOUS
  <2> QED
    BY <2>1, <2>2, <2>3, SMT
<1> QED
  BY <1>1, <1>2, SMT

LEMMA HartsDisjoint ==
  ASSUME NEW h \in Hart, NEW k \in Hart, h # k, NEW r \in Reg, NEW s \in Reg,
         h < RegfileHarts, k < RegfileHarts
  PROVE  Entry(RegAddr(h, r)) # Entry(RegAddr(k, s))
<1>1. Entry(RegAddr(h, r)) = RegAddr(h, r) /\ Entry(RegAddr(k, s)) = RegAddr(k, s)
  BY HousedAddr
<1>2. RegAddr(h, r) # RegAddr(k, s)
  BY MixedRadixUnique, SizeAssumption DEF RegAddr, Hart, Reg
<1> QED
  BY <1>1, <1>2

(* A write address that nothing drives names a register 0.                 *)
LEMMA DivMod ==
  ASSUME NEW x \in Int, NEW n \in Nat \ {0}
  PROVE  x \div n \in Int /\ x = n * (x \div n) + (x % n)
<1>1. x \div n \in Int
  BY SMT
<1>2. x % n = x - n * (x \div n)
  BY Z3
<1>3. x % n \in Int /\ n * (x \div n) \in Int
  BY <1>1, Modulo
<1> QED
  BY <1>1, <1>2, <1>3, SMT

LEMMA MultipleModulo ==
  ASSUME NEW k \in Int, NEW s \in Nat \ {0}, NEW n \in Nat \ {0}
  PROVE  \E m \in Int : (k * n) % (s * n) = m * n
<1> DEFINE d == (k * n) \div (s * n)
<1>1. k * n \in Int /\ s * n \in Nat \ {0}
  BY MulPositive
<1>2. d \in Int /\ k * n = (s * n) * d + ((k * n) % (s * n))
  BY <1>1, DivMod, Zenon
<1>3. (k * n) % (s * n) \in Int
  BY <1>1, Modulo
<1> HIDE DEF d
<1>4. (s * n) * d = (s * d) * n
  BY <1>2, SMT
<1>5. (k - s * d) * n = k * n - (s * d) * n
  BY <1>2, SMT
<1>6. k - s * d \in Int /\ (s * d) * n \in Int
  BY <1>2
<1>7. (k * n) % (s * n) = (k - s * d) * n
  BY <1>1, <1>2, <1>3, <1>4, <1>5, <1>6, SMT
<1> QED
  BY <1>6, <1>7

LEMMA UndrivenAddr ==
  ASSUME NEW x \in DONTCARE, NEW h \in Hart, h < RegfileHarts, NEW r \in 1 .. RegCount - 1
  PROVE  Entry(x % (HartCount * RegCount)) # Entry(RegAddr(h, r))
<1>1. /\ RegCount \in Nat \ {0} /\ HartCount \in Nat \ {0} /\ RegfileHarts \in Nat \ {0}
      /\ h \in Nat /\ r \in Reg
  BY SizeAssumption DEF Hart, Reg
<1>2. x \in Int /\ x % RegCount = 0
  BY DontCareAssumption, WordType
<1>3. PICK k \in Int : x = k * RegCount
  <2>1. x \div RegCount \in Int /\ x = RegCount * (x \div RegCount) + (x % RegCount)
    BY <1>1, <1>2, DivMod
  <2>2. RegCount * (x \div RegCount) = (x \div RegCount) * RegCount
    BY <2>1, <1>1, SMT
  <2>3. x = (x \div RegCount) * RegCount
    BY <2>1, <2>2, <1>1, <1>2, SMT
  <2> QED
    BY <2>1, <2>3
<1>4. PICK m \in Int : x % (HartCount * RegCount) = m * RegCount
  BY <1>1, <1>3, MultipleModulo
<1>5. PICK l \in Int : (m * RegCount) % (RegfileHarts * RegCount) = l * RegCount
  BY <1>1, MultipleModulo
<1>6. Entry(x % (HartCount * RegCount)) = l * RegCount
  BY <1>4, <1>5 DEF Entry, RegfileSize
<1>7. l \in Nat
  <2>1. l * RegCount >= 0
    <3>1. m * RegCount \in Int
      BY <1>1
    <3>2. Entry(m * RegCount) \in 0 .. RegfileSize - 1
      BY <3>1, EntryType
    <3> QED
      BY <3>2, <1>4, <1>6
  <2>2. ASSUME l < 0 PROVE FALSE
    <3>1. (-l - 1) * RegCount >= 0
      BY <1>1, <2>2, SMT
    <3>2. (-l - 1) * RegCount = -(l * RegCount) - RegCount
      BY <1>1, SMT
    <3>3. l * RegCount \in Int
      BY <1>1
    <3> QED
      BY <1>1, <2>1, <3>1, <3>2, <3>3, SMT
  <2> QED
    BY <2>2
<1>8. ASSUME l * RegCount + 0 = h * RegCount + r PROVE FALSE
  <2>1. l = h
    BY <1>1, <1>7, <1>8, MixedRadixUnique DEF Reg
  <2>2. h * RegCount \in Int
    BY <1>1
  <2> QED
    BY <2>1, <2>2, <1>8, <1>1, SMT
<1>9. l * RegCount + 0 = l * RegCount
  BY <1>1
<1>10. Entry(RegAddr(h, r)) = h * RegCount + r
  BY <1>1, HousedAddr DEF RegAddr
<1> QED
  BY <1>6, <1>8, <1>9, <1>10

----------------------------------------------------------------------------
(* SmtMachine computes with the same instruction set.                      *)
LEMMA SameIsa ==
  /\ \A e : Smt!Entry(e) = Entry(e)
  /\ \A h, r : Smt!RegAddr(h, r) = RegAddr(h, r)
  /\ \A w : Smt!from_logic2(w) = from_logic2(w)
  /\ Smt!WordCount = WordCount
  /\ \A h, i : Smt!IsYield(h, i) = IsYield(h, i)
  /\ \A h, i, e, region : Smt!IsStore(h, i, e, region) = IsStore(h, i, e, region)
<1>1. \A e : Smt!Entry(e) = Entry(e)
  BY DEF Smt!Entry, Entry, Smt!RegfileSize, RegfileSize
<1>2. \A h, r : Smt!RegAddr(h, r) = RegAddr(h, r)
  BY DEF Smt!RegAddr, RegAddr
<1>3. \A w : Smt!from_logic2(w) = from_logic2(w)
  BY DEF Smt!from_logic2, from_logic2
<1>4. Smt!WordCount = WordCount
  BY DEF Smt!WordCount, WordCount
<1>5. \A h, i : Smt!IsYield(h, i) = IsYield(h, i)
  BY DEF Smt!IsYield, IsYield
<1>6. \A h, i, e, region : Smt!IsStore(h, i, e, region) = IsStore(h, i, e, region)
  BY <1>4 DEF Smt!IsStore, IsStore, Smt!Region, Region
<1> QED
  BY <1>1, <1>2, <1>3, <1>4, <1>5, <1>6

LEMMA SameNext ==
  ASSUME NEW h, NEW i, NEW u, NEW v, NEW x
  PROVE  Smt!next_hpc(h, i, u, v, x) = next_hpc(h, i, u, v, x)
<1>1. Smt!WordCount = WordCount
  BY SameIsa
<1>2. Smt!take_branch(i.fn, u, v) = take_branch(i.fn, u, v)
  BY <1>1 DEF Smt!take_branch, take_branch, Smt!Signed, Signed
<1>3. Smt!new_pc(h.pc, i, u, v, x) = new_pc(h.pc, i, u, v, x)
  BY <1>2 DEF Smt!new_pc, new_pc
<1> QED
  BY <1>3 DEF Smt!next_hpc, next_hpc

(* Nothing that is still in phase C changes a register of the thread in B. *)
LEMMA VisibleInB ==
  ASSUME TypeOK, PipeInv, legal, B_hpc.active = 1, NEW r \in Reg
  PROVE  VisibleRegs[Entry(RegAddr(B_hpc.hart, r))] = Settled(RegAddr(B_hpc.hart, r))
<1> DEFINE addr == RegAddr(B_hpc.hart, r)
           e == Entry(addr)
<1>1. /\ HartsApart /\ ~CD_write_regfile
      /\ B_hpc \in Hpc /\ C_hpc \in Hpc /\ C_insn \in Insn
  BY DEF PipeInv, WritePortQuiet, TypeOK
<1>2. B_hpc.hart \in Hart /\ B_hpc.hart < RegfileHarts
  BY <1>1 DEF HartsApart, Hpc
<1>3. e \in 0 .. RegfileSize - 1 /\ Entry(e) = e
  BY <1>2, HousedAddr, EntryOfAddr
<1>4. Settled(e) = Settled(addr)
  BY <1>3 DEF Settled
<1>5. ASSUME CD_wren = 1, e = Entry(CD_waddr(0)) PROVE FALSE
  <2>1. C_hpc.active = 1
    BY <1>1, <1>5 DEF CD_wren
  <2>2. C_hpc.hart \in Hart /\ C_hpc.hart < RegfileHarts /\ C_hpc.hart # B_hpc.hart
    BY <1>1, <2>1 DEF HartsApart, Apart, Hpc
  <2>3. CD_waddr(0) = RegAddr(C_hpc.hart, C_insn.rd)
    BY <1>1, <2>1 DEF CD_waddr
  <2>4. C_insn.rd \in Reg
    BY <1>1, InsnFields
  <2> QED
    BY <1>2, <1>5, <2>2, <2>3, <2>4, HartsDisjoint
<1>6. VisibleRegs[e] = Settled(e)
  BY <1>3, <1>5 DEF VisibleRegs
<1> QED
  BY <1>4, <1>6

(* Phase B works with the operands of SmtMachine's turn.                   *)
LEMMA OperandsAgree ==
  ASSUME TypeOK, PipeInv, legal
  PROVE  Smt!a = BC_reg1 /\ Smt!b = BC_reg2 /\ Smt!addr = BC_addr
<1>1. B_hpc.active = 0 => B_insn.rs1 = 0 /\ B_insn.rs2 = 0
  BY DecodeAssumption DEF PipeInv, BubbleInv, Bubble
<1>2. B_hpc.active \in 0 .. 1 /\ B_insn.rs1 \in Reg /\ B_insn.rs2 \in Reg
  <2>1. B_hpc \in Hpc /\ B_insn \in Insn
    BY DEF TypeOK
  <2> QED
    BY <2>1, InsnFields DEF Hpc, Bit
<1>3. OperandsFresh
  BY DEF PipeInv
<1>4. ASSUME NEW r \in Reg, r # 0, B_hpc.active = 1
      PROVE  Smt!Value(r) = Settled(RegAddr(B_hpc.hart, r))
  BY <1>4, VisibleInB, SameIsa DEF Smt!Value
<1>5. Smt!Value(0) = 0
  BY DEF Smt!Value
<1>6. Smt!a = BC_reg1
  <2>1. CASE B_insn.rs1 = 0
    BY <2>1, <1>5 DEF Smt!a, BC_reg1
  <2>2. CASE B_insn.rs1 # 0
    BY <2>2, <1>1, <1>2, <1>3, <1>4 DEF Smt!a, OperandsFresh
  <2> QED
    BY <2>1, <2>2
<1>7. Smt!b = BC_reg2
  <2>1. CASE B_insn.rs2 = 0
    BY <2>1, <1>5 DEF Smt!b, BC_reg2
  <2>2. CASE B_insn.rs2 # 0
    BY <2>2, <1>1, <1>2, <1>3, <1>4 DEF Smt!b, OperandsFresh
  <2> QED
    BY <2>1, <2>2
<1> QED
  BY <1>6, <1>7, SameIsa DEF Smt!addr, BC_addr

(* So both agree on where the slot goes next.                              *)
LEMMA SuccessorAgrees ==
  ASSUME TypeOK, PipeInv, legal, NEW x
  PROVE  Smt!Successor(x) = BA_hpc(x)
<1>1. Smt!Onward(x) = BC_hpc(x)
  BY OperandsAgree, SameNext DEF Smt!Onward, BC_hpc
<1>2. Deferred.kind = "SWAP" <=> CD_swap
  BY DEF Deferred
<1>3. CD_swap => Deferred.value = C_result
  BY DEF Deferred
<1>4. Smt!IsYield(B_hpc, B_insn) <=> BC_yield
  BY SameIsa DEF BC_yield
<1>5. \A w : Smt!from_logic2(w) = from_logic2(w)
  BY SameIsa
<1> QED
  BY <1>1, <1>2, <1>3, <1>4, <1>5, OperandsAgree DEF Smt!Successor, BA_hpc

----------------------------------------------------------------------------
(* One cycle.                                                              *)
LEMMA BubbleStep ==
  ASSUME BubbleInv, TypeOK, NEW x, Tock(x)
  PROVE  BubbleInv'
<1>1. B_hpc' = A_hpc /\ B_insn' = AB_insn /\ C_hpc' = B_hpc /\ C_insn' = B_insn
  BY DEF Tock
<1>2. A_hpc.active = 0 => AB_insn = Bubble
  BY DEF AB_insn
<1> QED
  BY <1>1, <1>2 DEF BubbleInv

LEMMA HartsStep ==
  ASSUME TypeOK, PipeInv, legal, NEW x \in DONTCARE, Tock(x), Smt!LegalTurn(x)
  PROVE  /\ HartsApart'
         /\ Apart(A_hpc', C_hpc)
<1>1. A_hpc' = BA_hpc(x) /\ B_hpc' = A_hpc /\ C_hpc' = B_hpc
  BY DEF Tock
<1>2. Smt!Successor(x) = A_hpc'
  BY <1>1, SuccessorAgrees
<1>3. A_hpc'.active = 1 => A_hpc'.hart < RegfileHarts
  BY <1>2 DEF Smt!LegalTurn, Smt!Housed
<1>4. Apart(A_hpc', A_hpc) /\ Apart(A_hpc', C_hpc)
  BY <1>2 DEF Smt!LegalTurn, Smt!Rested, Apart
<1>5. HartsApart
  BY DEF PipeInv
<1> QED
  BY <1>1, <1>3, <1>4, <1>5 DEF HartsApart, Apart

LEMMA PortStep ==
  ASSUME TypeOK, PipeInv, legal, NEW x \in DONTCARE, Tock(x), Smt!LegalTurn(x), TypeOK'
  PROVE  WritePortQuiet'
<1>1. /\ D_wren' = CD_wren /\ D_waddr' = CD_waddr(x)
      /\ B_hpc' = A_hpc /\ C_hpc' = B_hpc /\ C_insn' = B_insn /\ C_addr' = BC_addr
  BY DEF Tock
<1>2. /\ C_hpc \in Hpc /\ C_insn.rd \in Reg /\ C_addr \in Int
      /\ C_hpc.active = 1 => C_hpc.hart \in Hart /\ C_hpc.hart < RegfileHarts
  <2>1. C_hpc \in Hpc /\ C_insn \in Insn /\ C_addr \in Word
    BY DEF TypeOK
  <2>2. C_hpc.active = 1 => C_hpc.hart < RegfileHarts
    BY DEF PipeInv, HartsApart
  <2> QED
    BY <2>1, <2>2, InsnFields, WordType DEF Hpc
<1>3. HartsApart' /\ Apart(A_hpc', C_hpc)
  BY HartsStep
<1>4. ASSUME D_wren' = 1 PROVE D_waddr' < RegfileSize
  <2>1. CASE CD_write_regfile
    <3>1. CD_waddr(x) = C_addr % MappedWriteSize
      BY <2>1 DEF CD_waddr
    <3>2. MappedWriteSize \in Nat \ {0} /\ MappedWriteSize <= RegfileSize
      BY SizeAssumption, Sizes
    <3>3. C_addr % MappedWriteSize \in 0 .. MappedWriteSize - 1
      BY <1>2, <3>2, Modulo
    <3> QED
      BY <1>1, <3>1, <3>2, <3>3, Sizes
  <2>2. CASE ~CD_write_regfile
    <3>1. C_hpc.active = 1
      BY <1>1, <1>4, <2>2 DEF CD_wren
    <3>2. CD_waddr(x) = RegAddr(C_hpc.hart, C_insn.rd)
      BY <2>2, <3>1 DEF CD_waddr
    <3>3. CD_waddr(x) \in 0 .. RegfileSize - 1
      BY <1>2, <3>1, <3>2, HousedAddr
    <3> QED
      BY <1>1, <3>3, Sizes
  <2> QED
    BY <2>1, <2>2
<1>5. CD_write_regfile' => B_hpc'.active = 0
  <2>1. CD_write_regfile' = IsStore(B_hpc, B_insn, BC_addr, RegfileRegion)
    BY <1>1 DEF CD_write_regfile
  <2>2. Smt!Stores(RegfileRegion) = IsStore(B_hpc, B_insn, BC_addr, RegfileRegion)
    BY OperandsAgree, SameIsa DEF Smt!Stores
  <2> QED
    BY <1>1, <2>1, <2>2 DEF Smt!LegalTurn, Smt!MappedWriteInReach
<1>6. ASSUME A_hpc'.active = 1, D_wren' = 0, NEW r \in 1 .. RegCount - 1
      PROVE  Entry(D_waddr') # Entry(RegAddr(A_hpc'.hart, r))
  <2>1. A_hpc' \in Hpc
    BY DEF TypeOK
  <2>2. A_hpc'.hart \in Hart /\ A_hpc'.hart < RegfileHarts /\ r \in Reg
    BY <1>3, <1>6, <2>1 DEF HartsApart, Hpc, Reg
  <2>3. ~CD_write_regfile
    BY <1>1, <1>6 DEF CD_wren
  <2>4. CASE C_hpc.active = 1
    <3>1. CD_waddr(x) = RegAddr(C_hpc.hart, C_insn.rd)
      BY <2>3, <2>4 DEF CD_waddr
    <3>2. A_hpc'.hart # C_hpc.hart
      BY <1>3, <1>6, <2>4 DEF Apart
    <3> QED
      BY <1>1, <1>2, <2>2, <2>4, <3>1, <3>2, HartsDisjoint
  <2>5. CASE C_hpc.active # 1
    <3>1. CD_waddr(x) = x % (HartCount * RegCount)
      BY <2>3, <2>5 DEF CD_waddr
    <3> QED
      BY <1>1, <2>2, <3>1, UndrivenAddr
  <2> QED
    BY <2>4, <2>5
<1> QED
  BY <1>4, <1>5, <1>6 DEF WritePortQuiet

(* What B gets: the read of the previous cycle with the forward from D is  *)
(* the register file with all writes of that cycle applied.                *)
LEMMA ReadStep ==
  ASSUME TypeOK, PipeInv, legal, A_hpc.active = 1, NEW r \in 1 .. RegCount - 1,
         WritePortQuiet', D_waddr' \in Nat,
         NEW rdata, rdata = RamRead(RegAddr(A_hpc.hart, r)),
         ram' = IF D_wren = 1 THEN [ram EXCEPT ![Entry(D_waddr)] = D_wdata] ELSE ram
  PROVE  (IF D_waddr' = RegAddr(A_hpc.hart, r) /\ D_wren' = 1 THEN D_wdata' ELSE rdata)
           = IF D_wren' = 1 /\ Entry(D_waddr') = Entry(RegAddr(A_hpc.hart, r))
             THEN D_wdata' ELSE ram'[Entry(RegAddr(A_hpc.hart, r))]
<1> DEFINE addr == RegAddr(A_hpc.hart, r)
<1>1. A_hpc.hart \in Hart /\ A_hpc.hart < RegfileHarts /\ r \in Reg
  <2>1. A_hpc \in Hpc
    BY DEF TypeOK
  <2>2. RegCount \in Nat
    BY SizeAssumption
  <2> QED
    BY <2>1, <2>2 DEF PipeInv, HartsApart, Hpc, Reg
<1>2. addr \in 0 .. RegfileSize - 1 /\ Entry(addr) = addr
  BY <1>1, HousedAddr
<1>3. D_wren' = 1 => Entry(D_waddr') = D_waddr'
  <2>1. D_wren' = 1 => D_waddr' \in 0 .. RegfileSize - 1
    BY Sizes DEF WritePortQuiet
  <2> QED
    BY <2>1, EntryOfAddr
<1>4. ram'[addr] = rdata
  <2>1. D_wren \in 0 .. 1 /\ DOMAIN ram = 0 .. RegfileSize - 1
    BY DEF TypeOK, Bit
  <2>2. CASE Entry(D_waddr) = addr
    <3>1. D_wren = 1
      BY <1>2, <2>1, <2>2 DEF PipeInv, WritePortQuiet
    <3> QED
      BY <1>2, <2>1, <2>2, <3>1 DEF RamRead
  <2>3. CASE Entry(D_waddr) # addr
    BY <1>2, <2>1, <2>3 DEF RamRead
  <2> QED
    BY <2>2, <2>3
<1> QED
  BY <1>2, <1>3, <1>4

LEMMA FreshStep ==
  ASSUME TypeOK, PipeInv, legal, NEW x \in DONTCARE, Tock(x), WritePortQuiet', TypeOK'
  PROVE  OperandsFresh'
<1>1. B_hpc' = A_hpc /\ B_insn' = AB_insn
  BY DEF Tock
<1>2. D_waddr' \in Nat
  BY Sizes DEF TypeOK
<1>3. ram' = IF D_wren = 1 THEN [ram EXCEPT ![Entry(D_waddr)] = D_wdata] ELSE ram
  BY DEF Tock, SocTick, RegfileTick
<1>4. AB_insn.rs1 \in Reg /\ AB_insn.rs2 \in Reg
  <2>1. B_insn' \in Insn
    BY DEF TypeOK
  <2> QED
    BY <1>1, <2>1, InsnFields
<1>5. SUFFICES ASSUME A_hpc.active = 1
               PROVE  /\ AB_insn.rs1 # 0 => BC_reg1' = Settled(RegAddr(B_hpc.hart, B_insn.rs1))'
                      /\ AB_insn.rs2 # 0 => BC_reg2' = Settled(RegAddr(B_hpc.hart, B_insn.rs2))'
  BY <1>1 DEF OperandsFresh
<1>6. /\ rs1data' = RamRead(RegAddr(A_hpc.hart, AB_insn.rs1))
      /\ rs2data' = RamRead(RegAddr(A_hpc.hart, AB_insn.rs2))
  BY <1>5 DEF Tock, SocTick, RegfileTick
<1>7. ASSUME AB_insn.rs1 # 0 PROVE BC_reg1' = Settled(RegAddr(B_hpc.hart, B_insn.rs1))'
  <2>1. AB_insn.rs1 \in 1 .. RegCount - 1
    BY <1>4, <1>7, SizeAssumption DEF Reg
  <2>2. BC_reg1' = IF D_waddr' = RegAddr(A_hpc.hart, AB_insn.rs1) /\ D_wren' = 1
                   THEN D_wdata' ELSE rs1data'
    BY <1>1, <1>7 DEF BC_reg1, reg1, Forwarded
  <2> QED
    BY <1>1, <1>2, <1>3, <1>5, <1>6, <2>1, <2>2, ReadStep DEF Settled
<1>8. ASSUME AB_insn.rs2 # 0 PROVE BC_reg2' = Settled(RegAddr(B_hpc.hart, B_insn.rs2))'
  <2>1. AB_insn.rs2 \in 1 .. RegCount - 1
    BY <1>4, <1>8, SizeAssumption DEF Reg
  <2>2. BC_reg2' = IF D_waddr' = RegAddr(A_hpc.hart, AB_insn.rs2) /\ D_wren' = 1
                   THEN D_wdata' ELSE rs2data'
    BY <1>1, <1>8 DEF BC_reg2, reg2, Forwarded
  <2> QED
    BY <1>1, <1>2, <1>3, <1>5, <1>6, <2>1, <2>2, ReadStep DEF Settled
<1> QED
  BY <1>7, <1>8

(* Reset empties the pipeline and leaves address 0 on the write port.      *)
LEMMA ResetStep ==
  ASSUME NEW x, Reset(x)
  PROVE  PipeInv'
<1>1. /\ A_hpc' = from_logic1(1, 0, BootPc) /\ B_hpc' = Idle /\ C_hpc' = Idle
      /\ B_insn' = Bubble /\ C_insn' = Bubble
      /\ D_waddr' = 0 /\ D_wren' = 0
  BY DEF Reset
<1>2. /\ A_hpc'.hart = 0 /\ B_hpc'.active = 0 /\ C_hpc'.active = 0
      /\ 0 \in Hart /\ 0 < RegfileHarts
  BY <1>1, SizeAssumption DEF from_logic1, Idle, Hart
<1>3. HartsApart'
  BY <1>1, <1>2 DEF HartsApart, Apart
<1>4. ASSUME NEW r \in 1 .. RegCount - 1
      PROVE  Entry(0) # Entry(RegAddr(0, r))
  <2>1. RegAddr(0, r) = r /\ r \in Reg /\ r # 0
    BY SizeAssumption DEF RegAddr, Reg
  <2>2. Entry(0) = 0
    BY EntryOfAddr, Sizes
  <2> QED
    BY <1>2, <2>1, <2>2, HousedAddr
<1>5. WritePortQuiet'
  BY <1>1, <1>2, <1>4 DEF WritePortQuiet, CD_write_regfile, IsStore
<1>6. OperandsFresh' /\ BubbleInv'
  BY <1>1, <1>2 DEF OperandsFresh, BubbleInv
<1> QED
  BY <1>3, <1>5, <1>6 DEF PipeInv

LEMMA PipeInit == RefInit => TypeOK /\ PipeInv
<1> SUFFICES ASSUME RefInit PROVE PipeInv
  BY InitType DEF RefInit
<1>1. /\ A_hpc = Idle /\ B_hpc = Idle /\ C_hpc = Idle
      /\ B_insn = Bubble /\ C_insn = Bubble /\ D_wren = 0
  BY DEF RefInit, Init
<1>2. Idle.active = 0
  BY DEF Idle, from_logic1
<1> QED
  BY <1>1, <1>2 DEF PipeInv, BubbleInv, HartsApart, Apart, WritePortQuiet,
                    CD_write_regfile, IsStore, OperandsFresh

LEMMA PipeNext == TypeOK /\ PipeInv /\ [RefNext]_refVars => TypeOK' /\ PipeInv'
<1> SUFFICES ASSUME TypeOK, PipeInv, [RefNext]_refVars PROVE TypeOK' /\ PipeInv'
  OBVIOUS
<1>1. TypeOK'
  BY NextType DEF RefNext, RefTock, RefReset, refVars, Next
<1>2. ASSUME NEW x \in DONTCARE, RefTock(x) PROVE PipeInv'
  <2>1. BubbleInv'
    BY <1>2, BubbleStep DEF RefTock, PipeInv
  <2>2. ASSUME legal' PROVE HartsApart' /\ WritePortQuiet' /\ OperandsFresh'
    <3>1. legal /\ Smt!LegalTurn(x)
      BY <1>2, <2>2 DEF RefTock, Observe
    <3>2. HartsApart' /\ WritePortQuiet'
      BY <1>1, <1>2, <3>1, HartsStep, PortStep DEF RefTock
    <3> QED
      BY <1>1, <1>2, <3>1, <3>2, FreshStep DEF RefTock
  <2> QED
    BY <2>1, <2>2 DEF PipeInv
<1>3. ASSUME NEW x \in DONTCARE, RefReset(x) PROVE PipeInv'
  BY <1>3, ResetStep DEF RefReset
<1>4. CASE UNCHANGED refVars
  <2>1. UNCHANGED <<BubbleInv, legal, HartsApart, WritePortQuiet, OperandsFresh>>
    BY <1>4 DEF refVars, vars, pipeVars, socVars, BubbleInv, HartsApart, WritePortQuiet,
                OperandsFresh, CD_write_regfile, BC_reg1, BC_reg2, reg1, reg2, Forwarded, Settled
  <2> QED
    BY <1>1, <2>1 DEF PipeInv
<1> QED
  BY <1>1, <1>2, <1>3, <1>4 DEF RefNext

(* The operands an instruction works with are the newest values of its     *)
(* thread's registers (core:99-103, regfile:23) as long as the program     *)
(* keeps the rules of SmtMachine, whenever reset comes.                    *)
THEOREM OperandsAreFresh == RefSpec => []LawfulOperandsFresh
<1>1. TypeOK /\ PipeInv => LawfulOperandsFresh
  BY DEF PipeInv, LawfulOperandsFresh
<1> QED
  BY <1>1, PipeInit, PipeNext, PTL DEF RefSpec

(* Why: the pipeline never mixes two harts that share registers, and the   *)
(* write port never shows a register that phase A is about to read.        *)
THEOREM PipelineInvariant == RefSpec => []PipeInv
  BY PipeInit, PipeNext, PTL DEF RefSpec
=============================================================================
