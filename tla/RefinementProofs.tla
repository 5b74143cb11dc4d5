-------------------------- MODULE RefinementProofs --------------------------
(***************************************************************************)
(* The pipelined core implements SmtMachine: in a program that keeps the   *)
(* rules every clock cycle is one whole turn of the abstract machine.      *)
(***************************************************************************)
EXTENDS FreshnessProofs

(* SmtMachine computes with the same instruction set, continued.           *)
LEMMA SameIsa2 ==
  /\ \A h : Smt!to_logic(h) = to_logic(h)
  /\ \A f, p, q : Smt!from_logic1(f, p, q) = from_logic1(f, p, q)
  /\ Smt!Idle = Idle /\ Smt!Bubble = Bubble
  /\ \A h, i : Smt!IsSwap(h, i) = IsSwap(h, i)
  /\ \A i : Smt!WritesRd(i) = WritesRd(i)
  /\ \A h, i, e, region : Smt!IsLoad(h, i, e, region) = IsLoad(h, i, e, region)
  /\ Smt!RegfileSize = RegfileSize /\ Smt!Word = Word /\ Smt!Reg = Reg
<1>1. \A h : Smt!to_logic(h) = to_logic(h)
  BY DEF Smt!to_logic, to_logic
<1>2. \A f, p, q : Smt!from_logic1(f, p, q) = from_logic1(f, p, q)
  BY DEF Smt!from_logic1, from_logic1
<1>3. Smt!Idle = Idle /\ Smt!Bubble = Bubble
  BY <1>2 DEF Smt!Idle, Idle, Smt!Bubble, Bubble
<1>4. \A h, i : Smt!IsSwap(h, i) = IsSwap(h, i)
  BY DEF Smt!IsSwap, IsSwap
<1>5. \A i : Smt!WritesRd(i) = WritesRd(i)
  BY DEF Smt!WritesRd, WritesRd
<1>6. Smt!WordCount = WordCount
  BY SameIsa
<1>7. \A h, i, e, region : Smt!IsLoad(h, i, e, region) = IsLoad(h, i, e, region)
  BY <1>6 DEF Smt!IsLoad, IsLoad, Smt!Region, Region
<1>8. Smt!RegfileSize = RegfileSize /\ Smt!Word = Word /\ Smt!Reg = Reg
  BY <1>6 DEF Smt!RegfileSize, RegfileSize, Smt!Word, Word, Smt!Reg, Reg
<1> QED
  BY <1>1, <1>2, <1>3, <1>4, <1>5, <1>7, <1>8

LEMMA SameExecute ==
  ASSUME NEW h, NEW i, NEW u, NEW v, NEW n, NEW x
  PROVE  Smt!execute(h, i, u, v, n, x) = execute(h, i, u, v, n, x)
<1>1. Smt!WordCount = WordCount /\ Smt!to_logic(n) = to_logic(n)
  BY SameIsa, SameIsa2
<1>2. Smt!IsYield(h, i) = IsYield(h, i) /\ Smt!IsSwap(h, i) = IsSwap(h, i)
  BY SameIsa, SameIsa2
<1>3. \A fn, s, t : Smt!execute_alu(fn, s, t, x) = execute_alu(fn, s, t, x)
  BY DEF Smt!execute_alu, execute_alu, Smt!AluFn, AluFn
<1> QED
  BY <1>1, <1>2, <1>3 DEF Smt!execute, execute

LEMMA RegAddrModulo ==
  ASSUME NEW h \in Hart, NEW r \in Reg
  PROVE  RegAddr(h, r) % RegCount = r
<1> DEFINE w == RegAddr(h, r)
<1>1. RegCount \in Nat \ {0} /\ h \in Nat /\ r \in 0 .. RegCount - 1
  BY SizeAssumption DEF Hart, Reg
<1>2. w = h * RegCount + r /\ w \in Nat
  BY <1>1 DEF RegAddr
<1>3. w \div RegCount \in Int /\ w = RegCount * (w \div RegCount) + (w % RegCount)
  BY <1>1, <1>2, DivMod
<1>4. w % RegCount \in 0 .. RegCount - 1
  BY <1>1, <1>2, Modulo
<1>5. w \div RegCount \in Nat
  BY <1>1, <1>2, DivType
<1>6. RegCount * (w \div RegCount) = (w \div RegCount) * RegCount
  BY <1>1, <1>5, SMT
<1>7. (w \div RegCount) * RegCount + (w % RegCount) = h * RegCount + r
  BY <1>2, <1>3, <1>6
<1>8. w \div RegCount = h
  BY <1>1, <1>4, <1>5, <1>7, MixedRadixUnique
<1>9. h * RegCount \in Int
  BY <1>1
<1> QED
  BY <1>1, <1>4, <1>7, <1>8, <1>9, SMT

----------------------------------------------------------------------------
(* The instruction in D belongs to the thread D_hpc names, and so does the *)
(* address it leaves on the write port.                                    *)
HistInv ==
  /\ legal \in BOOLEAN /\ D_hpc \in Hpc
  /\ D_hpc.active = 1 /\ D_wren = 0 => Smt!Owns(D_hpc.hart, D_waddr)

LEMMA OwnsOwn ==
  ASSUME NEW h, NEW r \in Reg PROVE Smt!Owns(h, RegAddr(h, r))
  BY SameIsa, SameIsa2 DEF Smt!Owns

LEMMA HistStep ==
  ASSUME TypeOK, HistInv, [RefNext]_refVars PROVE HistInv'
<1>1. ASSUME NEW x, RefTock(x) PROVE HistInv'
  <2>1. /\ D_hpc' = C_hpc /\ D_wren' = CD_wren /\ D_waddr' = CD_waddr(x)
        /\ legal' = (legal /\ Smt!LegalTurn(x))
    BY <1>1 DEF RefTock, Tock, Observe
  <2>2. ASSUME C_hpc.active = 1, CD_wren = 0 PROVE Smt!Owns(C_hpc.hart, CD_waddr(x))
    <3>1. CD_waddr(x) = RegAddr(C_hpc.hart, C_insn.rd)
      BY <2>2 DEF CD_waddr, CD_wren
    <3>2. C_insn.rd \in Reg
      BY InsnFields DEF TypeOK
    <3> QED
      BY <3>1, <3>2, OwnsOwn
  <2> QED
    BY <2>1, <2>2 DEF HistInv, TypeOK, Smt!Owns
<1>2. ASSUME NEW x, RefReset(x) PROVE HistInv'
  <2>1. D_hpc' = Idle /\ legal' = (legal /\ Smt!LegalTurn(x))
    BY <1>2 DEF RefReset, Observe
  <2>2. Idle \in Hpc /\ Idle.active = 0
    BY IdleType DEF Idle, from_logic1
  <2> QED
    BY <2>1, <2>2 DEF HistInv
<1>3. CASE UNCHANGED refVars
  BY <1>3 DEF HistInv, refVars, vars, pipeVars, Smt!Owns
<1> QED
  BY <1>1, <1>2, <1>3 DEF RefNext

----------------------------------------------------------------------------
(* Memories and fetch, in a clock cycle and in a reset alike.              *)
LEMMA StoreActive ==
  ASSUME TypeOK, BubbleInv, B_insn.op \in {"LOAD", "STORE"} PROVE B_hpc.active = 1
<1>1. Bubble.op = "NONE"
  BY DecodeAssumption DEF Bubble
<1>2. B_hpc.active \in 0 .. 1
  BY DEF TypeOK, Hpc, Bit
<1> QED
  BY <1>1, <1>2 DEF BubbleInv

LEMMA MemoriesAgree ==
  ASSUME TypeOK, PipeInv, legal, NEW x, SocTick(x)
  PROVE  Smt!Memories(x)
<1>1. Smt!a = BC_reg1 /\ Smt!b = BC_reg2 /\ Smt!addr = BC_addr
  BY OperandsAgree
<1>2. \A region : Smt!Stores(region) = IsStore(B_hpc, B_insn, BC_addr, region)
  BY <1>1, SameIsa DEF Smt!Stores
<1>3. B_insn.op \in {"LOAD", "STORE"} => B_hpc.active = 1
  BY StoreActive DEF PipeInv
<1>4. data' = Smt!Put(data, Smt!Stores(MemRegion), Smt!addr % DataSize, Smt!b)
  BY <1>1, <1>2, <1>3 DEF SocTick, DataTick, IsStore, Smt!Put
<1>5. debug' = IF Smt!Stores(DebugRegion) THEN Smt!b ELSE debug
  BY <1>1, <1>2, <1>3 DEF SocTick, DataTick, IsStore
<1>6. Smt!StoresCode(x) <=> CD_write_code /\ BA_hpc(x).active = 0
  <2>1. CD_write_code => ~CD_swap
    BY DEF CD_write_code, CD_swap, IsStore, IsSwap
  <2> QED
    BY <2>1, SuccessorAgrees DEF Smt!StoresCode, Deferred
<1>7. CD_write_code => Deferred.addr = C_addr /\ Deferred.value = C_result
  BY DEF Deferred, CD_write_code, CD_swap, IsStore, IsSwap
<1>8. code' = Smt!Put(code, Smt!StoresCode(x), Deferred.addr % CodeSize, Deferred.value)
  BY <1>6, <1>7 DEF SocTick, CodeTick, Smt!Put
<1> QED
  BY <1>4, <1>5, <1>8 DEF Smt!Memories

LEMMA FetchAgrees ==
  ASSUME TypeOK, PipeInv, legal, NEW x \in DONTCARE, Tock(x)
  PROVE  AB_insn' = IF Smt!Successor(x).active = 1
                    THEN Decode[code[Smt!Successor(x).pc % CodeSize]] ELSE Smt!Bubble
<1>1. A_hpc' = BA_hpc(x) /\ Smt!Successor(x) = BA_hpc(x) /\ Smt!Bubble = Bubble
  BY SuccessorAgrees, SameIsa2 DEF Tock
<1>2. BA_hpc(x).active = 1 => code_rdata' = code[BA_hpc(x).pc % CodeSize]
  BY DEF Tock, SocTick, CodeTick
<1> QED
  BY <1>1, <1>2 DEF AB_insn

LEMMA DeferredAgrees ==
  ASSUME TypeOK, PipeInv, legal, NEW x, Tock(x)
  PROVE  Deferred' = Smt!NewDeferred
<1>1. Smt!a = BC_reg1 /\ Smt!b = BC_reg2 /\ Smt!addr = BC_addr
  BY OperandsAgree
<1>2. C_hpc' = B_hpc /\ C_insn' = B_insn /\ C_addr' = BC_addr /\ C_result' = BC_result(x)
  BY DEF Tock
<1>3. CD_swap' = Smt!IsSwap(B_hpc, B_insn)
  BY <1>2, SameIsa2 DEF CD_swap
<1>4. CD_write_code' = Smt!Stores(CodeRegion)
  BY <1>1, <1>2, SameIsa DEF CD_write_code, Smt!Stores
<1>5. IsSwap(B_hpc, B_insn) => BC_result(x) = BC_reg1
  BY DEF IsSwap, IsYield, BC_result, execute
<1>6. IsStore(B_hpc, B_insn, BC_addr, CodeRegion) => BC_result(x) = BC_reg2
  BY DEF IsStore, IsSwap, IsYield, BC_result, execute
<1>7. \A h, r : Smt!RegAddr(h, r) = RegAddr(h, r)
  BY SameIsa
<1>8. CASE CD_swap'
  BY <1>1, <1>2, <1>3, <1>5, <1>7, <1>8, SameIsa2 DEF Deferred, Smt!NewDeferred
<1>9. CASE ~CD_swap' /\ CD_write_code'
  BY <1>1, <1>2, <1>3, <1>4, <1>6, <1>9, SameIsa DEF Deferred, Smt!NewDeferred, Smt!Stores
<1>10. CASE ~CD_swap' /\ ~CD_write_code'
  BY <1>3, <1>4, <1>10 DEF Deferred, Smt!NewDeferred, Smt!Nothing
<1> QED
  BY <1>8, <1>9, <1>10

----------------------------------------------------------------------------
(* Registers.  What C sends to D is what SmtMachine had already counted as *)
(* visible; a swap that is due is completed.                               *)
LEMMA SettledStep ==
  ASSUME TypeOK, NEW x, Tock(x), NEW i \in 0 .. RegfileSize - 1
  PROVE  Settled(i)' = IF CD_wren = 1 /\ i = Entry(CD_waddr(x)) THEN CD_writeback(x)
                       ELSE Settled(i)
<1>1. Entry(i) = i
  BY EntryOfAddr
<1>2. D_wren' = CD_wren /\ D_waddr' = CD_waddr(x) /\ D_wdata' = CD_writeback(x)
  BY DEF Tock
<1>3. ram' = IF D_wren = 1 THEN [ram EXCEPT ![Entry(D_waddr)] = D_wdata] ELSE ram
  BY DEF Tock, SocTick, RegfileTick
<1>4. ram'[i] = Settled(i)
  BY <1>1, <1>3 DEF Settled, TypeOK
<1> QED
  BY <1>1, <1>2, <1>4 DEF Settled

LEMMA VisibleSettles ==
  ASSUME TypeOK, PipeInv, legal, NEW x \in DONTCARE, Tock(x),
         NEW i \in 0 .. RegfileSize - 1
  PROVE  Smt!Put(VisibleRegs, Deferred.kind = "SWAP" /\ Deferred.addr % RegCount # 0,
                 Smt!Entry(Deferred.addr), Smt!to_logic(Smt!Onward(x)))[i] = Settled(i)'
<1> DEFINE due == Deferred.kind = "SWAP" /\ Deferred.addr % RegCount # 0
           base == Smt!Put(VisibleRegs, due, Smt!Entry(Deferred.addr), Smt!to_logic(Smt!Onward(x)))
<1>1. base[i] = IF due /\ i = Entry(Deferred.addr) THEN to_logic(BC_hpc(x)) ELSE VisibleRegs[i]
  <2>1. Smt!Onward(x) = BC_hpc(x)
    BY OperandsAgree, SameNext DEF Smt!Onward, BC_hpc
  <2>2. Smt!Entry(Deferred.addr) = Entry(Deferred.addr)
        /\ Smt!to_logic(Smt!Onward(x)) = to_logic(BC_hpc(x))
    BY <2>1, SameIsa, SameIsa2
  <2>3. i \in DOMAIN VisibleRegs
    BY DEF VisibleRegs
  <2>4. CASE due
    <3>1. base = [VisibleRegs EXCEPT ![Entry(Deferred.addr)] = to_logic(BC_hpc(x))]
      BY <2>2, <2>4 DEF Smt!Put
    <3> QED
      BY <2>3, <2>4, <3>1
  <2>5. CASE ~due
    BY <2>5 DEF Smt!Put
  <2> QED
    BY <2>4, <2>5
<1>2. Settled(i)' = IF CD_wren = 1 /\ i = Entry(CD_waddr(x)) THEN CD_writeback(x) ELSE Settled(i)
  BY SettledStep
<1>3. VisibleRegs[i] = IF CD_wren = 1 /\ ~CD_swap /\ i = Entry(CD_waddr(0))
                       THEN CD_writeback(0) ELSE Settled(i)
  BY DEF VisibleRegs
<1>4. CASE CD_swap
  <2>1. C_hpc.active = 1 /\ ~CD_write_regfile /\ C_insn.op = "SYSTEM"
    BY <1>4 DEF CD_swap, IsSwap, CD_write_regfile, IsStore
  <2>2. C_hpc.hart \in Hart /\ C_insn.rd \in Reg
    BY InsnFields DEF TypeOK, Hpc
  <2>3. Deferred.kind = "SWAP" /\ Deferred.addr = RegAddr(C_hpc.hart, C_insn.rd)
    BY <1>4 DEF Deferred
  <2>4. Deferred.addr % RegCount = C_insn.rd
    BY <2>2, <2>3, RegAddrModulo
  <2>5. CD_wren = 1 <=> C_insn.rd # 0
    BY <2>1 DEF CD_wren, WritesRd
  <2>6. CD_waddr(x) = Deferred.addr /\ CD_writeback(x) = to_logic(BC_hpc(x))
    BY <1>4, <2>1, <2>3 DEF CD_waddr, CD_writeback
  <2> QED
    BY <1>1, <1>2, <1>3, <1>4, <2>3, <2>4, <2>5, <2>6
<1>5. CASE ~CD_swap
  <2>1. ~due
    BY <1>5 DEF Deferred
  <2>2. ASSUME CD_wren = 1
        PROVE  CD_waddr(x) = CD_waddr(0) /\ CD_writeback(x) = CD_writeback(0)
    <3>1. C_hpc.active = 1
      BY <2>2 DEF CD_wren, CD_write_regfile, IsStore
    <3> QED
      BY <1>5, <3>1 DEF CD_waddr, CD_writeback
  <2> QED
    BY <1>1, <1>2, <1>3, <1>5, <2>1, <2>2
<1> QED
  BY <1>4, <1>5

(* A mapped load reads through the other slot's port what SmtMachine reads *)
(* from the registers: by ColdMappedRead neither the write in C nor an     *)
(* address left on the write port by D is in the way.                      *)
LEMMA MappedLoad ==
  ASSUME TypeOK, PipeInv, HistInv, legal, NEW x \in DONTCARE, Tock(x),
         Smt!LegalTurn(x), Smt!Loads(RegfileRegion)
  PROVE  reg2' = VisibleRegs[Entry(BC_addr)]
<1>1. BC_read_regfile /\ B_hpc.active = 1 /\ Smt!addr = BC_addr
  BY OperandsAgree, SameIsa2 DEF Smt!Loads, BC_read_regfile, IsLoad
<1>2. /\ A_hpc.active = 0
      /\ D_hpc.active = 1 /\ D_hpc.hart = B_hpc.hart
      /\ ~Smt!Owns(B_hpc.hart, BC_addr)
      /\ C_hpc.active = 1 => ~Smt!Owns(C_hpc.hart, BC_addr)
  BY <1>1 DEF Smt!LegalTurn, Smt!ColdMappedRead
<1>3. ~CD_write_regfile
  BY <1>1 DEF PipeInv, WritePortQuiet
<1>4. C_insn.rd \in Reg /\ A_hpc.hart \in Hart /\ C_hpc.hart \in Hart /\ 0 \in Reg
  BY InsnFields, SizeAssumption DEF TypeOK, Hpc, Reg
<1>5. BC_addr \in Int /\ Entry(BC_addr) \in 0 .. RegfileSize - 1
  BY OperandTypes, WordType, EntryType
<1>6. ASSUME CD_wren = 1
      PROVE  C_hpc.active = 1 /\ C_insn.rd # 0
             /\ \A y : CD_waddr(y) = RegAddr(C_hpc.hart, C_insn.rd)
  BY <1>3, <1>6 DEF CD_wren, CD_waddr, WritesRd
<1>7. rs2data' = RamRead(BC_addr)
  BY <1>1, <1>2 DEF Tock, SocTick, RegfileTick
<1>8. reg2' = rs2data'
  <2>1. B_insn'.rs2 = 0 /\ B_hpc' = A_hpc
    BY <1>2, DecodeAssumption DEF Tock, AB_insn, Bubble
  <2>2. D_wren' = CD_wren /\ D_waddr' = CD_waddr(x)
    BY DEF Tock
  <2>3. ASSUME CD_wren = 1 PROVE CD_waddr(x) # RegAddr(A_hpc.hart, 0)
    <3>1. RegAddr(C_hpc.hart, C_insn.rd) % RegCount = C_insn.rd
      BY <1>4, RegAddrModulo
    <3>2. RegAddr(A_hpc.hart, 0) % RegCount = 0
      BY <1>4, RegAddrModulo
    <3> QED
      BY <1>6, <2>3, <3>1, <3>2
  <2> QED
    BY <2>1, <2>2, <2>3 DEF reg2, Forwarded
<1>9. VisibleRegs[Entry(BC_addr)] = Settled(Entry(BC_addr))
  <2>1. ASSUME CD_wren = 1, Entry(BC_addr) = Entry(CD_waddr(0)) PROVE FALSE
    <3>1. C_hpc.active = 1 /\ Entry(BC_addr) = Entry(RegAddr(C_hpc.hart, C_insn.rd))
      BY <1>6, <2>1
    <3>2. Smt!Owns(C_hpc.hart, BC_addr)
      BY <1>4, <3>1, SameIsa, SameIsa2 DEF Smt!Owns
    <3> QED
      BY <1>2, <3>1, <3>2
  <2> QED
    BY <1>5, <2>1 DEF VisibleRegs
<1>10. Settled(Entry(BC_addr)) = RamRead(BC_addr)
  <2>1. Entry(Entry(BC_addr)) = Entry(BC_addr)
    BY <1>5, EntryOfAddr
  <2>2. D_wren \in 0 .. 1
    BY DEF TypeOK, Bit
  <2>3. ASSUME D_wren = 0, Entry(D_waddr) = Entry(BC_addr) PROVE FALSE
    <3>1. Smt!Owns(B_hpc.hart, D_waddr)
      BY <1>2, <2>3 DEF HistInv
    <3>2. Smt!Owns(B_hpc.hart, BC_addr)
      BY <2>3, <3>1, SameIsa DEF Smt!Owns
    <3> QED
      BY <1>2, <3>2
  <2> QED
    BY <2>1, <2>2, <2>3 DEF Settled, RamRead
<1> QED
  BY <1>7, <1>8, <1>9, <1>10

(* The result of the turn is what phase C writes back in the next cycle.   *)
LEMMA ResultAgrees ==
  ASSUME TypeOK, PipeInv, HistInv, legal, NEW x \in DONTCARE, Tock(x),
         Smt!LegalTurn(x), B_hpc.active = 1, ~IsSwap(B_hpc, B_insn)
  PROVE  CD_writeback(0)' = Smt!Result(x)
<1>1. Smt!a = BC_reg1 /\ Smt!b = BC_reg2 /\ Smt!addr = BC_addr
  BY OperandsAgree
<1>2. C_hpc' = B_hpc /\ C_insn' = B_insn /\ C_addr' = BC_addr /\ C_result' = BC_result(x)
  BY DEF Tock
<1>3. \A region : Smt!Loads(region) = IsLoad(B_hpc, B_insn, BC_addr, region)
  BY <1>1, SameIsa2 DEF Smt!Loads
<1>4. /\ CD_read_regfile' = Smt!Loads(RegfileRegion)
      /\ CD_read_mem' = Smt!Loads(MemRegion)
      /\ ~CD_swap'
  BY <1>2, <1>3 DEF CD_read_regfile, CD_read_mem, CD_swap
<1>5. CASE Smt!Loads(RegfileRegion)
  <2>1. Smt!Result(x) = VisibleRegs[Entry(BC_addr)]
    BY <1>1, <1>5, SameIsa DEF Smt!Result
  <2>2. CD_writeback(0)' = reg2'
    BY <1>4, <1>5 DEF CD_writeback
  <2> QED
    BY <1>5, <2>1, <2>2, MappedLoad
<1>6. CASE ~Smt!Loads(RegfileRegion) /\ Smt!Loads(MemRegion)
  <2>1. Region(BC_addr) = MemRegion
    BY <1>3, <1>6 DEF IsLoad
  <2>2. ~debug_valid' /\ data_rdata' = data[BC_addr % DataSize]
    BY <2>1, RegionAssumption DEF Tock, SocTick, DataTick
  <2>3. CD_writeback(0)' = data_rdata'
    BY <1>4, <1>6, <2>2 DEF CD_writeback, data_tld
  <2> QED
    BY <1>1, <1>6, <2>2, <2>3 DEF Smt!Result
<1>7. CASE ~Smt!Loads(RegfileRegion) /\ ~Smt!Loads(MemRegion)
  <2>1. CD_writeback(0)' = BC_result(x)
    BY <1>2, <1>4, <1>7 DEF CD_writeback
  <2>2. Smt!Onward(x) = BC_hpc(x)
    BY OperandsAgree, SameNext DEF Smt!Onward, BC_hpc
  <2>3. Smt!Result(x) = Smt!execute(B_hpc, B_insn, BC_reg1, BC_reg2, BC_hpc(x), x)
    BY <1>1, <1>7, <2>2 DEF Smt!Result
  <2> QED
    BY <2>1, <2>3, SameExecute DEF BC_result
<1> QED
  BY <1>5, <1>6, <1>7

LEMMA RegsAgree ==
  ASSUME TypeOK, PipeInv, HistInv, legal, NEW x \in DONTCARE, Tock(x), Smt!LegalTurn(x)
  PROVE  VisibleRegs' = Smt!NewRegs(x)
<1> DEFINE S == 0 .. RegfileSize - 1
           base == Smt!Put(VisibleRegs, Deferred.kind = "SWAP" /\ Deferred.addr % RegCount # 0,
                           Smt!Entry(Deferred.addr), Smt!to_logic(Smt!Onward(x)))
           writes == B_hpc.active = 1 /\ WritesRd(B_insn) /\ ~IsSwap(B_hpc, B_insn)
           mid == Smt!Put(base, writes, Entry(RegAddr(B_hpc.hart, B_insn.rd)), Smt!Result(x))
           stores == IsStore(B_hpc, B_insn, BC_addr, RegfileRegion)
           new == Smt!Put(mid, stores, Entry(BC_addr), BC_reg2)
<1>1. Smt!a = BC_reg1 /\ Smt!b = BC_reg2 /\ Smt!addr = BC_addr
  BY OperandsAgree
<1>2. Smt!NewRegs(x) = new
  <2>1. Smt!WritesRd(B_insn) = WritesRd(B_insn) /\ Smt!IsSwap(B_hpc, B_insn) = IsSwap(B_hpc, B_insn)
    BY SameIsa2
  <2>2. /\ Smt!Entry(Smt!RegAddr(B_hpc.hart, B_insn.rd)) = Entry(RegAddr(B_hpc.hart, B_insn.rd))
        /\ Smt!Entry(Smt!addr) = Entry(BC_addr)
    BY <1>1, SameIsa
  <2>3. Smt!Stores(RegfileRegion) = stores
    BY <1>1, SameIsa DEF Smt!Stores
  <2> QED
    BY <1>1, <2>1, <2>2, <2>3 DEF Smt!NewRegs
<1>3. \A i \in S : base[i] = Settled(i)'
  BY VisibleSettles
<1>4. base = [i \in S |-> base[i]]
  BY DEF Smt!Put, VisibleRegs
<1> HIDE DEF base
<1>5. C_hpc' = B_hpc /\ C_insn' = B_insn /\ C_addr' = BC_addr /\ C_result' = BC_result(x)
  BY DEF Tock
<1>6. CD_swap' = IsSwap(B_hpc, B_insn) /\ CD_write_regfile' = stores
  BY <1>5 DEF CD_swap, CD_write_regfile
<1>7. VisibleRegs' = [i \in S |-> IF CD_wren' = 1 /\ ~CD_swap' /\ i = Entry(CD_waddr(0)')
                                  THEN CD_writeback(0)' ELSE Settled(i)']
  BY DEF VisibleRegs, Entry
<1>8. CASE stores
  <2>1. ~writes /\ ~IsSwap(B_hpc, B_insn) /\ B_insn.op = "STORE"
    BY <1>8 DEF IsStore, WritesRd, IsSwap
  <2>2. new = [base EXCEPT ![Entry(BC_addr)] = BC_reg2]
    BY <1>8, <2>1 DEF Smt!Put
  <2>3. CD_wren' = 1 /\ CD_waddr(0)' = BC_addr % MappedWriteSize
    BY <1>5, <1>6, <1>8 DEF CD_wren, CD_waddr
  <2>4. Entry(CD_waddr(0)') = Entry(BC_addr)
    <3>1. Smt!Stores(RegfileRegion)
      BY <1>1, <1>8, SameIsa DEF Smt!Stores
    <3> QED
      BY <1>1, <2>3, <3>1, SameIsa DEF Smt!LegalTurn, Smt!MappedWriteInReach
  <2>5. CD_writeback(0)' = BC_reg2
    <3>1. ~CD_swap' /\ ~CD_read_regfile' /\ ~CD_read_mem' /\ C_hpc'.active = 1
      BY <1>5, <1>6, <1>8, <2>1 DEF CD_read_regfile, CD_read_mem, IsLoad, IsStore
    <3>2. BC_result(x) = BC_reg2
      BY <2>1 DEF BC_result, execute, IsYield, IsSwap
    <3> QED
      BY <1>5, <3>1, <3>2 DEF CD_writeback
  <2>6. new = [i \in S |-> IF i = Entry(BC_addr) THEN BC_reg2 ELSE base[i]]
    BY <1>4, <2>2
  <2> QED
    BY <1>2, <1>3, <1>6, <1>7, <2>1, <2>3, <2>4, <2>5, <2>6
<1>9. CASE writes /\ ~stores
  <2>1. new = [base EXCEPT ![Entry(RegAddr(B_hpc.hart, B_insn.rd))] = Smt!Result(x)]
    BY <1>9 DEF Smt!Put
  <2>2. CD_wren' = 1 /\ CD_waddr(0)' = RegAddr(B_hpc.hart, B_insn.rd)
    BY <1>5, <1>6, <1>9 DEF CD_wren, CD_waddr
  <2>3. CD_writeback(0)' = Smt!Result(x)
    BY <1>9, ResultAgrees
  <2>4. new = [i \in S |-> IF i = Entry(RegAddr(B_hpc.hart, B_insn.rd))
                           THEN Smt!Result(x) ELSE base[i]]
    BY <1>4, <2>1
  <2> QED
    BY <1>2, <1>3, <1>6, <1>7, <1>9, <2>2, <2>3, <2>4
<1>10. CASE ~writes /\ ~stores
  <2>1. new = base
    BY <1>10 DEF Smt!Put
  <2>2. ~(CD_wren' = 1 /\ ~CD_swap')
    BY <1>5, <1>6, <1>10 DEF CD_wren
  <2> QED
    BY <1>2, <1>3, <1>4, <1>7, <2>1, <2>2
<1> QED
  BY <1>8, <1>9, <1>10

----------------------------------------------------------------------------
(* One clock cycle is one turn.                                            *)
LEMMA TockIsTurn ==
  ASSUME TypeOK, PipeInv, HistInv, legal, NEW x \in DONTCARE, RefTock(x), Smt!LegalTurn(x)
  PROVE  Smt!Turn(x)
<1>1. Tock(x) /\ D_hpc' = C_hpc
  BY DEF RefTock
<1>2. /\ B_hpc' = A_hpc /\ A_hpc' = Smt!Successor(x) /\ C_hpc' = B_hpc
      /\ B_insn' = AB_insn
  BY <1>1, SuccessorAgrees DEF Tock
<1>3. Smt!Memories(x)
  BY <1>1, MemoriesAgree DEF Tock
<1> QED
  BY <1>1, <1>2, <1>3, FetchAgrees, DeferredAgrees, RegsAgree DEF Smt!Turn

LEMMA ResetIsTurn ==
  ASSUME TypeOK, PipeInv, legal, NEW x \in DONTCARE, RefReset(x)
  PROVE  Smt!ResetTurn(x)
<1>1. /\ A_hpc' = from_logic1(1, 0, BootPc) /\ B_hpc' = Idle /\ B_insn' = Bubble
      /\ C_hpc' = Idle /\ C_insn' = Bubble /\ D_hpc' = Idle /\ D_wren' = 0
      /\ SocTick(x)
  BY DEF RefReset, Reset
<1>2. Smt!Memories(x)
  BY <1>1, MemoriesAgree
<1>3. A_hpc'.active = 1 /\ C_hpc'.active = 0
  BY <1>1 DEF from_logic1, Idle
<1>4. \E cell \in DOMAIN code : AB_insn' = Decode[code[cell]]
  <2>1. PICK w \in {C_addr, BA_hpc(x).pc} : code_rdata' = code[w % CodeSize]
    BY <1>1 DEF SocTick, CodeTick
  <2>2. C_addr \in Int /\ BA_hpc(x).pc \in Int
    BY PhaseTypes, WordType DEF TypeOK, Hpc
  <2>3. w % CodeSize \in 0 .. CodeSize - 1
    BY <2>1, <2>2, Modulo, SizeAssumption
  <2>4. AB_insn' = Decode[code_rdata']
    BY <1>3 DEF AB_insn
  <2> QED
    BY <2>1, <2>3, <2>4 DEF TypeOK
<1>5. Deferred' = Smt!Nothing
  BY <1>3 DEF Deferred, CD_swap, CD_write_code, IsSwap, IsStore, Smt!Nothing
<1>6. \E i \in DOMAIN VisibleRegs : \A j \in DOMAIN VisibleRegs \ {i} :
        VisibleRegs'[j] = VisibleRegs[j]
  <2>1. DOMAIN VisibleRegs = 0 .. RegfileSize - 1
    BY DEF VisibleRegs
  <2>2. CD_waddr(0) \in Int
    <3>1. C_hpc \in Hpc /\ C_insn.rd \in Reg /\ C_addr \in Int
      BY InsnFields, WordType DEF TypeOK
    <3>2. RegAddr(C_hpc.hart, C_insn.rd) \in Int
      BY <3>1, RegAddrType DEF Hpc
    <3>3. C_addr % MappedWriteSize \in Int /\ 0 % (HartCount * RegCount) \in Int
      BY <3>1, Modulo, SizeAssumption, Sizes
    <3> QED
      BY <3>2, <3>3 DEF CD_waddr
  <2>3. Entry(CD_waddr(0)) \in 0 .. RegfileSize - 1
    BY <2>2, EntryType
  <2>4. ASSUME NEW j \in 0 .. RegfileSize - 1, j # Entry(CD_waddr(0))
        PROVE  VisibleRegs'[j] = VisibleRegs[j]
    <3>1. VisibleRegs[j] = Settled(j)
      BY <2>4 DEF VisibleRegs
    <3>2. CD_wren' = 0
      BY <1>3 DEF CD_wren, CD_write_regfile, IsStore
    <3>3. VisibleRegs'[j] = ram'[Entry(j)]
      BY <1>1, <3>2 DEF VisibleRegs, Settled, Entry
    <3>4. Entry(j) = j /\ ram'[j] = Settled(j)
      BY <1>1, EntryOfAddr DEF SocTick, RegfileTick, Settled, TypeOK
    <3> QED
      BY <3>1, <3>3, <3>4
  <2> QED
    BY <2>1, <2>3, <2>4
<1> QED
  BY <1>1, <1>2, <1>4, <1>5, <1>6, SameIsa2 DEF Smt!ResetTurn

LEMMA SmtStep ==
  TypeOK /\ PipeInv /\ HistInv /\ HistInv' /\ [RefNext]_refVars => [Smt!SmtNext]_Smt!absVars
<1> SUFFICES ASSUME TypeOK, PipeInv, HistInv, HistInv', [RefNext]_refVars
             PROVE  [Smt!SmtNext]_Smt!absVars
  OBVIOUS
<1>1. ASSUME NEW x \in DONTCARE, RefTock(x) \/ RefReset(x) PROVE Smt!SmtNext
  <2>1. legal' = (legal /\ Smt!LegalTurn(x))
    BY <1>1 DEF RefTock, RefReset, Observe
  <2>2. CASE legal /\ Smt!LegalTurn(x)
    <3>1. Smt!Turn(x) \/ Smt!ResetTurn(x)
      BY <1>1, <2>2, TockIsTurn, ResetIsTurn
    <3>2. legal' = TRUE
      BY <2>1, <2>2
    <3> QED
      BY <2>2, <3>1, <3>2 DEF Smt!SmtNext
  <2>3. CASE ~(legal /\ Smt!LegalTurn(x))
    <3>1. legal' = FALSE
      BY <2>1, <2>3
    <3> QED
      BY <2>3, <3>1 DEF Smt!SmtNext
  <2> QED
    BY <2>2, <2>3
<1>2. ASSUME UNCHANGED refVars PROVE UNCHANGED Smt!absVars
  <2>1. UNCHANGED <<AB_insn, Deferred, VisibleRegs>>
    BY <1>2 DEF refVars, vars, pipeVars, socVars, AB_insn, Deferred, VisibleRegs, Settled,
         CD_swap, CD_write_code, CD_wren, CD_waddr, CD_writeback, CD_write_regfile,
         CD_read_regfile, CD_read_mem, reg2, Forwarded, data_tld
  <2> QED
    BY <1>2, <2>1 DEF refVars, vars, pipeVars, socVars, Smt!absVars
<1> QED
  BY <1>1, <1>2 DEF RefNext

LEMMA SmtStart == RefInit => HistInv /\ Smt!SmtInit
<1> SUFFICES ASSUME RefInit PROVE HistInv /\ Smt!SmtInit
  OBVIOUS
<1>1. /\ A_hpc = Idle /\ B_hpc = Idle /\ C_hpc = Idle /\ D_hpc = Idle
      /\ B_insn = Bubble /\ C_insn = Bubble /\ D_wren = 0 /\ legal = TRUE
  BY DEF RefInit, Init
<1>2. Idle.active = 0 /\ Idle \in Hpc
  BY IdleType DEF Idle, from_logic1
<1>3. HistInv
  BY <1>1, <1>2 DEF HistInv
<1>4. AB_insn = Bubble
  BY <1>1, <1>2 DEF AB_insn
<1>5. Deferred = Smt!Nothing
  BY <1>1, <1>2 DEF Deferred, CD_swap, CD_write_code, IsSwap, IsStore, Smt!Nothing
<1>6. TypeOK
  BY PipeInit
<1>7. VisibleRegs \in [0 .. RegfileSize - 1 -> Word]
  <2>1. CD_wren = 0
    BY <1>1, <1>2 DEF CD_wren, CD_write_regfile, IsStore
  <2>2. \A i \in 0 .. RegfileSize - 1 : Settled(i) \in Word
    BY <1>1, <1>6, EntryOfAddr DEF Settled, TypeOK
  <2> QED
    BY <2>1, <2>2 DEF VisibleRegs
<1> QED
  BY <1>1, <1>3, <1>4, <1>5, <1>6, <1>7, SameIsa2 DEF Smt!SmtInit, TypeOK

(* Every cycle of the pipeline, resets included, is a turn of SmtMachine   *)
(* as long as the program keeps its rules: forwarding, delayed writeback,  *)
(* the shared ports and the two-phase swap are invisible (core:86-235).    *)
THEOREM PipelineImplementsSmt == RefSpec => ImplementsSmt
<1>1. RefInit => TypeOK /\ PipeInv /\ HistInv /\ Smt!SmtInit
  BY PipeInit, SmtStart
<1>2. /\ TypeOK /\ PipeInv /\ HistInv /\ [RefNext]_refVars
      => TypeOK' /\ PipeInv' /\ HistInv' /\ [Smt!SmtNext]_Smt!absVars
  BY PipeNext, HistStep, SmtStep
<1> QED
  BY <1>1, <1>2, PTL DEF RefSpec, ImplementsSmt, Smt!SmtSpec

----------------------------------------------------------------------------
(* Registers read as memory.  The write in C cannot be the one to the      *)
(* register that is read, so the read misses nothing.                      *)
LEMMA MappedFreshTock ==
  ASSUME TypeOK, PipeInv, HistInv, legal, NEW x \in DONTCARE, Tock(x),
         Smt!LegalTurn(x)
  PROVE  MappedReadFresh'
<1> SUFFICES ASSUME CD_read_regfile' PROVE reg2' = Settled(C_addr)'
  BY DEF MappedReadFresh
<1> PICK i : i = Entry(BC_addr)
  OBVIOUS
<1>1. /\ C_hpc' = B_hpc /\ C_insn' = B_insn /\ C_addr' = BC_addr
      /\ D_wren' = CD_wren /\ D_waddr' = CD_waddr(x) /\ D_wdata' = CD_writeback(x)
  BY DEF Tock
<1>2. Smt!Loads(RegfileRegion)
  BY <1>1, OperandsAgree, SameIsa2 DEF CD_read_regfile, IsLoad, Smt!Loads
<1>3. reg2' = VisibleRegs[i]
  BY <1>2, MappedLoad
<1>4. BC_addr \in Int /\ i \in 0 .. RegfileSize - 1 /\ Entry(i) = i
  BY OperandTypes, WordType, EntryType, EntryOfAddr
<1>5. ASSUME CD_wren = 1, NEW y, i = Entry(CD_waddr(y)) PROVE FALSE
  <2>1. C_hpc.active = 1 /\ CD_waddr(y) = RegAddr(C_hpc.hart, C_insn.rd)
    <3>1. B_hpc.active = 1
      BY <1>2, SameIsa2 DEF Smt!Loads, IsLoad
    <3>2. ~CD_write_regfile
      BY <3>1 DEF PipeInv, WritePortQuiet
    <3> QED
      BY <1>5, <3>2 DEF CD_wren, CD_waddr
  <2>2. C_insn.rd \in Reg
    BY InsnFields DEF TypeOK
  <2>3. Smt!Owns(C_hpc.hart, BC_addr)
    BY <1>5, <2>1, <2>2, SameIsa, SameIsa2 DEF Smt!Owns
  <2> QED
    BY <1>2, <2>1, <2>3, OperandsAgree DEF Smt!LegalTurn, Smt!ColdMappedRead
<1>6. VisibleRegs[i] = Settled(i)
  <2>1. VisibleRegs[i] = IF CD_wren = 1 /\ ~CD_swap /\ i = Entry(CD_waddr(0))
                         THEN CD_writeback(0) ELSE Settled(i)
    BY <1>4 DEF VisibleRegs
  <2> QED
    BY <1>5, <2>1
<1>7. Settled(i)' = Settled(i)
  <2>1. \A k \in 0 .. RegfileSize - 1 :
          Settled(k)' = IF CD_wren = 1 /\ k = Entry(CD_waddr(x)) THEN CD_writeback(x)
                        ELSE Settled(k)
    BY SettledStep
  <2> QED
    BY <1>4, <1>5, <2>1
<1>8. Settled(C_addr)' = Settled(i)'
  <2>1. Entry(C_addr)' = i /\ Entry(i)' = i
    BY <1>1, <1>4 DEF Entry
  <2> QED
    BY <2>1 DEF Settled
<1> QED
  BY <1>3, <1>6, <1>7, <1>8

LEMMA MappedFreshStep ==
  TypeOK /\ PipeInv /\ HistInv /\ LawfulMappedReadFresh /\ [RefNext]_refVars
    => LawfulMappedReadFresh'
<1> SUFFICES ASSUME TypeOK, PipeInv, HistInv, LawfulMappedReadFresh, [RefNext]_refVars, legal'
             PROVE  MappedReadFresh'
  BY DEF LawfulMappedReadFresh
<1>1. ASSUME NEW x \in DONTCARE, RefTock(x) PROVE MappedReadFresh'
  <2>1. Tock(x) /\ legal /\ Smt!LegalTurn(x)
    BY <1>1 DEF RefTock, Observe
  <2> QED
    BY <2>1, MappedFreshTock
<1>2. ASSUME NEW x \in DONTCARE, RefReset(x) PROVE MappedReadFresh'
  <2>1. C_hpc' = Idle /\ Idle.active = 0
    BY <1>2 DEF RefReset, Reset, Idle, from_logic1
  <2> QED
    BY <2>1 DEF MappedReadFresh, CD_read_regfile, IsLoad
<1>3. CASE UNCHANGED refVars
  BY <1>3 DEF LawfulMappedReadFresh, MappedReadFresh, refVars, vars, pipeVars, socVars,
     CD_read_regfile, reg2, Forwarded, Settled
<1> QED
  BY <1>1, <1>2, <1>3 DEF RefNext

(* In every program that keeps the rules, a register that is read as       *)
(* memory while the other slot is empty gives its newest value             *)
(* (core:162, 203-206).                                                    *)
THEOREM MappedReadsAreFresh == RefSpec => []LawfulMappedReadFresh
<1>1. RefInit => TypeOK /\ PipeInv /\ HistInv /\ LawfulMappedReadFresh
  <2>1. RefInit => C_hpc.active = 0
    BY DEF RefInit, Init, Idle, from_logic1
  <2> QED
    BY <2>1, PipeInit, SmtStart
       DEF LawfulMappedReadFresh, MappedReadFresh, CD_read_regfile, IsLoad
<1>2. /\ TypeOK /\ PipeInv /\ HistInv /\ LawfulMappedReadFresh /\ [RefNext]_refVars
      => TypeOK' /\ PipeInv' /\ HistInv' /\ LawfulMappedReadFresh'
  BY PipeNext, HistStep, MappedFreshStep
<1> QED
  BY <1>1, <1>2, PTL DEF RefSpec
=============================================================================
