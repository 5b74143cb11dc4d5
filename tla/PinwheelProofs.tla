--------------------------- MODULE PinwheelProofs ---------------------------
(***************************************************************************)
(* Proofs about the pinwheel core for every size of its fields and         *)
(* memories, every decoder and every image.                                *)
(***************************************************************************)
EXTENDS PinwheelRefinement, TLAPS

USE DEF Bit

(* A product of positive numbers is positive, and a mixed-radix number is  *)
(* below the product of its radices.                                       *)
LEMMA MulPositive ==
  ASSUME NEW m \in Nat \ {0}, NEW n \in Nat \ {0}
  PROVE  m * n \in Nat \ {0}
  BY SMT

LEMMA MixedRadix ==
  ASSUME NEW m \in Nat, NEW n \in Nat \ {0}, NEW i \in 0 .. m - 1, NEW j \in 0 .. n - 1
  PROVE  i * n + j \in 0 .. m * n - 1
<1>1. (m - 1 - i) * n >= 0
  BY SMT
<1>2. (m - 1 - i) * n = m * n - n - i * n
  BY SMT
<1>3. i * n >= 0
  BY SMT
<1>4. m * n \in Int /\ i * n \in Int
  OBVIOUS
<1> QED
  BY <1>1, <1>2, <1>3, <1>4, SMT

LEMMA Modulo ==
  ASSUME NEW x \in Int, NEW n \in Nat \ {0}
  PROVE  x % n \in 0 .. n - 1
  BY SMT

LEMMA SmallModulo ==
  ASSUME NEW n \in Nat \ {0}, NEW x \in 0 .. n - 1
  PROVE  x % n = x
  BY SMT

LEMMA Sizes ==
  /\ WordCount \in Nat \ {0}
  /\ RegfileSize \in Nat \ {0}
  /\ HartCount * RegCount \in Nat \ {0}
  /\ RegfileSize <= HartCount * RegCount
<1>1. HartCount * PcCount \in Nat \ {0}
  BY MulPositive, SizeAssumption
<1>2. 2 * HartCount * PcCount = 2 * (HartCount * PcCount)
  BY SizeAssumption, SMT
<1>3. WordCount \in Nat \ {0}
  BY <1>1, <1>2, SMT DEF WordCount
<1>4. RegfileHarts \in Nat \ {0} /\ HartCount \in Nat \ {0} /\ RegCount \in Nat \ {0}
  BY SizeAssumption, SMT
<1>5. RegfileSize \in Nat \ {0} /\ HartCount * RegCount \in Nat \ {0}
  BY <1>4, MulPositive DEF RegfileSize
<1>6. (HartCount - RegfileHarts) * RegCount >= 0
  BY SizeAssumption, SMT
<1>7. (HartCount - RegfileHarts) * RegCount = HartCount * RegCount - RegfileHarts * RegCount
  BY SizeAssumption, SMT
<1>8. RegfileSize <= HartCount * RegCount
  BY <1>4, <1>5, <1>6, <1>7, SMT DEF RegfileSize
<1> QED
  BY <1>3, <1>5, <1>8

(* A thread word is a word, and every word unpacks to a thread word.       *)
LEMMA ToLogicType ==
  ASSUME NEW h \in Hpc PROVE to_logic(h) \in Word
<1>1. h.active \in 0 .. 2 - 1 /\ h.hart \in 0 .. HartCount - 1 /\ h.pc \in 0 .. PcCount - 1
  BY DEF Hpc, Hart, Pc
<1>2. h.active * HartCount + h.hart \in 0 .. 2 * HartCount - 1
  BY <1>1, MixedRadix, SizeAssumption
<1>3. 2 * HartCount \in Nat
  BY SizeAssumption, SMT
<1>4. (h.active * HartCount + h.hart) * PcCount + h.pc \in 0 .. (2 * HartCount) * PcCount - 1
  BY <1>1, <1>2, <1>3, MixedRadix, SizeAssumption
<1> QED
  BY <1>4 DEF to_logic, Word, WordCount

LEMMA DivType ==
  ASSUME NEW x \in Nat, NEW n \in Nat \ {0}
  PROVE  x \div n \in Nat
  BY SMT

LEMMA FromLogicType ==
  ASSUME NEW w \in Word PROVE from_logic2(w) \in Hpc
<1>1. HartCount * PcCount \in Nat \ {0}
  BY MulPositive, SizeAssumption
<1>2. w \in Nat
  BY DEF Word
<1>3. w \div (HartCount * PcCount) \in Nat /\ w \div PcCount \in Nat
  BY <1>1, <1>2, DivType, SizeAssumption
<1>4. (w \div (HartCount * PcCount)) % 2 \in 0 .. 2 - 1
  BY <1>3, Modulo
<1>5. (w \div PcCount) % HartCount \in Hart /\ w % PcCount \in Pc
  BY <1>2, <1>3, Modulo, SizeAssumption DEF Hart, Pc
<1> QED
  BY <1>4, <1>5 DEF from_logic2, Hpc

LEMMA RegAddrType ==
  ASSUME NEW h \in Hart, NEW r \in Reg
  PROVE  RegAddr(h, r) \in 0 .. HartCount * RegCount - 1
  BY MixedRadix, SizeAssumption DEF Hart, Reg, RegAddr

LEMMA EntryType ==
  ASSUME NEW x \in Int PROVE Entry(x) \in 0 .. RegfileSize - 1
  BY Modulo, Sizes DEF Entry

LEMMA WordType ==
  /\ \A v \in Int : v % WordCount \in Word
  /\ \A v \in Word : v \in Int
  /\ \A h \in Hart : h \in Word
  /\ \A p \in Pc : p \in Int
  /\ 0 \in Word
<1>1. \A v \in Int : v % WordCount \in Word
  BY Modulo, Sizes DEF Word
<1>2. (\A p \in Pc : p \in Int) /\ (\A v \in Word : v \in Int) /\ 0 \in Word
  BY Sizes DEF Pc, Word
<1>3. ASSUME NEW h \in Hart PROVE h \in Word
  <2>1. h \in 0 .. HartCount - 1 /\ PcCount \in Nat \ {0} /\ HartCount \in Nat \ {0}
    BY SizeAssumption DEF Hart
  <2>2. (2 * HartCount) * (PcCount - 1) >= 0
    BY <2>1, SMT
  <2>3. (2 * HartCount) * (PcCount - 1) = WordCount - 2 * HartCount
    BY <2>1, SMT DEF WordCount
  <2> QED
    BY <2>1, <2>2, <2>3, Sizes, SMT DEF Word
<1> QED
  BY <1>1, <1>2, <1>3

LEMMA InsnFields ==
  ASSUME NEW i \in Insn
  PROVE  i.rd \in Reg /\ i.rs1 \in Reg /\ i.rs2 \in Reg /\ i.imm \in Word
  BY DEF Insn

LEMMA NextHpcType ==
  ASSUME NEW h \in Hpc, NEW i \in Insn, NEW u \in Word, NEW v \in Word, NEW x \in Word
  PROVE  next_hpc(h, i, u, v, x) \in Hpc
<1>1. \A n \in Int : n % PcCount \in Pc
  BY Modulo, SizeAssumption DEF Pc
<1>2. h.pc \in Int /\ i.imm \in Int /\ u \in Int /\ x \in Int
  BY InsnFields, WordType DEF Hpc
<1>3. /\ x % PcCount \in Pc /\ (h.pc + i.imm) % PcCount \in Pc
      /\ (u + i.imm) % PcCount \in Pc /\ (h.pc + 1) % PcCount \in Pc
  BY <1>1, <1>2
<1>4. new_pc(h.pc, i, u, v, x) \in Pc
  BY <1>3 DEF new_pc, take_branch
<1> QED
  BY <1>4 DEF next_hpc, Hpc

LEMMA ExecuteType ==
  ASSUME NEW h \in Hpc, NEW i \in Insn, NEW u \in Word, NEW v \in Word,
         NEW n \in Hpc, NEW x \in Word
  PROVE  execute(h, i, u, v, n, x) \in Word
<1>1. h.pc \in Int /\ i.imm \in Word /\ i.imm \in Int /\ h.hart \in Word
  BY InsnFields, WordType DEF Hpc
<1>2. (h.pc + 1) % WordCount \in Word /\ (h.pc + i.imm) % WordCount \in Word
  BY <1>1, WordType
<1>3. execute_alu(i.fn, u, v, x) \in Word /\ execute_alu(i.fn, u, i.imm, x) \in Word
  BY <1>1, AluAssumption DEF execute_alu
<1>4. to_logic(n) \in Word
  BY ToLogicType
<1> QED
  BY <1>1, <1>2, <1>3, <1>4 DEF execute, IsYield, IsSwap

----------------------------------------------------------------------------
(* What a cycle computes from a well-typed state is well typed.            *)
LEMMA OperandTypes ==
  ASSUME TypeOK
  PROVE  /\ AB_insn \in Insn
         /\ reg1 \in Word /\ reg2 \in Word
         /\ BC_reg1 \in Word /\ BC_reg2 \in Word /\ BC_addr \in Word
<1>1. AB_insn \in Insn
  BY WordType, DecodeAssumption DEF TypeOK, AB_insn, Bubble
<1>2. reg1 \in Word /\ reg2 \in Word
  BY DEF TypeOK, reg1, reg2, Forwarded
<1>3. BC_reg1 \in Word /\ BC_reg2 \in Word
  BY <1>2, WordType DEF BC_reg1, BC_reg2
<1>4. BC_reg1 \in Int /\ B_insn.imm \in Int
  BY <1>3, WordType, InsnFields DEF TypeOK
<1>5. BC_addr \in Word
  BY <1>4, WordType DEF BC_addr
<1> QED
  BY <1>1, <1>2, <1>3, <1>5

LEMMA PhaseTypes ==
  ASSUME TypeOK, NEW x \in DONTCARE
  PROVE  /\ BA_hpc(x) \in Hpc
         /\ BC_hpc(x) \in Hpc /\ BC_result(x) \in Word
         /\ CD_waddr(x) \in 0 .. HartCount * RegCount - 1
         /\ CD_writeback(x) \in Word /\ CD_wren \in Bit
<1>1. x \in Word /\ x \in Int
  BY DontCareAssumption, WordType
<1>2. BC_hpc(x) \in Hpc
  BY <1>1, OperandTypes, NextHpcType DEF TypeOK, BC_hpc
<1>3. BC_result(x) \in Word
  BY <1>1, <1>2, OperandTypes, ExecuteType DEF TypeOK, BC_result
<1>4. BA_hpc(x) \in Hpc
  BY <1>2, OperandTypes, FromLogicType DEF TypeOK, BA_hpc
<1>5. CD_writeback(x) \in Word
  <2>1. to_logic(BC_hpc(x)) \in Word
    BY <1>2, ToLogicType
  <2>2. data_tld \in Word
    BY DEF TypeOK, data_tld
  <2> QED
    BY <1>1, <2>1, <2>2, OperandTypes DEF TypeOK, CD_writeback
<1>6. CD_waddr(x) \in 0 .. HartCount * RegCount - 1
  <2>1. x % (HartCount * RegCount) \in 0 .. HartCount * RegCount - 1
    BY <1>1, Sizes, Modulo
  <2>2. RegAddr(C_hpc.hart, C_insn.rd) \in 0 .. HartCount * RegCount - 1
    BY RegAddrType, InsnFields DEF TypeOK, Hpc
  <2>3. C_addr % MappedWriteSize \in 0 .. MappedWriteSize - 1
    <3>1. C_addr \in Int /\ MappedWriteSize \in Nat \ {0}
      BY WordType, Sizes, SizeAssumption DEF TypeOK
    <3> QED
      BY <3>1, Modulo
  <2>4. C_addr % MappedWriteSize \in 0 .. HartCount * RegCount - 1
    BY <2>3, Sizes, SizeAssumption
  <2> QED
    BY <2>1, <2>2, <2>4 DEF CD_waddr
<1>7. CD_wren \in Bit
  BY DEF CD_wren
<1> QED
  BY <1>2, <1>3, <1>4, <1>5, <1>6, <1>7

LEMMA SocTypes ==
  ASSUME TypeOK, NEW x \in DONTCARE, SocTick(x)
  PROVE  /\ ram' \in [0 .. RegfileSize - 1 -> Word]
         /\ code' \in [0 .. CodeSize - 1 -> Word]
         /\ data' \in [0 .. DataSize - 1 -> Word]
         /\ {rs1data', rs2data', code_rdata', data_rdata', debug'} \subseteq Word
         /\ debug_valid' \in BOOLEAN
<1>1. \A n \in Int : RamRead(n) \in Word
  BY EntryType DEF TypeOK, RamRead
<1>2. x \in Int /\ BC_addr \in Int
  BY OperandTypes, DontCareAssumption, WordType
<1>3. A_hpc.active = 1 => /\ RegAddr(A_hpc.hart, AB_insn.rs1) \in Int
                          /\ RegAddr(A_hpc.hart, AB_insn.rs2) \in Int
  BY RegAddrType, InsnFields, OperandTypes DEF TypeOK, Hpc
<1>4. rs1data' \in Word /\ rs2data' \in Word
  BY <1>1, <1>2, <1>3 DEF SocTick, RegfileTick
<1>5. ram' \in [0 .. RegfileSize - 1 -> Word]
  BY DEF SocTick, RegfileTick, TypeOK
<1>6. code_rdata' \in Word /\ code' \in [0 .. CodeSize - 1 -> Word]
  <2>1. C_addr % CodeSize \in 0 .. CodeSize - 1
    BY WordType, Modulo, SizeAssumption DEF TypeOK
  <2>2. BA_hpc(x).pc \in Int
    BY PhaseTypes, WordType DEF Hpc
  <2>3. BA_hpc(x).pc % CodeSize \in 0 .. CodeSize - 1
    BY <2>2, Modulo, SizeAssumption
  <2> QED
    BY <2>1, <2>3 DEF SocTick, CodeTick, TypeOK
<1>7. /\ data_rdata' \in Word /\ data' \in [0 .. DataSize - 1 -> Word]
      /\ debug' \in Word /\ debug_valid' \in BOOLEAN
  <2>1. BC_addr % DataSize \in 0 .. DataSize - 1
    BY <1>2, Modulo, SizeAssumption
  <2> QED
    BY <2>1, OperandTypes DEF SocTick, DataTick, TypeOK
<1> QED
  BY <1>4, <1>5, <1>6, <1>7

----------------------------------------------------------------------------
LEMMA BubbleType == Bubble \in Insn
  BY WordType, DecodeAssumption DEF Bubble

LEMMA IdleType == Idle \in Hpc /\ from_logic1(1, 0, BootPc) \in Hpc
<1>1. 0 \in Hart /\ 0 \in Pc /\ BootPc \in Pc
  BY SizeAssumption DEF Hart, Pc
<1> QED
  BY <1>1 DEF Idle, from_logic1, Hpc

LEMMA InitType == Init => TypeOK
<1> SUFFICES ASSUME Init PROVE TypeOK
  OBVIOUS
<1>1. {A_hpc, B_hpc, C_hpc} \subseteq Hpc /\ {B_insn, C_insn} \subseteq Insn
  BY IdleType, BubbleType DEF Init
<1>2. {C_addr, C_result, D_wdata} \subseteq Word
  BY WordType DEF Init
<1>3. D_waddr \in 0 .. HartCount * RegCount - 1 /\ D_wren \in Bit
  BY Sizes DEF Init
<1>4. /\ ram \in [0 .. RegfileSize - 1 -> Word]
      /\ code \in [0 .. CodeSize - 1 -> Word]
      /\ data \in [0 .. DataSize - 1 -> Word]
  BY InitAssumption DEF Init
<1>5. {rs1data, rs2data, code_rdata, data_rdata, debug} \subseteq Word
  BY DontCareAssumption DEF Init
<1> QED
  BY <1>1, <1>2, <1>3, <1>4, <1>5 DEF TypeOK, Init

LEMMA NextType == TypeOK /\ [Next]_vars => TypeOK'
<1> SUFFICES ASSUME TypeOK, [Next]_vars PROVE TypeOK'
  OBVIOUS
<1>1. ASSUME NEW x \in DONTCARE, Tock(x) PROVE TypeOK'
  <2>1. SocTick(x)
    BY <1>1 DEF Tock
  <2>2. {A_hpc', B_hpc', C_hpc'} \subseteq Hpc /\ {B_insn', C_insn'} \subseteq Insn
    BY <1>1, PhaseTypes, OperandTypes DEF Tock, TypeOK
  <2>3. /\ {C_addr', C_result', D_wdata'} \subseteq Word
        /\ D_waddr' \in 0 .. HartCount * RegCount - 1 /\ D_wren' \in Bit
    BY <1>1, PhaseTypes, OperandTypes DEF Tock
  <2> QED
    BY <2>1, <2>2, <2>3, SocTypes DEF TypeOK
<1>2. ASSUME NEW x \in DONTCARE, Reset(x) PROVE TypeOK'
  <2>1. SocTick(x)
    BY <1>2 DEF Reset
  <2>2. {A_hpc', B_hpc', C_hpc'} \subseteq Hpc /\ {B_insn', C_insn'} \subseteq Insn
    BY <1>2, IdleType, BubbleType DEF Reset
  <2>3. /\ {C_addr', C_result', D_wdata'} \subseteq Word
        /\ D_waddr' \in 0 .. HartCount * RegCount - 1 /\ D_wren' \in Bit
    BY <1>2, WordType, Sizes DEF Reset
  <2> QED
    BY <2>1, <2>2, <2>3, SocTypes DEF TypeOK
<1>3. CASE UNCHANGED vars
  BY <1>3 DEF vars, pipeVars, socVars, TypeOK
<1> QED
  BY <1>1, <1>2, <1>3 DEF Next

(* Every register of the pipeline and of the memories keeps its width      *)
(* (core:541-557), whatever the program does and whenever reset comes.     *)
THEOREM TypeCorrect == Spec => []TypeOK
  BY InitType, NextType, PTL DEF Spec
=============================================================================
