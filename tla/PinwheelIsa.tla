---------------------------- MODULE PinwheelIsa ----------------------------
(***************************************************************************)
(* The pure part of pinwheel_core.h: machine words, thread words ("hpc":   *)
(* active bit, hart number, program counter), the address regions and what *)
(* one instruction computes.  The widths of the fields are CONSTANTS; an   *)
(* address counts words, not bytes (the byte lanes of gen_bus and          *)
(* unpack_mem are not part of this module).                                *)
(***************************************************************************)
EXTENDS Integers

CONSTANTS
  PcCount,          \* 2^24 in the code: size of the pc field
  HartCount,        \* 2^7: size of the hart field
  RegCount,         \* 2^5: registers of one hart
  RegfileHarts,     \* 2^3: register sets that fit ram_256x32
  MappedWriteSize,  \* 2^7: range of the mapped write address
  CodeSize,         \* code_dwords of the SoC
  DataSize,         \* data_dwords of the SoC
  RegionCount,      \* 16: an address region is the top four bits
  CodeRegion,       \* 0x0
  MemRegion,        \* 0x8
  RegfileRegion,    \* 0xE
  DebugRegion,      \* 0xF
  BootPc,           \* pc after reset
  Decode,           \* the fields of every instruction word
  Alu(_, _, _),     \* execute_alu by function name
  DONTCARE          \* the values a DONTCARE may have in the build

WordCount   == 2 * HartCount * PcCount
RegfileSize == RegfileHarts * RegCount
Word      == 0 .. WordCount - 1
Reg       == 0 .. RegCount - 1
Hart      == 0 .. HartCount - 1
Pc        == 0 .. PcCount - 1
Bit       == 0 .. 1

Hpc == [active : Bit, hart : Hart, pc : Pc]

Opcode == {"NONE", "LOAD", "STORE", "BRANCH", "JAL", "JALR", "LUI", "AUIPC",
           "OP", "OPIMM", "SYSTEM"}

(* fn stands for funct3, funct7 and the csr number.  "SWAP" is csrrw on    *)
(* 0x800, "YIELD" csrrw on 0x801, "HARTID" csrrw or csrrs on mhartid; any  *)
(* other pair of a SYSTEM instruction is "OTHER".                          *)
BranchFn == {"EQ", "NE", "LT", "GE", "LTU", "GEU"}
AluFn    == {"ADD", "SUB", "SL", "SLT", "SLTU", "XOR", "SR", "SRA", "OR", "AND"}
SystemFn == {"SWAP", "YIELD", "HARTID", "OTHER"}

Insn == [op : Opcode, fn : BranchFn \union AluFn \union SystemFn,
         rd : Reg, rs1 : Reg, rs2 : Reg, imm : Word]

ASSUME SizeAssumption ==
  /\ PcCount \in Nat \ {0} /\ HartCount \in Nat \ {0} /\ RegCount \in Nat \ {0}
  /\ RegfileHarts \in 1 .. HartCount
  /\ MappedWriteSize \in 1 .. RegfileSize
  /\ CodeSize \in Nat \ {0} /\ DataSize \in Nat \ {0}
  /\ BootPc \in Pc

ASSUME RegionAssumption ==
  /\ RegionCount \in Nat \ {0}
  /\ {CodeRegion, MemRegion, RegfileRegion, DebugRegion} \subseteq 0 .. RegionCount - 1
  /\ RegfileRegion \notin {CodeRegion, MemRegion, DebugRegion}
  /\ DebugRegion \notin {CodeRegion, MemRegion} /\ CodeRegion # MemRegion

(* The all-zero word is no instruction: that is what makes it the bubble.  *)
ASSUME DecodeAssumption ==
  /\ Decode \in [Word -> Insn]
  /\ Decode[0].op = "NONE" /\ Decode[0].rs1 = 0 /\ Decode[0].rs2 = 0

ASSUME AluAssumption == \A fn \in AluFn, a, b \in Word : Alu(fn, a, b) \in Word

(* On the register write port a DONTCARE addresses a register 0 (DONTCARE  *)
(* is 0 in the C++ build): with the write enable off it still reaches the  *)
(* RAM's bypass.                                                           *)
ASSUME DontCareAssumption ==
  /\ DONTCARE \subseteq Word /\ DONTCARE # {}
  /\ \A x \in DONTCARE : x % RegCount = 0

----------------------------------------------------------------------------
Bubble == Decode[0]

\* cat(active, hart, pc) and its inverse
to_logic(h) == (h.active * HartCount + h.hart) * PcCount + h.pc

from_logic2(w) == [active |-> (w \div (HartCount * PcCount)) % 2,
                   hart   |-> (w \div PcCount) % HartCount,
                   pc     |-> w % PcCount]

from_logic1(active, hart, pc) == [active |-> active, hart |-> hart, pc |-> pc]

Idle == from_logic1(0, 0, 0)

\* b4(addr, 28)
Region(addr) == addr \div (WordCount \div RegionCount)

\* cat(b7(hart), b5(reg)), and the b8 of it that reaches the block RAM
RegAddr(hart, reg) == hart * RegCount + reg
Entry(raddr)       == raddr % RegfileSize

IsYield(h, i) == h.active = 1 /\ i.op = "SYSTEM" /\ i.fn = "YIELD"
IsSwap(h, i)  == h.active = 1 /\ i.op = "SYSTEM" /\ i.fn = "SWAP"

IsLoad(h, i, addr, region) ==
  h.active = 1 /\ i.op = "LOAD" /\ Region(addr) = region
IsStore(h, i, addr, region) ==
  h.active = 1 /\ i.op = "STORE" /\ Region(addr) = region

WritesRd(i) == i.rd # 0 /\ i.op \notin {"STORE", "BRANCH"}

Signed(w) == IF 2 * w < WordCount THEN w ELSE w - WordCount

take_branch(fn, a, b) ==
  \/ fn = "EQ"  /\ a = b
  \/ fn = "NE"  /\ a # b
  \/ fn = "LT"  /\ Signed(a) < Signed(b)
  \/ fn = "GE"  /\ Signed(a) >= Signed(b)
  \/ fn = "LTU" /\ a < b
  \/ fn = "GEU" /\ a >= b

(* Mutant: the 24-bit truncation of a relative target is forgotten.        *)
new_pc_Wide(pc, i, a, b, x) ==
  IF i.op = "NONE" THEN x % PcCount
  ELSE IF i.op = "JAL" \/ (i.op = "BRANCH" /\ take_branch(i.fn, a, b)) THEN pc + i.imm
  ELSE IF i.op = "JALR" THEN (a + i.imm) % PcCount
  ELSE (pc + 1) % PcCount

new_pc(pc, i, a, b, x) ==
  IF i.op = "NONE" THEN x % PcCount
  ELSE IF i.op = "JAL" \/ (i.op = "BRANCH" /\ take_branch(i.fn, a, b))
       THEN (pc + i.imm) % PcCount
  ELSE IF i.op = "JALR" THEN (a + i.imm) % PcCount
  ELSE (pc + 1) % PcCount

next_hpc(h, i, a, b, x) == [h EXCEPT !.pc = new_pc(h.pc, i, a, b, x)]

execute_alu(fn, a, b, x) == IF fn \in AluFn THEN Alu(fn, a, b) ELSE x

\* what phase B leaves in C_result; next is next_hpc of the instruction
execute(h, i, a, b, next, x) ==
  IF IsYield(h, i) THEN to_logic(next)
  ELSE IF IsSwap(h, i) THEN a
  ELSE IF i.op = "OPIMM" THEN execute_alu(i.fn, a, i.imm, x)
  ELSE IF i.op = "OP" THEN execute_alu(i.fn, a, b, x)
  ELSE IF i.op = "SYSTEM" /\ i.fn = "HARTID" THEN h.hart
  ELSE IF i.op \in {"JAL", "JALR"} THEN (h.pc + 1) % WordCount
  ELSE IF i.op = "LUI" THEN i.imm
  ELSE IF i.op = "AUIPC" THEN (h.pc + i.imm) % WordCount
  ELSE IF i.op = "STORE" THEN b
  ELSE x
=============================================================================
