---------------------------- MODULE PinwheelCore ----------------------------
(***************************************************************************)
(* The pinwheel core with the register file, the code and data RAMs and    *)
(* the debug register of the SoC around it, one step per clock cycle.      *)
(*                                                                         *)
(* Two hardware slots take turns in the phases: the thread in phase B at   *)
(* one cycle is in C (its instruction) and in A (its next one) at the      *)
(* following cycle, while the thread that was in A moves to B.  Names are  *)
(* those of the source without the trailing underscore.                    *)
(***************************************************************************)
EXTENDS PinwheelIsa

CONSTANTS
  InitRam,   \* contents the register file may power up with
  InitCode,  \* code images
  InitData   \* data images

VARIABLES
  A_hpc, B_hpc, B_insn, C_hpc, C_insn, C_addr, C_result,
  D_waddr, D_wdata, D_wren,
  ram, rs1data, rs2data,   \* the two copies of ram_256x32 and their outputs
  code, code_rdata,        \* code_ram and its output
  data, data_rdata,        \* data_ram and its output
  debug, debug_valid       \* test_reg

pipeVars == <<A_hpc, B_hpc, B_insn, C_hpc, C_insn, C_addr, C_result,
              D_waddr, D_wdata, D_wren>>
socVars  == <<ram, rs1data, rs2data, code, code_rdata, data, data_rdata,
              debug, debug_valid>>
vars     == <<pipeVars, socVars>>

ASSUME InitAssumption ==
  /\ InitRam  \subseteq [0 .. RegfileSize - 1 -> Word]
  /\ InitCode \subseteq [0 .. CodeSize - 1 -> Word]
  /\ InitData \subseteq [0 .. DataSize - 1 -> Word]

TypeOK ==
  /\ {A_hpc, B_hpc, C_hpc} \subseteq Hpc
  /\ {B_insn, C_insn} \subseteq Insn
  /\ {C_addr, C_result, D_wdata} \subseteq Word
  /\ D_waddr \in 0 .. HartCount * RegCount - 1 /\ D_wren \in Bit
  /\ ram \in [0 .. RegfileSize - 1 -> Word]
  /\ code \in [0 .. CodeSize - 1 -> Word]
  /\ data \in [0 .. DataSize - 1 -> Word]
  /\ {rs1data, rs2data, code_rdata, data_rdata, debug} \subseteq Word
  /\ debug_valid \in BOOLEAN

----------------------------------------------------------------------------
(* Phase AB: the fetched instruction.                                      *)
(* Mutant: the fetched word is decoded for an empty slot too.              *)
AB_insn_Unmasked == Decode[code_rdata]

AB_insn == IF A_hpc.active = 1 THEN Decode[code_rdata] ELSE Bubble

(* Phase BC: operands with the forward from phase D, then execution.       *)
(* Mutant: no forward from phase D.                                        *)
Forwarded_Never(reg, rdata) == rdata

Forwarded(reg, rdata) ==
  IF D_waddr = RegAddr(B_hpc.hart, reg) /\ D_wren = 1 THEN D_wdata ELSE rdata

reg1 == Forwarded(B_insn.rs1, rs1data)
reg2 == Forwarded(B_insn.rs2, rs2data)

BC_reg1 == IF B_insn.rs1 # 0 THEN reg1 ELSE 0
BC_reg2 == IF B_insn.rs2 # 0 THEN reg2 ELSE 0
BC_addr == (BC_reg1 + B_insn.imm) % WordCount

BC_yield == IsYield(B_hpc, B_insn)
CD_swap  == IsSwap(C_hpc, C_insn)

BC_read_regfile  == IsLoad(B_hpc, B_insn, BC_addr, RegfileRegion)
CD_read_code     == IsLoad(C_hpc, C_insn, C_addr, CodeRegion)
CD_read_regfile  == IsLoad(C_hpc, C_insn, C_addr, RegfileRegion)
CD_read_mem      == IsLoad(C_hpc, C_insn, C_addr, MemRegion)
CD_write_code    == IsStore(C_hpc, C_insn, C_addr, CodeRegion)
CD_write_regfile == IsStore(C_hpc, C_insn, C_addr, RegfileRegion)

BC_hpc(x)    == next_hpc(B_hpc, B_insn, BC_reg1, BC_reg2, x)
BC_result(x) == execute(B_hpc, B_insn, BC_reg1, BC_reg2, BC_hpc(x), x)

(* Mutant: a yield in B beats the swap in C.                               *)
BA_hpc_YieldFirst(x) == IF BC_yield THEN from_logic2(BC_reg1)
                        ELSE IF CD_swap THEN from_logic2(C_result)
                        ELSE BC_hpc(x)

(* Where phase A goes next: a swap in C beats a yield in B.                *)
BA_hpc(x) == IF CD_swap THEN from_logic2(C_result)
             ELSE IF BC_yield THEN from_logic2(BC_reg1)
             ELSE BC_hpc(x)

(* The data bus answer of the previous cycle's access.                     *)
data_tld == IF debug_valid THEN debug ELSE data_rdata

(* Mutant: a swap saves its target instead of the thread it evicts.        *)
CD_writeback_SavesTarget(x) ==
  IF CD_swap THEN C_result
  ELSE IF CD_read_regfile THEN reg2
  ELSE IF CD_read_mem THEN data_tld
  ELSE IF C_hpc.active = 1 THEN C_result
  ELSE x

(* A yield writes back the C_result it left in B, like a plain result.     *)
CD_writeback(x) ==
  IF CD_swap THEN to_logic(BC_hpc(x))
  ELSE IF CD_read_regfile THEN reg2
  ELSE IF CD_read_mem THEN data_tld
  ELSE IF C_hpc.active = 1 THEN C_result
  ELSE x

(* Mutant: the result goes to the hart that is in phase B.                 *)
CD_waddr_WrongHart(x) == IF CD_write_regfile THEN C_addr % MappedWriteSize
                         ELSE IF C_hpc.active = 1 THEN RegAddr(B_hpc.hart, C_insn.rd)
                         ELSE x % (HartCount * RegCount)

CD_waddr(x) == IF CD_write_regfile THEN C_addr % MappedWriteSize
               ELSE IF C_hpc.active = 1 THEN RegAddr(C_hpc.hart, C_insn.rd)
               ELSE x % (HartCount * RegCount)

CD_wren == IF \/ CD_write_regfile
              \/ C_hpc.active = 1 /\ WritesRd(C_insn)
           THEN 1 ELSE 0

----------------------------------------------------------------------------
(* Mutant: the RAM returns the old contents when it is being written.      *)
RamRead_OldData(raddr) == ram[Entry(raddr)]

(* ram_256x32::tick reads through the write port whenever the addresses    *)
(* match, whatever the write enable says.                                  *)
RamRead(raddr) == IF Entry(raddr) = Entry(D_waddr) THEN D_wdata ELSE ram[Entry(raddr)]

RegfileTick(x) ==
  LET raddr1 == IF A_hpc.active = 1 THEN RegAddr(A_hpc.hart, AB_insn.rs1) ELSE x
      raddr2 == IF A_hpc.active = 1 THEN RegAddr(A_hpc.hart, AB_insn.rs2)
                ELSE IF BC_read_regfile THEN BC_addr ELSE x
  IN /\ rs1data' = RamRead(raddr1)
     /\ rs2data' = RamRead(raddr2)
     /\ ram' = IF D_wren = 1 THEN [ram EXCEPT ![Entry(D_waddr)] = D_wdata] ELSE ram

(* Mutant: phase C takes the code bus even when it is needed for a fetch.  *)
CodeTick_Steals(x) ==
  LET mine == CD_read_code \/ CD_write_code
      cell == (IF mine THEN C_addr ELSE BA_hpc(x).pc) % CodeSize
  IN /\ code_rdata' = code[cell]
     /\ code' = IF mine /\ CD_write_code THEN [code EXCEPT ![cell] = C_result] ELSE code

(* The code bus belongs to phase C's load or store when the other slot has *)
(* no thread to fetch for, and else fetches for phase A.                   *)
CodeTick(x) ==
  LET mine == (CD_read_code \/ CD_write_code) /\ BA_hpc(x).active = 0
      cell == (IF mine THEN C_addr ELSE BA_hpc(x).pc) % CodeSize
  IN /\ code_rdata' = code[cell]
     /\ code' = IF mine /\ CD_write_code THEN [code EXCEPT ![cell] = C_result] ELSE code

(* The data bus is driven from phase B; the data RAM outputs the old cell  *)
(* even when it is not selected.                                           *)
DataTick ==
  LET cell == BC_addr % DataSize
      selected(region) == B_insn.op \in {"LOAD", "STORE"} /\ Region(BC_addr) = region
  IN /\ data_rdata' = data[cell]
     /\ data' = IF selected(MemRegion) /\ B_insn.op = "STORE"
                THEN [data EXCEPT ![cell] = BC_reg2] ELSE data
     /\ debug_valid' = selected(DebugRegion)
     /\ debug' = IF selected(DebugRegion) /\ B_insn.op = "STORE" THEN BC_reg2 ELSE debug

SocTick(x) == RegfileTick(x) /\ CodeTick(x) /\ DataTick

(* pinwheel_soc::tock(0): one clock cycle.                                 *)
Tock(x) ==
  /\ D_waddr' = CD_waddr(x)
  /\ D_wdata' = CD_writeback(x)
  /\ D_wren'  = CD_wren
  /\ C_hpc' = B_hpc /\ C_insn' = B_insn
  /\ C_addr' = BC_addr /\ C_result' = BC_result(x)
  /\ B_hpc' = A_hpc /\ B_insn' = AB_insn
  /\ A_hpc' = BA_hpc(x)
  /\ SocTick(x)

(* Mutant: reset forgets the instruction in phase C.                       *)
Reset_KeepsC(x) ==
  /\ A_hpc' = from_logic1(1, 0, BootPc)
  /\ B_hpc' = Idle /\ B_insn' = Bubble
  /\ C_hpc' = B_hpc /\ C_insn' = B_insn /\ C_addr' = BC_addr
  /\ C_result' = BC_result(x)
  /\ D_waddr' = 0 /\ D_wdata' = 0 /\ D_wren' = 0
  /\ SocTick(x)

(* pinwheel_soc::tock(1): the pipeline registers are cleared, but the      *)
(* memories still see the buses the old pipeline drives.                   *)
Reset(x) ==
  /\ A_hpc' = from_logic1(1, 0, BootPc)
  /\ B_hpc' = Idle /\ B_insn' = Bubble
  /\ C_hpc' = Idle /\ C_insn' = Bubble /\ C_addr' = 0 /\ C_result' = 0
  /\ D_waddr' = 0 /\ D_wdata' = 0 /\ D_wren' = 0
  /\ SocTick(x)

(* The constructors; the RAM outputs are not initialized.                  *)
Init ==
  /\ A_hpc = Idle /\ B_hpc = Idle /\ C_hpc = Idle
  /\ B_insn = Bubble /\ C_insn = Bubble /\ C_addr = 0 /\ C_result = 0
  /\ D_waddr = 0 /\ D_wdata = 0 /\ D_wren = 0
  /\ ram \in InitRam /\ code \in InitCode /\ data \in InitData
  /\ \E x \in DONTCARE :
       rs1data = x /\ rs2data = x /\ code_rdata = x /\ data_rdata = x /\ debug = x
  /\ debug_valid = FALSE

Next == \E x \in DONTCARE : Tock(x) \/ Reset(x)

Spec == Init /\ [][Next]_vars

----------------------------------------------------------------------------
(* The register file once the write in phase D has landed.                 *)
Settled(raddr) == IF D_wren = 1 /\ Entry(D_waddr) = Entry(raddr)
                  THEN D_wdata ELSE ram[Entry(raddr)]

(* An empty slot carries the bubble through B and C, so a thread that was  *)
(* swapped out or that yielded to nobody leaves no instruction behind that *)
(* could drive a bus or write a register (core:91, 99-123).                *)
BubbleInv ==
  /\ B_hpc.active = 0 => B_insn = Bubble
  /\ C_hpc.active = 0 => C_insn = Bubble

(* Whatever the other slot does, the operands phase B works with are the   *)
(* newest values of the thread's registers: the RAM read one cycle ago,    *)
(* the write port bypass and the forward from D together miss no write     *)
(* (core:99-103, regfile:23).                                              *)
OperandsFresh ==
  B_hpc.active = 1 =>
    /\ B_insn.rs1 # 0 => BC_reg1 = Settled(RegAddr(B_hpc.hart, B_insn.rs1))
    /\ B_insn.rs2 # 0 => BC_reg2 = Settled(RegAddr(B_hpc.hart, B_insn.rs2))

(* A register read through memory while the other slot is empty gives the  *)
(* newest value of that register (core:162, 203-206).                      *)
MappedReadFresh ==
  CD_read_regfile /\ B_hpc.active = 0 => reg2 = Settled(C_addr)

(* A register written through memory is the one the address names, the     *)
(* same one a read at that address would give (core:178, 205).             *)
MappedWriteLands ==
  [][CD_write_regfile => Entry(D_waddr') = Entry(C_addr)]_vars

(* A load from the debug register returns what the register holds          *)
(* (core:117-119, 165).                                                    *)
DebugReadable ==
  [][IsLoad(C_hpc, C_insn, C_addr, DebugRegion) => D_wdata' = debug]_vars

(* The instruction phase A is about to receive is the one at its pc        *)
(* (core:222-225).                                                         *)
FetchedAtPc == A_hpc.active = 1 => code_rdata = code[A_hpc.pc % CodeSize]
=============================================================================
