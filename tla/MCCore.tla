------------------------------- MODULE MCCore -------------------------------
EXTENDS PinwheelRefinement, Sequences

I(op, fn, rd, rs1, rs2, imm) ==
  [op |-> op, fn |-> fn, rd |-> rd, rs1 |-> rs1, rs2 |-> rs2, imm |-> imm]

(* The instruction set of the small instance: word n is instruction n.     *)
InsnTable == <<
  I("SYSTEM", "SWAP",   1, 1, 0, 0),     \*  1 csrrw r1, 0x800, r1
  I("SYSTEM", "YIELD",  1, 1, 0, 0),     \*  2 csrrw r1, 0x801, r1
  I("OPIMM",  "ADD",    2, 2, 0, 128),   \*  3 addi r2, r2, 128
  I("OP",     "ADD",    3, 2, 1, 0),     \*  4 add r3, r2, r1
  I("LOAD",   "OTHER",  2, 3, 0, 0),     \*  5 lw r2, 0(r3)
  I("STORE",  "OTHER",  0, 3, 2, 0),     \*  6 sw r2, 0(r3)
  I("BRANCH", "NE",     0, 2, 3, 254),   \*  7 bne r2, r3, -2
  I("JAL",    "OTHER",  0, 0, 0, 127),   \*  8 j -1
  I("SYSTEM", "SWAP",   2, 0, 0, 0),     \*  9 csrrw r2, 0x800, r0
  I("SYSTEM", "HARTID", 2, 0, 0, 0),     \* 10 csrr r2, mhartid
  I("JAL",    "OTHER",  0, 0, 0, 0),     \* 11 j .
  I("JAL",    "OTHER",  0, 0, 0, 253),   \* 12 j -3
  I("STORE",  "OTHER",  3, 3, 2, 2),     \* 13 sw r2, 2(r3), rd bits 3
  I("BRANCH", "NE",     3, 2, 2, 3),     \* 14 bne r2, r2, 3, rd bits 3
  I("SYSTEM", "YIELD",  2, 2, 0, 0)      \* 15 csrrw r2, 0x801, r2
>>

MCDecode == [w \in Word |->
  IF w \in 1 .. Len(InsnTable) THEN InsnTable[w] ELSE I("NONE", "OTHER", 0, 0, 0, 0)]

MCAlu(fn, x, y) == CASE fn = "ADD" -> (x + y) % WordCount
                     [] fn = "SUB" -> (x - y) % WordCount
                     [] OTHER -> IF x < y THEN 1 ELSE 0

(* Hart 0 boots at pc 1 and loops over the three instructions m; harts 1   *)
(* and 2 start at pc 5 and loop over the two instructions s.               *)
Image(m, s) ==
  [pc \in 0 .. CodeSize - 1 |->
     CASE pc \in 1 .. 3 -> m[pc] [] pc = 4 -> 12 [] pc \in 5 .. 6 -> s[pc]
       [] pc = 7 -> 8 [] OTHER -> 11]

Images(mains, workers) ==
  {Image(m, s) : m \in [1 .. 3 -> mains], s \in [5 .. 6 -> workers]}

Hart1 == 128 + 16 + 5
Hart2 == 128 + 32 + 5
Hart3 == 128 + 48 + 5
Hart5 == 128 + 80 + 5

(* r1 of hart 0 holds hart 1 ready to start and r1 of hart 1 holds w; r3   *)
(* of hart 0 is the address q, r3 of the others points to data memory.     *)
File(w, q) ==
  [i \in 0 .. RegfileSize - 1 |->
     CASE i = 1 -> Hart1 [] i = 5 -> w [] i = 3 -> q
       [] i \in {7, 11} -> 128 [] i = 2 -> 3 [] OTHER -> 0]

(* Twins holds two thread words of hart 2, so that both slots can get it.  *)
Twins == [File(Hart2, 128) EXCEPT ![1] = Hart1 + 1, ![2] = Hart2 + 1, ![6] = Hart2,
                                  ![9] = Hart5, ![10] = Hart3]

ThreadImages == Images({1, 2, 3}, {1, 2, 5, 13}) \union Images({1, 4, 15}, {3, 15})
ThreadFiles  == {File(Hart1, 128), File(Hart2, 128), Twins}

MappedImages == Images({1, 5, 6, 9}, {2, 6}) \union Images({1, 2, 5, 14}, {3})
MappedFiles  == {File(0, 224 + 4)} \union {File(Hart2, 224 + i) : i \in {3, 5}}

CodeImages == Images({1, 2, 5, 6}, {2, 6})
CodeFiles  == {File(0, q) : q \in {2, 3, 6}}

(* Hart 0 starts, stops and steps hart 1 and yields to it; hart 1 never    *)
(* yields, as a yield that meets the swap of its own thread would leave it *)
(* in two places.                                                          *)
SwapImages == Images({1, 2, 6, 10}, {3, 5, 10})
SwapFiles  == {File(0, 128)}

DebugImages == Images({3, 5, 6}, {3})
DebugFiles  == {File(0, 240)}

(* Hart 0 starts and stops hart 1, then yields to it.                      *)
HotImages == Images({1, 2}, {5, 13})
HotFiles  == {File(0, 128)}

(* Hart 0 starts and stops hart 1, which writes r2, and reads that r2.     *)
StaleImages == Images({1, 5}, {5, 10})
StaleFiles  == {File(0, 224 + 6)}

AliasImages == Images({5, 6}, {3})
AliasFiles  == {File(0, 224 + 9)}

(* Address 0 holds a copy of the first instruction, so that a power-on     *)
(* reset, whose fetch reads address 0, starts with the right word.         *)
ResetImages == {[im EXCEPT ![0] = im[1]] :
                  im \in Images({1, 13}, {13}) \union Images({5, 13}, {13})}
ResetFiles  == {File(0, q) : q \in {6, 229}}

ZeroData == {[i \in 0 .. DataSize - 1 |-> 0]}

Lawful == legal

(* Programs of swaps, yields and memory accesses; programs that reach      *)
(* registers through memory; programs that store into code memory; and     *)
(* programs to be reset, each with the registers made for them.            *)
ProgramImages == ThreadImages \union MappedImages \union SwapImages
                   \union CodeImages \union ResetImages
ProgramFiles  == ThreadFiles \union MappedFiles \union SwapFiles
                   \union CodeFiles \union ResetFiles

ProgramInit ==
  /\ RefInit
  /\ \/ code \in ThreadImages /\ ram \in ThreadFiles
     \/ code \in MappedImages /\ ram \in MappedFiles
     \/ code \in SwapImages /\ ram \in SwapFiles
     \/ code \in CodeImages /\ ram \in CodeFiles
     \/ code \in ResetImages /\ ram \in ResetFiles

(* Only the latter have a word at address 0 to restart with.               *)
WarmReset(x) == code[0] # 11 /\ RefReset(x)

ProgramNext == BootNext \/ \E x \in DONTCARE : WarmReset(x)

ProgramSpec == ProgramInit /\ [][ProgramNext]_refVars
=============================================================================
