----------------------------- MODULE ByteMemory ------------------------------
(***************************************************************************)
(* What the data bus promises a program: bytes.  An access of one, two or  *)
(* four bytes at any address stores or loads its bytes, lowest first, as   *)
(* far as the word of its first byte reaches; the rest of a store is lost  *)
(* and the rest of a load is zero.  There are no lanes, masks or shifts    *)
(* here and an answer comes at once.                                       *)
(***************************************************************************)
EXTENDS Integers

CONSTANTS ByteSize, ByteCount, InitBytes, Accesses, Nothing

VARIABLES
  bytes,     \* the memory
  register,  \* the four bytes of the debug register
  last,      \* the last access
  answer     \* what it loaded, or Nothing

memVars == <<bytes, register, last, answer>>

Idle == [op |-> "NONE", f3 |-> 0, region |-> "other", offset |-> 0,
         reg2 |-> [i \in 0 .. 3 |-> 0]]

MemInit ==
  /\ bytes \in InitBytes /\ register \in [0 .. 3 -> 0 .. ByteSize - 1]
  /\ last = Idle /\ answer = Nothing

----------------------------------------------------------------------------
Size(a) == IF a.f3 \in {0, 4} THEN 1 ELSE IF a.f3 \in {1, 5} THEN 2 ELSE 4

Reach(a) == {i \in 0 .. Size(a) - 1 : (a.offset % 4) + i < 4}

Stores(a, region) == a.op = "STORE" /\ a.region = region
Loads(a, region)  == a.op = "LOAD" /\ a.region = region

Store(a, memory, start) ==
  [k \in DOMAIN memory |-> IF k - start \in Reach(a) THEN a.reg2[k - start] ELSE memory[k]]

Fetched(a) == [i \in 0 .. 3 |-> IF i \in Reach(a) THEN bytes[(a.offset % ByteCount) + i] ELSE 0]

Negative(byte) == 2 * byte >= ByteSize

(* lb and lh repeat the sign, lbu and lhu do not.                          *)
Extended(a) ==
  [i \in 0 .. 3 |->
     IF i < Size(a) THEN Fetched(a)[i]
     ELSE IF a.f3 \in {0, 1} /\ Negative(Fetched(a)[Size(a) - 1]) THEN ByteSize - 1 ELSE 0]

Perform(a) ==
  /\ last' = a
  /\ bytes' = IF Stores(a, "mem") THEN Store(a, bytes, a.offset % ByteCount) ELSE bytes
  /\ register' = IF Stores(a, "debug") THEN Store(a, register, a.offset % 4) ELSE register
  /\ answer' = IF Loads(a, "mem") THEN Extended(a) ELSE Nothing

MemNext == \E a \in Accesses : Perform(a)

MemSpec == MemInit /\ [][MemNext]_memVars
=============================================================================
