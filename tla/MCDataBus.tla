------------------------------ MODULE MCDataBus ------------------------------
EXTENDS DataBus, FiniteSets

(* A byte is one of six values, of which three are negative: 0 prints '?', *)
(* 1 and 4 are letters, 2 is the line feed and 3 the carriage return; 5    *)
(* looks like the cursor, and no access prints it.                         *)
W(b0, b1, b2, b3) == [i \in Lane |-> CASE i = 0 -> b0 [] i = 1 -> b1 [] i = 2 -> b2 [] i = 3 -> b3]

MCInitRam == {[c \in 0 .. DataSize - 1 |-> Zero]}

Acc(op, f3, region, offset, reg2) ==
  [op |-> op, f3 |-> f3, region |-> region, offset |-> offset, reg2 |-> reg2]

MCAccesses ==
  {NoAccess, Acc("LOAD", 2, "mem", 4, Zero),
   Acc("STORE", 2, "mem", 4, W(2, 2, 1, 3)), Acc("STORE", 2, "mem", 8, Zero)} \union
  {Acc("LOAD", f3, "mem", o, Zero) : f3 \in {0, 1, 2, 4, 5}, o \in 0 .. 3} \union
  {Acc("STORE", f3, "mem", o, W(1, 2, 3, 0)) : f3 \in 0 .. 2, o \in 0 .. 3} \union
  {Acc("LOAD", 2, region, 0, Zero) : region \in {"debug", "console", "other"}} \union
  {Acc("STORE", f3, "debug", o, W(1, 2, 3, 1)) : f3 \in 0 .. 2, o \in 0 .. 3} \union
  {Acc("STORE", 0, "console", 0, W(c, 1, 2, 1)) : c \in 0 .. 3} \union
  {Acc("STORE", 0, "console", 1, W(1, 1, 2, 1)), Acc("STORE", 2, "console", 0, W(1, 1, 2, 1))}

(* The devices are exercised one at a time: as soon as a second one has    *)
(* left its initial state, the run ends.                                   *)
OneDevice ==
  Cardinality({i \in 1 .. 3 :
    CASE i = 1 -> ram \notin InitRam [] i = 2 -> debug # Zero [] i = 3 -> console # NewConsole}) <= 1
=============================================================================
