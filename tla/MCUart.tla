------------------------------- MODULE MCUart -------------------------------
EXTENDS UartRefinement

\* 0x41 and 0xA6 are the message, 0x0D is what the core sends.
FromBits(b0, b1, b2, b3, b4, b5, b6, b7) ==
  [i \in 0 .. 7 |->
     CASE i = 0 -> b0 [] i = 1 -> b1 [] i = 2 -> b2 [] i = 3 -> b3
       [] i = 4 -> b4 [] i = 5 -> b5 [] i = 6 -> b6 [] i = 7 -> b7]

MCMessage == [k \in 0 .. 1 |-> IF k = 0 THEN FromBits(1, 0, 0, 0, 0, 0, 1, 0)
                                       ELSE FromBits(0, 1, 1, 0, 0, 1, 0, 1)]

CoreByte == FromBits(1, 0, 1, 1, 0, 0, 0, 0)

On(op, unit, reg) == [op |-> op, unit |-> unit, reg |-> reg, data |-> CoreByte]

MCAccesses == {On("NONE", "other", 0), On("GET", "tx", 0), On("GET", "rx", 0),
               On("GET", "rx", 4), On("GET", "rx", 8), On("PUT", "tx", 4),
               On("PUTPART", "tx", 4), On("PUT", "rx", 4), On("GET", "tx", 4)}
=============================================================================
