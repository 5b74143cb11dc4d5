--------------------------- MODULE SerialChannel ----------------------------
(***************************************************************************)
(* What the UART promises: a channel that carries one byte at a time from  *)
(* whoever sends to a mailbox for one byte.  A byte arrives as it was sent *)
(* and before the next one is sent; the flag of the mailbox tells of a     *)
(* byte that has not been read, also when it arrives while its predecessor *)
(* is read.  There are no bits and no clock here.                          *)
(***************************************************************************)
EXTENDS Integers

CONSTANTS Bytes, Nobody, Value(_), ChecksumSize

VARIABLES
  wire,       \* the byte under way, or Nobody
  mailbox, flag, checksum,
  reading     \* the answer to the last read of the mailbox, or Nobody

channelVars == <<wire, mailbox, flag, checksum, reading>>

ChannelInit ==
  /\ wire = Nobody /\ mailbox \in Bytes /\ flag \in 0 .. 1 /\ checksum = 0
  /\ reading = Nobody

----------------------------------------------------------------------------
Send == wire = Nobody /\ wire' \in Bytes /\ UNCHANGED <<mailbox, checksum>>

Arrive ==
  /\ wire # Nobody /\ wire' = Nobody /\ mailbox' = wire
  /\ checksum' = (checksum + Value(wire)) % ChecksumSize

Carry == UNCHANGED <<wire, mailbox, checksum>>

(* Whether the mailbox is read in the same moment or not.                  *)
Read   == reading' = Value(mailbox)
NoRead == reading' = Nobody

Arrival == Arrive /\ flag' = 1 /\ (Read \/ NoRead)

NoArrival ==
  /\ Send \/ Carry
  /\ (Read /\ flag' = 0) \/ (NoRead /\ UNCHANGED flag)

(* A reset drops the byte under way, but the mailbox keeps its byte.       *)
Restart ==
  /\ wire' = Nobody /\ checksum' = 0 /\ UNCHANGED <<mailbox, flag>>
  /\ Read \/ NoRead

ChannelNext == Arrival \/ NoArrival \/ Restart

ChannelSpec == ChannelInit /\ [][ChannelNext]_channelVars
=============================================================================
