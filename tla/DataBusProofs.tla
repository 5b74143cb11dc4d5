---------------------------- MODULE DataBusProofs ----------------------------
(***************************************************************************)
(* The data bus is a memory of bytes for every size of the RAM, every byte *)
(* size and all accesses, and the cursor of a console never leaves its     *)
(* buffer.                                                                 *)
(***************************************************************************)
EXTENDS DataBus, Sequences, TLAPS

(* A multiple of n that is less than n above another is not above it.      *)
LEMMA SameMultiple ==
  ASSUME NEW n \in Nat, n > 0, NEW p \in Int, NEW q \in Int, n * p < n * q + n
  PROVE  p <= q
  <1>1. SUFFICES ASSUME p > q PROVE FALSE
    OBVIOUS
  <1> DEFINE d == p - q - 1
  <1>2. d \in Nat /\ p = q + 1 + d
    BY <1>1
  <1> HIDE DEF d
  <1>3. n * d \in Nat
    BY <1>2
  <1>4. n * p = n * q + n + n * d
    BY <1>2
  <1> QED
    BY <1>3, <1>4

LEMMA Division ==
  ASSUME NEW n \in Nat, n > 0, NEW o \in Nat
  PROVE  /\ o \div n \in Nat /\ o % n \in Nat /\ o % n < n
         /\ o = n * (o \div n) + (o % n)
  <1>1. o \div n \in Int /\ o \div n >= 0
    OBVIOUS
  <1>2. o % n \in Int /\ o % n >= 0 /\ o % n < n
    OBVIOUS
  <1>3. o = n * (o \div n) + (o % n)
    OBVIOUS
  <1> QED
    BY <1>1, <1>2, <1>3

(* Quotient and remainder are unique.                                      *)
LEMMA DivisionUnique ==
  ASSUME NEW n \in Nat, n > 0, NEW o \in Nat, NEW p \in Nat, NEW t \in Nat, t < n, o = n * p + t
  PROVE  o \div n = p /\ o % n = t
  <1> DEFINE q == o \div n
             r == o % n
  <1>1. q \in Nat /\ r \in Nat /\ r < n /\ o = n * q + r
    BY Division
  <1> HIDE DEF q, r
  <1>2. n * q \in Nat /\ n * p \in Nat
    BY <1>1
  <1>3. n * q < n * p + n /\ n * p < n * q + n
    BY <1>1, <1>2
  <1>4. q <= p /\ p <= q
    BY <1>1, <1>3, SameMultiple
  <1>5. q = p
    BY <1>1, <1>4
  <1>6. r = t
    BY <1>1, <1>2, <1>5
  <1> QED
    BY <1>5, <1>6 DEF q, r

(* The cell and the lane of a byte address of a RAM of D words.            *)
LEMMA CellAndLane ==
  ASSUME NEW D \in Nat, D > 0, NEW o \in Nat
  PROVE  /\ o % (4 * D) < 4 * D
         /\ (o % (4 * D)) \div 4 = (o \div 4) % D
         /\ (o % (4 * D)) % 4 = o % 4
  <1> DEFINE q == o \div 4
             r == o % 4
             p == q \div D
             c == q % D
  <1>1. q \in Nat /\ r \in Nat /\ r < 4 /\ o = 4 * q + r
    BY Division
  <1>2. p \in Nat /\ c \in Nat /\ c < D /\ q = D * p + c
    BY <1>1, Division
  <1> HIDE DEF q, r, p, c
  <1>3. 4 * c + r \in Nat /\ 4 * c + r < 4 * D /\ 4 * D \in Nat /\ 4 * D > 0
    BY <1>1, <1>2
  <1>4. o = (4 * D) * p + (4 * c + r)
    <2>1. 4 * (D * p) = (4 * D) * p
      BY <1>2
    <2> QED
      BY <1>1, <1>2, <2>1
  <1>5. o % (4 * D) = 4 * c + r
    BY <1>2, <1>3, <1>4, DivisionUnique
  <1>6. (4 * c + r) \div 4 = c /\ (4 * c + r) % 4 = r
    BY <1>1, <1>2
  <1> QED
    BY <1>3, <1>5, <1>6 DEF q, r, c

----------------------------------------------------------------------------
(* The bytes of the memory are the lanes of the words.                     *)
Index == 0 .. 4 * DataSize - 1

Bytes == [k \in 0 .. 4 * DataSize - 1 |-> ram[k \div 4][k % 4]]

LEMMA IndexSplits ==
  ASSUME NEW k \in Index
  PROVE  k \div 4 \in 0 .. DataSize - 1 /\ k % 4 \in Lane /\ k = 4 * (k \div 4) + (k % 4)
  <1>1. DataSize \in Nat /\ DataSize > 0 /\ k \in Nat /\ k < 4 * DataSize
    BY BusAssumption DEF Index
  <1>2. k \div 4 >= 0 /\ k \div 4 < DataSize
    BY <1>1
  <1>3. k % 4 \in 0 .. 3 /\ k = 4 * (k \div 4) + (k % 4)
    BY <1>1
  <1> QED
    BY <1>1, <1>2, <1>3 DEF Lane

LEMMA AddressSplits ==
  ASSUME NEW a \in Access
  PROVE  /\ cell(a) \in 0 .. DataSize - 1 /\ lane(a) \in Lane
         /\ a.offset % (4 * DataSize) \in Index
         /\ a.offset % (4 * DataSize) = 4 * cell(a) + lane(a)
  <1> DEFINE s == a.offset % (4 * DataSize)
  <1>1. a.offset \in Nat /\ DataSize \in Nat /\ DataSize > 0
    BY BusAssumption DEF Access
  <1>2. s \in Nat
    BY <1>1, Division
  <1>3. s < 4 * DataSize /\ s \div 4 = cell(a) /\ s % 4 = lane(a)
    BY <1>1, CellAndLane DEF cell, lane
  <1> HIDE DEF s
  <1>4. s \in Index
    BY <1>1, <1>2, <1>3 DEF Index
  <1>5. s \div 4 \in 0 .. DataSize - 1 /\ s % 4 \in Lane /\ s = 4 * (s \div 4) + (s % 4)
    BY <1>4, IndexSplits
  <1> QED
    BY <1>3, <1>4, <1>5 DEF s

(* The lanes of the mask are the bytes a store reaches.                    *)
LEMMA MaskReaches ==
  ASSUME NEW a \in Access, a.f3 < 3, NEW i \in Lane
  PROVE  /\ i \in a_mask(a) <=> i - lane(a) \in Memory!Reach(a)
         /\ i \in a_mask(a) => a_data(a)[i] = a.reg2[i - lane(a)]
  <1>1. lane(a) \in Lane
    BY AddressSplits
  <1>2. bus_bytes(a) \in {1, 2, 4} /\ Memory!Size(a) = bus_bytes(a)
    BY DEF Access, bus_bytes, Memory!Size
  <1>3. Memory!Reach(a) = {j \in 0 .. bus_bytes(a) - 1 : lane(a) + j < 4}
    BY <1>2 DEF Memory!Reach, lane
  <1>4. i \in a_mask(a) <=> i - lane(a) \in 0 .. bus_bytes(a) - 1
    BY DEF a_mask
  <1>5. i - lane(a) \in 0 .. bus_bytes(a) - 1 => i >= lane(a) /\ lane(a) + (i - lane(a)) < 4
    BY <1>1, <1>2 DEF Lane
  <1>6. i >= lane(a) => a_data(a)[i] = a.reg2[i - lane(a)]
    BY DEF a_data
  <1> QED
    BY <1>3, <1>4, <1>5, <1>6

LEMMA StoreMerges ==
  ASSUME NEW a \in Access, a.f3 < 3, NEW w \in Word, NEW i \in Lane
  PROVE  Merge(w, a_data(a), a_mask(a))[i] = IF i - lane(a) \in Memory!Reach(a)
                                             THEN a.reg2[i - lane(a)] ELSE w[i]
  BY MaskReaches DEF Merge

LEMMA StoredWord ==
  ASSUME NEW a \in Access, a.f3 < 3, NEW w \in Word
  PROVE  Merge(w, a_data(a), a_mask(a)) \in Word
  <1> DEFINE n == Merge(w, a_data(a), a_mask(a))
  <1>1. ASSUME NEW i \in Lane PROVE n[i] \in Byte
    <2>1. n[i] = IF i - lane(a) \in Memory!Reach(a) THEN a.reg2[i - lane(a)] ELSE w[i]
      BY StoreMerges
    <2>2. i - lane(a) \in Memory!Reach(a) => i - lane(a) \in Lane
      BY DEF Memory!Reach, Memory!Size, Lane
    <2>3. a.reg2 \in [Lane -> Byte] /\ w \in [Lane -> Byte]
      BY DEF Access, Word
    <2> QED
      BY <2>1, <2>2, <2>3
  <1> QED
    BY <1>1 DEF Merge, Word

(* A store changes the bytes it reaches, in the memory and in the debug    *)
(* register.                                                               *)
LEMMA MemoryStored ==
  ASSUME TypeOK, NEW a \in Accesses, RamTock(a)
  PROVE  Bytes' = IF Memory!Stores(a, "mem")
                  THEN Memory!Store(a, Bytes, a.offset % (4 * DataSize)) ELSE Bytes
  <1> DEFINE start == a.offset % (4 * DataSize)
  <1>1. a \in Access /\ (a.op = "STORE" => a.f3 < 3)
    BY BusAssumption
  <1>2. cell(a) \in 0 .. DataSize - 1 /\ lane(a) \in Lane /\ start = 4 * cell(a) + lane(a)
    BY <1>1, AddressSplits
  <1> HIDE DEF start
  <1>3. CASE Memory!Stores(a, "mem")
    <2>1. ram' = [ram EXCEPT ![cell(a)] = Merge(ram[cell(a)], a_data(a), a_mask(a))]
      BY <1>3 DEF RamTock, selects, a_valid, puts, Memory!Stores
    <2>2. ram \in [0 .. DataSize - 1 -> Word]
      BY DEF TypeOK
    <2>3. ASSUME NEW k \in Index
          PROVE  Bytes'[k] = IF k - start \in Memory!Reach(a) THEN a.reg2[k - start] ELSE Bytes[k]
      <3>1. k \div 4 \in 0 .. DataSize - 1 /\ k % 4 \in Lane /\ k = 4 * (k \div 4) + (k % 4)
        BY IndexSplits
      <3>2. Bytes'[k] = ram'[k \div 4][k % 4] /\ Bytes[k] = ram[k \div 4][k % 4]
        BY DEF Bytes, Index
      <3>3. CASE k \div 4 = cell(a)
        <4>1. k - start = (k % 4) - lane(a)
          BY <1>2, <3>1, <3>3 DEF Lane
        <4>2. ram'[k \div 4] = Merge(ram[cell(a)], a_data(a), a_mask(a)) /\ ram[cell(a)] \in Word
          BY <1>2, <2>1, <2>2, <3>3
        <4> QED
          BY <1>1, <1>3, <3>1, <3>2, <3>3, <4>1, <4>2, StoreMerges DEF Memory!Stores
      <3>4. CASE k \div 4 # cell(a)
        <4>1. ram'[k \div 4] = ram[k \div 4]
          BY <2>1, <2>2, <3>1, <3>4
        <4>2. ASSUME k - start \in Memory!Reach(a) PROVE FALSE
          <5>1. k - start >= 0 /\ lane(a) + (k - start) < 4
            BY <4>2 DEF Memory!Reach, Memory!Size, lane
          <5> QED
            BY <1>2, <3>1, <3>4, <5>1 DEF Lane
        <4> QED
          BY <3>2, <4>1, <4>2
      <3> QED
        BY <3>3, <3>4
    <2>4. Bytes' = [k \in Index |-> Bytes'[k]] /\ Index = DOMAIN Bytes
      BY DEF Bytes, Index
    <2> QED
      BY <1>3, <2>3, <2>4 DEF Memory!Store, start
  <1>4. CASE ~Memory!Stores(a, "mem")
    <2>1. ram' = ram
      BY <1>4 DEF RamTock, selects, a_valid, puts, Memory!Stores
    <2> QED
      BY <1>4, <2>1 DEF Bytes
  <1> QED
    BY <1>3, <1>4

LEMMA RegisterStored ==
  ASSUME TypeOK, NEW a \in Accesses, DebugTick(a)
  PROVE  debug' = IF Memory!Stores(a, "debug")
                  THEN Memory!Store(a, debug, a.offset % 4) ELSE debug
  <1>1. a \in Access /\ (a.op = "STORE" => a.f3 < 3) /\ debug \in Word
    BY BusAssumption DEF TypeOK
  <1>2. CASE Memory!Stores(a, "debug")
    <2>1. debug' = Merge(debug, a_data(a), a_mask(a))
      BY <1>2 DEF DebugTick, selects, a_valid, puts, Memory!Stores
    <2>2. debug' = [i \in Lane |-> debug'[i]]
      BY <2>1 DEF Merge
    <2>3. ASSUME NEW i \in Lane
          PROVE  debug'[i] = IF i - lane(a) \in Memory!Reach(a) THEN a.reg2[i - lane(a)] ELSE debug[i]
      BY <1>1, <1>2, <2>1, StoreMerges DEF Memory!Stores
    <2>4. DOMAIN debug = Lane
      BY <1>1 DEF Word
    <2> QED
      BY <1>2, <2>2, <2>3, <2>4 DEF Memory!Store, lane
  <1>3. CASE ~Memory!Stores(a, "debug")
    BY <1>3 DEF DebugTick, selects, a_valid, puts, Memory!Stores
  <1> QED
    BY <1>2, <1>3

(* The word at the address of a load, shifted down, has the bytes in its   *)
(* reach at their place and zeros above.                                   *)
LEMMA FetchedBytes ==
  ASSUME TypeOK, NEW a \in Access, NEW i \in Lane, i < Memory!Size(a)
  PROVE  Memory!Fetched(a)[i] = Down(ram[cell(a)], lane(a))[i]
  <1> DEFINE start == a.offset % (4 * DataSize)
  <1>1. cell(a) \in 0 .. DataSize - 1 /\ lane(a) \in Lane /\ start = 4 * cell(a) + lane(a)
    BY AddressSplits
  <1>2. Memory!Fetched(a)[i] = IF i \in Memory!Reach(a) THEN Bytes[start + i] ELSE 0
    BY DEF Memory!Fetched, Bytes, Lane
  <1>3. i \in Memory!Reach(a) <=> i + lane(a) \in Lane
    BY <1>1 DEF Memory!Reach, Memory!Size, Lane, lane
  <1>4. ASSUME i + lane(a) \in Lane PROVE Bytes[start + i] = ram[cell(a)][i + lane(a)]
    <2> DEFINE l == i + lane(a)
    <2>1. l \in 0 .. 3 /\ start + i = 4 * cell(a) + l
      BY <1>1, <1>4 DEF Lane
    <2> HIDE DEF l, start
    <2>2. start + i \in 0 .. 4 * DataSize - 1
      BY <1>1, <2>1, BusAssumption
    <2>3. (start + i) \div 4 = cell(a) /\ (start + i) % 4 = l
      BY <1>1, <2>1
    <2> QED
      BY <2>2, <2>3 DEF Bytes, l
  <1> QED
    BY <1>2, <1>3, <1>4 DEF Down

LEMMA LoadAnswers ==
  ASSUME TypeOK, NEW a \in Accesses, Cycle(a)
  PROVE  CD_writeback' = IF Memory!Loads(a, "mem") THEN Memory!Extended(a) ELSE Nothing
  <1>1. a \in Access /\ C' = a
    BY BusAssumption DEF Cycle
  <1>2. CASE ~Memory!Loads(a, "mem")
    BY <1>1, <1>2 DEF CD_writeback, CD_read_mem, Memory!Loads
  <1>3. CASE Memory!Loads(a, "mem")
    <2> DEFINE word == ram[cell(a)]
               mem  == Down(word, lane(a))
    <2>1. data_tld' = word
      BY <1>3 DEF Cycle, DebugTick, RamTock, selects, data_tld, Memory!Loads
    <2>2. CD_writeback' = unpack_mem(a.f3, a, word)
      BY <1>1, <1>3, <2>1 DEF CD_writeback, CD_read_mem, Memory!Loads
    <2>3. \A i \in Lane : i < Memory!Size(a) => Memory!Fetched(a)[i] = mem[i]
      BY <1>1, FetchedBytes
    <2> HIDE DEF word
    <2>4. CASE a.f3 = 0
      <3>1. unpack_mem(a.f3, a, word) = extend(mem, 1, TRUE) /\ Memory!Size(a) = 1
        BY <2>4 DEF unpack_mem, Memory!Size
      <3>2. Memory!Extended(a) = extend(mem, 1, TRUE)
        BY <2>3, <2>4, <3>1 DEF Memory!Extended, Memory!Negative, extend, Lane
      <3> QED
        BY <1>3, <2>2, <3>1, <3>2
    <2>5. CASE a.f3 = 1
      <3>1. unpack_mem(a.f3, a, word) = extend(mem, 2, TRUE) /\ Memory!Size(a) = 2
        BY <2>5 DEF unpack_mem, Memory!Size
      <3>2. Memory!Extended(a) = extend(mem, 2, TRUE)
        BY <2>3, <2>5, <3>1 DEF Memory!Extended, Memory!Negative, extend, Lane
      <3> QED
        BY <1>3, <2>2, <3>1, <3>2
    <2>6. CASE a.f3 = 2
      <3>1. unpack_mem(a.f3, a, word) = mem /\ Memory!Size(a) = 4
        BY <2>6 DEF unpack_mem, Memory!Size
      <3>2. Memory!Extended(a) = mem
        BY <2>3, <2>6, <3>1 DEF Memory!Extended, Down, Lane
      <3> QED
        BY <1>3, <2>2, <3>1, <3>2
    <2>7. CASE a.f3 = 4
      <3>1. unpack_mem(a.f3, a, word) = extend(mem, 1, FALSE) /\ Memory!Size(a) = 1
        BY <2>7 DEF unpack_mem, Memory!Size
      <3>2. Memory!Extended(a) = extend(mem, 1, FALSE)
        BY <2>3, <2>7, <3>1 DEF Memory!Extended, extend, Lane
      <3> QED
        BY <1>3, <2>2, <3>1, <3>2
    <2>8. CASE a.f3 = 5
      <3>1. unpack_mem(a.f3, a, word) = extend(mem, 2, FALSE) /\ Memory!Size(a) = 2
        BY <2>8 DEF unpack_mem, Memory!Size
      <3>2. Memory!Extended(a) = extend(mem, 2, FALSE)
        BY <2>3, <2>8, <3>1 DEF Memory!Extended, extend, Lane
      <3> QED
        BY <1>3, <2>2, <3>1, <3>2
    <2> QED
      BY <1>1, <2>4, <2>5, <2>6, <2>7, <2>8 DEF Access
  <1> QED
    BY <1>2, <1>3

----------------------------------------------------------------------------
(* Type correctness.  The console's part says that the cursor is inside    *)
(* the buffer, so that a character and the glyph have a cell to go to.     *)

LEMMA InsideBuffer ==
  ASSUME NEW x \in 0 .. Width - 1, NEW y \in 0 .. Height - 1
  PROVE  y * Width + x \in Cells
  <1>1. Width \in Nat /\ Height \in Nat /\ x \in Nat /\ y \in Nat
    BY ScreenAssumption
  <1>2. y * Width \in Nat /\ (Height - 1 - y) * Width \in Nat
    BY <1>1
  <1>3. Width * Height = y * Width + Width + (Height - 1 - y) * Width
    BY <1>1
  <1> QED
    BY <1>1, <1>2, <1>3 DEF Cells

Screens(w, h) == [buf : [Cells -> Nat], x : 0 .. w, y : 0 .. h]

LEMMA PutcharStays ==
  ASSUME NEW con, NEW c \in Nat, con.buf \in [Cells -> Nat],
         con.x \in 0 .. Width - 1, con.y \in 0 .. Height - 1
  PROVE  putchar(con, c) \in Screens(Width - 1, Height - 1)
  <1> DEFINE w == Written(con, c)
             v == Wrapped(w)
             u == Scrolled(v)
  <1>1. Width \in Nat /\ Width > 0 /\ Height \in Nat /\ Height > 0
        /\ Question \in Nat /\ Glyph \in Nat /\ Blank \in Nat
    BY ScreenAssumption DEF Blank
  <1>2. w \in Screens(Width, Height) /\ (w.y = con.y \/ w.x = 0)
    <2>1. \A d \in Nat : [con.buf EXCEPT ![Cursor(con)] = d] \in [Cells -> Nat]
      OBVIOUS
    <2>2. con.x + 1 \in 0 .. Width /\ con.y + 1 \in 0 .. Height /\ con.y \in 0 .. Height
          /\ 0 \in 0 .. Width
      BY <1>1
    <2> QED
      BY <1>1, <2>1, <2>2 DEF Written, Screens
  <1> HIDE DEF w
  <1>3. v \in Screens(Width - 1, Height)
    <2>1. CASE w.x = Width
      <3>1. w.y + 1 \in 0 .. Height /\ 0 \in 0 .. Width - 1
        BY <1>1, <1>2, <2>1
      <3> QED
        BY <1>2, <2>1, <3>1 DEF Wrapped, Screens
    <2>2. CASE w.x # Width
      <3>1. w.x \in 0 .. Width - 1
        BY <1>1, <1>2, <2>2 DEF Screens
      <3> QED
        BY <1>2, <2>2, <3>1 DEF Wrapped, Screens
    <2> QED
      BY <2>1, <2>2
  <1> HIDE DEF v
  <1>4. u \in Screens(Width - 1, Height - 1)
    <2>1. \A i \in Cells : i < Width * (Height - 1) => i + Width \in Cells
      <3>1. Width * Height = Width * (Height - 1) + Width /\ Width * (Height - 1) \in Nat
        BY <1>1
      <3> QED
        BY <1>1, <3>1 DEF Cells
    <2>2. CASE v.y = Height
      <3>1. [i \in Cells |-> IF i < Width * (Height - 1) THEN v.buf[i + Width] ELSE Blank]
              \in [Cells -> Nat]
        BY <1>1, <1>3, <2>1 DEF Screens
      <3> QED
        BY <1>1, <1>3, <2>2, <3>1 DEF Scrolled, Screens
    <2>3. CASE v.y # Height
      BY <1>1, <1>3, <2>3 DEF Scrolled, Screens
    <2> QED
      BY <2>2, <2>3
  <1> HIDE DEF u
  <1>5. Marked(u) \in Screens(Width - 1, Height - 1)
    BY <1>1, <1>4 DEF Marked, Screens
  <1> QED
    BY <1>5 DEF putchar, w, v, u

LEMMA LowestByte ==
  ASSUME NEW a \in Access
  PROVE  a_data(a)[0] \in Nat
  <1>1. lane(a) \in Lane /\ 0 \in Lane
    BY AddressSplits DEF Lane
  <1>2. a.reg2[0] \in Nat
    BY <1>1 DEF Access, Word, Byte
  <1>3. a_data(a)[0] = IF 0 >= lane(a) THEN a.reg2[0 - lane(a)] ELSE 0
    BY <1>1 DEF a_data
  <1> QED
    BY <1>1, <1>2, <1>3 DEF Lane

LEMMA InitTypeOK == Init => TypeOK
  <1> SUFFICES ASSUME Init PROVE TypeOK
    OBVIOUS
  <1>1. Zero \in Word /\ LaneSize \in Nat /\ LaneSize > 0
    BY BusAssumption DEF Zero, Word, Byte
  <1>2. C \in Access
    BY <1>1 DEF Init, NoAccess, Access
  <1>3. NewConsole.buf \in [Cells -> Nat] /\ NewConsole.x \in 0 .. Width - 1
        /\ NewConsole.y \in 0 .. Height - 1
    BY ScreenAssumption DEF NewConsole, Blank
  <1> QED
    BY <1>1, <1>2, <1>3, BusAssumption DEF Init, TypeOK

LEMMA StepTypeOK ==
  ASSUME TypeOK, NEW a \in Accesses, Cycle(a)
  PROVE  TypeOK'
  <1>1. a \in Access /\ (a.op = "STORE" => a.f3 < 3)
    BY BusAssumption
  <1>2. cell(a) \in 0 .. DataSize - 1
    BY <1>1, AddressSplits
  <1>3. C' \in Access /\ debug_valid' \in BOOLEAN /\ rdata' \in Word
    BY <1>1, <1>2 DEF Cycle, RamTock, DebugTick, TypeOK, selects
  <1>4. \A w \in Word : puts(a) => Merge(w, a_data(a), a_mask(a)) \in Word
    BY <1>1, StoredWord DEF puts
  <1>5. ram' \in [0 .. DataSize - 1 -> Word] /\ debug' \in Word
    BY <1>2, <1>4 DEF Cycle, RamTock, DebugTick, TypeOK
  <1>6. /\ console'.buf \in [Cells -> Nat] /\ console'.x \in 0 .. Width - 1
        /\ console'.y \in 0 .. Height - 1
    <2>1. putchar(console, a_data(a)[0]) \in Screens(Width - 1, Height - 1)
      BY <1>1, LowestByte, PutcharStays DEF TypeOK
    <2>2. console' \in {console, putchar(console, a_data(a)[0])}
      BY DEF Cycle, ConsoleTick, tick
    <2> QED
      BY <2>1, <2>2 DEF Screens, TypeOK
  <1> QED
    BY <1>3, <1>5, <1>6 DEF TypeOK

(* Memory, debug register and console hold values of their types; the      *)
(* cursor stays inside the buffer whatever is printed (console:45-71).     *)
THEOREM TypeCorrect == Spec => []TypeOK
  <1>1. TypeOK /\ [Next]_busVars => TypeOK'
    <2>1. TypeOK /\ Next => TypeOK'
      BY StepTypeOK DEF Next
    <2>2. TypeOK /\ UNCHANGED busVars => TypeOK'
      BY DEF TypeOK, busVars
    <2> QED
      BY <2>1, <2>2
  <1> QED
    BY InitTypeOK, <1>1, PTL DEF Spec

----------------------------------------------------------------------------
(* Loads and stores of bytes, half-words and words at any address do what  *)
(* a memory of bytes does (core:338-383, bus_ram:39-67, test_reg:35-48).   *)
THEOREM BusIsByteMemory == Spec => ImplementsByteMemory
  <1>1. Init => Memory!MemInit
    <2> SUFFICES ASSUME Init PROVE Memory!MemInit
      OBVIOUS
    <2>1. debug \in [0 .. 3 -> 0 .. LaneSize - 1]
      BY InitTypeOK DEF TypeOK, Word, Lane, Byte
    <2>2. C = Memory!Idle /\ CD_writeback = Nothing
      BY DEF Init, NoAccess, Zero, Lane, Memory!Idle, CD_writeback, CD_read_mem
    <2>3. ram \in InitRam
      BY DEF Init
    <2> QED
      BY <2>1, <2>2, <2>3 DEF Memory!MemInit
  <1>2. TypeOK /\ [Next]_busVars => [Memory!MemNext]_(Memory!memVars)
    <2>1. ASSUME TypeOK, NEW a \in Accesses, Cycle(a) PROVE Memory!Perform(a)
      <3>1. C' = a /\ RamTock(a) /\ DebugTick(a)
        BY <2>1 DEF Cycle
      <3> QED
        BY <2>1, <3>1, MemoryStored, RegisterStored, LoadAnswers DEF Memory!Perform, Bytes
    <2>2. UNCHANGED busVars => UNCHANGED Memory!memVars
      BY DEF busVars, Memory!memVars, CD_writeback, CD_read_mem, data_tld
    <2> QED
      BY <2>1, <2>2 DEF Next, Memory!MemNext
  <1> QED
    BY <1>1, <1>2, TypeCorrect, PTL DEF Spec, ImplementsByteMemory, Memory!MemSpec

----------------------------------------------------------------------------
(* The console.  A buffer without the glyph is exact for some lines when   *)
(* it holds them one after the other and nothing below.                    *)
Columns   == 0 .. Width - 1
Line      == [Columns -> Nat]
Pos(k, i) == k * Width + i

Exact(b, y, ls) ==
  /\ b \in [Cells -> Nat] /\ y \in 0 .. Height - 1
  /\ ls \in Seq(Line) /\ Len(ls) = y + 1
  /\ \A k \in 0 .. y, i \in Columns : b[Pos(k, i)] = ls[k + 1][i]
  /\ \A k \in y + 1 .. Height - 1, i \in Columns : b[Pos(k, i)] = Blank

LinesOf(con) ==
  [k \in 1 .. con.y + 1 |->
     [i \in Columns |-> IF i = con.x /\ k - 1 = con.y THEN Blank ELSE con.buf[Pos(k - 1, i)]]]

Below(con) == \A k \in con.y + 1 .. Height - 1, i \in Columns : con.buf[Pos(k, i)] = Blank

LEMMA ScreenSizes ==
  /\ Width \in Nat /\ Width > 0 /\ Height \in Nat /\ Height > 0
  /\ Blank \in Nat /\ 0 \in Columns
  BY ScreenAssumption DEF Blank, Columns

LEMMA PosUnique ==
  ASSUME NEW k \in Nat, NEW l \in Nat, NEW i \in Columns, NEW j \in Columns, Pos(k, i) = Pos(l, j)
  PROVE  k = l /\ i = j
  <1> DEFINE o == Pos(k, i)
  <1>1. k * Width = Width * k /\ l * Width = Width * l /\ Width * k \in Nat
    BY ScreenSizes
  <1>2. o \in Nat /\ o = Width * k + i /\ o = Width * l + j
    BY <1>1, ScreenSizes DEF Pos, Columns
  <1> HIDE DEF o
  <1>3. i \in Nat /\ i < Width /\ j \in Nat /\ j < Width
    BY ScreenSizes DEF Columns
  <1>4. o \div Width = k /\ o % Width = i
    BY <1>2, <1>3, ScreenSizes, DivisionUnique
  <1>5. o \div Width = l /\ o % Width = j
    BY <1>2, <1>3, ScreenSizes, DivisionUnique
  <1> QED
    BY <1>4, <1>5

LEMMA PosInside ==
  ASSUME NEW k \in 0 .. Height - 1, NEW i \in Columns
  PROVE  Pos(k, i) \in Cells
  BY InsideBuffer DEF Pos, Columns

LEMMA LinesOfSeq ==
  ASSUME NEW con, con.buf \in [Cells -> Nat], con.y \in 0 .. Height - 1
  PROVE  /\ LinesOf(con) \in Seq(Line) /\ Len(LinesOf(con)) = con.y + 1
         /\ \A k \in 0 .. con.y, i \in Columns :
              LinesOf(con)[k + 1][i]
                = IF i = con.x /\ k = con.y THEN Blank ELSE con.buf[Pos(k, i)]
  <1> DEFINE e(k) == [i \in Columns |-> IF i = con.x /\ k - 1 = con.y THEN Blank
                                         ELSE con.buf[Pos(k - 1, i)]]
  <1>1. con.y \in Nat /\ con.y + 1 \in Nat
    BY ScreenSizes
  <1>2. ASSUME NEW k \in 1 .. con.y + 1 PROVE e(k) \in Line
    <2>1. k - 1 \in 0 .. Height - 1
      BY ScreenSizes
    <2>2. \A i \in Columns : con.buf[Pos(k - 1, i)] \in Nat
      BY <2>1, PosInside
    <2> QED
      BY <2>2, ScreenSizes DEF Line
  <1>3. LinesOf(con) = [k \in 1 .. con.y + 1 |-> e(k)]
    BY DEF LinesOf
  <1> HIDE DEF e
  <1>4. LinesOf(con) \in [1 .. con.y + 1 -> Line]
    BY <1>2, <1>3
  <1>5. LinesOf(con) \in Seq(Line) /\ Len(LinesOf(con)) = con.y + 1
    BY <1>1, <1>4
  <1>6. ASSUME NEW k \in 0 .. con.y PROVE LinesOf(con)[k + 1] = e(k + 1) /\ (k + 1) - 1 = k
    BY <1>1, <1>3, <1>6
  <1>7. ASSUME NEW k \in 0 .. con.y, NEW i \in Columns
        PROVE  LinesOf(con)[k + 1][i]
                 = IF i = con.x /\ k = con.y THEN Blank ELSE con.buf[Pos(k, i)]
    <2>1. e(k + 1)[i] = IF i = con.x /\ (k + 1) - 1 = con.y THEN Blank
                        ELSE con.buf[Pos((k + 1) - 1, i)]
      BY DEF e
    <2> QED
      BY <1>6, <2>1
  <1> QED
    BY <1>5, <1>7

(* Two sequences of lines are the same if all their characters are.        *)
LEMMA SameLines ==
  ASSUME NEW s \in Seq(Line), NEW t \in Seq(Line), NEW n \in Nat, Len(s) = n, Len(t) = n,
         \A k \in 1 .. n, i \in Columns : s[k][i] = t[k][i]
  PROVE  s = t
  <1>1. ASSUME NEW k \in 1 .. n PROVE s[k] = t[k]
    <2>1. s[k] \in Line /\ t[k] \in Line
      OBVIOUS
    <2> QED
      BY <2>1 DEF Line
  <1> QED
    BY <1>1

LEMMA InLineIs ==
  ASSUME NEW ls \in Seq(Line), Len(ls) > 0, NEW x \in Columns, NEW c \in Nat
  PROVE  /\ Screen!InLine(x, c, ls) \in Seq(Line) /\ Len(Screen!InLine(x, c, ls)) = Len(ls)
         /\ \A k \in 1 .. Len(ls), i \in Columns :
              Screen!InLine(x, c, ls)[k][i]
                = IF k = Len(ls) /\ i = x THEN c ELSE ls[k][i]
  <1> DEFINE n == Len(ls)
             last == [ls[n] EXCEPT ![x] = c]
  <1>1. n \in 1 .. n /\ ls[n] \in Line
    OBVIOUS
  <1>2. last \in Line /\ \A i \in Columns : last[i] = IF i = x THEN c ELSE ls[n][i]
    BY <1>1 DEF Line
  <1>3. Screen!InLine(x, c, ls) = [ls EXCEPT ![n] = last]
    BY DEF Screen!InLine
  <1> HIDE DEF last
  <1>4. /\ [ls EXCEPT ![n] = last] \in Seq(Line) /\ Len([ls EXCEPT ![n] = last]) = n
        /\ \A k \in 1 .. n : [ls EXCEPT ![n] = last][k] = IF k = n THEN last ELSE ls[k]
    BY <1>1, <1>2
  <1> QED
    BY <1>2, <1>3, <1>4

LEMMA BlankLine ==
  /\ Screen!NewLine \in Line
  /\ \A i \in Columns : Screen!NewLine[i] = Blank
  BY ScreenSizes DEF Screen!NewLine, Line, Columns

LEMMA FeedIs ==
  ASSUME NEW ls \in Seq(Line), Len(ls) \in 1 .. Height
  PROVE  /\ Screen!Feed(ls) \in Seq(Line)
         /\ Len(ls) = Height =>
              /\ Len(Screen!Feed(ls)) = Height
              /\ \A k \in 1 .. Height, i \in Columns :
                   Screen!Feed(ls)[k][i] = IF k = Height THEN Blank ELSE ls[k + 1][i]
         /\ Len(ls) < Height =>
              /\ Len(Screen!Feed(ls)) = Len(ls) + 1
              /\ \A k \in 1 .. Len(ls) + 1, i \in Columns :
                   Screen!Feed(ls)[k][i] = IF k = Len(ls) + 1 THEN Blank ELSE ls[k][i]
  <1>1. ASSUME Len(ls) = Height
        PROVE  /\ Screen!Feed(ls) \in Seq(Line) /\ Len(Screen!Feed(ls)) = Height
               /\ \A k \in 1 .. Height, i \in Columns :
                    Screen!Feed(ls)[k][i] = IF k = Height THEN Blank ELSE ls[k + 1][i]
    <2>1. Tail(ls) \in Seq(Line) /\ Len(Tail(ls)) = Height - 1
          /\ \A k \in 1 .. Height - 1 : Tail(ls)[k] = ls[k + 1]
      BY <1>1, ScreenSizes
    <2> DEFINE t == Tail(ls)
    <2> HIDE DEF t
    <2>2. /\ Append(t, Screen!NewLine) \in Seq(Line) /\ Len(Append(t, Screen!NewLine)) = Height
          /\ \A k \in 1 .. Height :
               Append(t, Screen!NewLine)[k] = IF k = Height THEN Screen!NewLine ELSE t[k]
      BY <2>1, BlankLine, ScreenSizes DEF t
    <2>3. Screen!Feed(ls) = Append(t, Screen!NewLine)
      BY <1>1 DEF Screen!Feed, t
    <2>4. \A k \in 1 .. Height : k # Height => t[k] = ls[k + 1]
      BY <2>1, ScreenSizes DEF t
    <2> QED
      BY <2>2, <2>3, <2>4, BlankLine
  <1>2. ASSUME Len(ls) < Height
        PROVE  /\ Screen!Feed(ls) \in Seq(Line) /\ Len(Screen!Feed(ls)) = Len(ls) + 1
               /\ \A k \in 1 .. Len(ls) + 1, i \in Columns :
                    Screen!Feed(ls)[k][i] = IF k = Len(ls) + 1 THEN Blank ELSE ls[k][i]
    <2>1. Screen!Feed(ls) = Append(ls, Screen!NewLine)
      BY <1>2, ScreenSizes DEF Screen!Feed
    <2>2. /\ Append(ls, Screen!NewLine) \in Seq(Line)
          /\ Len(Append(ls, Screen!NewLine)) = Len(ls) + 1
          /\ \A k \in 1 .. Len(ls) + 1 :
               Append(ls, Screen!NewLine)[k] = IF k = Len(ls) + 1 THEN Screen!NewLine ELSE ls[k]
      BY BlankLine
    <2> QED
      BY <2>1, <2>2, BlankLine
  <1>3. Len(ls) = Height \/ Len(ls) < Height
    BY ScreenSizes
  <1> QED
    BY <1>1, <1>2, <1>3

(* A console, the text below whose cursor is blank.                        *)
Tidy(con) == con \in Screens(Width - 1, Height - 1) /\ Below(con)

(* Writing a character, or erasing the glyph, leaves an exact buffer.      *)
LEMMA PutExact ==
  ASSUME NEW con, Tidy(con), NEW d \in Nat
  PROVE  Exact([con.buf EXCEPT ![Cursor(con)] = d], con.y, Screen!InLine(con.x, d, LinesOf(con)))
  <1> DEFINE b == [con.buf EXCEPT ![Cursor(con)] = d]
             ls == LinesOf(con)
             ms == Screen!InLine(con.x, d, ls)
  <1>1. /\ con.buf \in [Cells -> Nat] /\ con.x \in Columns /\ con.y \in 0 .. Height - 1
        /\ con.y \in Nat /\ Below(con)
    BY ScreenSizes DEF Tidy, Screens, Columns
  <1>2. ls \in Seq(Line) /\ Len(ls) = con.y + 1
        /\ \A k \in 0 .. con.y, i \in Columns :
             ls[k + 1][i] = IF i = con.x /\ k = con.y THEN Blank ELSE con.buf[Pos(k, i)]
    BY <1>1, LinesOfSeq
  <1> HIDE DEF ls
  <1>3. ms \in Seq(Line) /\ Len(ms) = con.y + 1
        /\ \A k \in 1 .. con.y + 1, i \in Columns :
             ms[k][i] = IF k = con.y + 1 /\ i = con.x THEN d ELSE ls[k][i]
    BY <1>1, <1>2, InLineIs
  <1> HIDE DEF ms
  <1>4. \A k \in 0 .. Height - 1, i \in Columns :
          b[Pos(k, i)] = IF k = con.y /\ i = con.x THEN d ELSE con.buf[Pos(k, i)]
    <2> TAKE k \in 0 .. Height - 1, i \in Columns
    <2>1. Pos(k, i) \in Cells /\ Cursor(con) = Pos(con.y, con.x)
      BY PosInside DEF Cursor, Pos
    <2>2. Pos(k, i) = Cursor(con) => k = con.y /\ i = con.x
      BY <1>1, <2>1, PosUnique, ScreenSizes
    <2> QED
      BY <1>1, <2>1, <2>2
  <1>5. b \in [Cells -> Nat]
    BY <1>1
  <1> HIDE DEF b
  <1>6. ASSUME NEW k \in 0 .. con.y, NEW i \in Columns PROVE b[Pos(k, i)] = ms[k + 1][i]
    <2>1. k \in 0 .. Height - 1 /\ k + 1 \in 1 .. con.y + 1 /\ (k + 1 = con.y + 1 <=> k = con.y)
      BY <1>1, ScreenSizes
    <2>2. ms[k + 1][i] = IF k = con.y /\ i = con.x THEN d ELSE ls[k + 1][i]
      BY <1>3, <2>1
    <2>3. ls[k + 1][i] = IF i = con.x /\ k = con.y THEN Blank ELSE con.buf[Pos(k, i)]
      BY <1>2
    <2> QED
      BY <1>4, <2>1, <2>2, <2>3
  <1>7. ASSUME NEW k \in con.y + 1 .. Height - 1, NEW i \in Columns PROVE b[Pos(k, i)] = Blank
    <2>1. k \in 0 .. Height - 1 /\ k # con.y
      BY <1>1, ScreenSizes
    <2> QED
      BY <1>1, <1>4, <2>1 DEF Below
  <1> QED
    BY <1>1, <1>3, <1>5, <1>6, <1>7 DEF Exact, b, ms, ls

LEMMA EraseSame ==
  ASSUME NEW con, Tidy(con)
  PROVE  Screen!InLine(con.x, Blank, LinesOf(con)) = LinesOf(con)
  <1> DEFINE ls == LinesOf(con)
             ms == Screen!InLine(con.x, Blank, ls)
  <1>1. /\ con.buf \in [Cells -> Nat] /\ con.x \in Columns /\ con.y \in 0 .. Height - 1
        /\ con.y \in Nat
    BY ScreenSizes DEF Tidy, Screens, Columns
  <1>2. ls \in Seq(Line) /\ Len(ls) = con.y + 1
        /\ \A k \in 0 .. con.y, i \in Columns :
             ls[k + 1][i] = IF i = con.x /\ k = con.y THEN Blank ELSE con.buf[Pos(k, i)]
    BY <1>1, LinesOfSeq
  <1> HIDE DEF ls
  <1>3. ms \in Seq(Line) /\ Len(ms) = con.y + 1
        /\ \A k \in 1 .. con.y + 1, i \in Columns :
             ms[k][i] = IF k = con.y + 1 /\ i = con.x THEN Blank ELSE ls[k][i]
    BY <1>1, <1>2, InLineIs, ScreenSizes
  <1> HIDE DEF ms
  <1>4. ls[con.y + 1][con.x] = Blank
    BY <1>1, <1>2
  <1>5. ASSUME NEW k \in 1 .. con.y + 1, NEW i \in Columns PROVE ms[k][i] = ls[k][i]
    BY <1>3, <1>4
  <1>6. con.y + 1 \in Nat
    BY <1>1
  <1>7. ms = ls
    BY <1>2, <1>3, <1>5, <1>6, SameLines
  <1> QED
    BY <1>7 DEF ms, ls

(* Placing the cursor on an exact buffer hides one character of its line.  *)
LEMMA PlaceCursor ==
  ASSUME NEW b, NEW y, NEW ls, Exact(b, y, ls), NEW x \in Columns
  PROVE  /\ Tidy([buf |-> b, x |-> x, y |-> y])
         /\ LinesOf([buf |-> b, x |-> x, y |-> y]) = Screen!InLine(x, Blank, ls)
  <1> DEFINE con == [buf |-> b, x |-> x, y |-> y]
             ms == Screen!InLine(x, Blank, ls)
             ns == LinesOf(con)
  <1>1. /\ b \in [Cells -> Nat] /\ y \in 0 .. Height - 1 /\ y \in Nat
        /\ ls \in Seq(Line) /\ Len(ls) = y + 1
        /\ \A k \in 0 .. y, i \in Columns : b[Pos(k, i)] = ls[k + 1][i]
        /\ \A k \in y + 1 .. Height - 1, i \in Columns : b[Pos(k, i)] = Blank
    BY ScreenSizes DEF Exact
  <1>2. con.buf = b /\ con.x = x /\ con.y = y /\ con \in Screens(Width - 1, Height - 1)
    BY <1>1 DEF Screens, Columns
  <1>3. Tidy(con)
    BY <1>1, <1>2 DEF Tidy, Below
  <1> HIDE DEF con
  <1>4. ns \in Seq(Line) /\ Len(ns) = y + 1
        /\ \A k \in 0 .. y, i \in Columns :
             ns[k + 1][i] = IF i = x /\ k = y THEN Blank ELSE b[Pos(k, i)]
    BY <1>1, <1>2, LinesOfSeq
  <1>5. ms \in Seq(Line) /\ Len(ms) = y + 1
        /\ \A k \in 1 .. y + 1, i \in Columns :
             ms[k][i] = IF k = y + 1 /\ i = x THEN Blank ELSE ls[k][i]
    BY <1>1, InLineIs, ScreenSizes
  <1> HIDE DEF ms, ns
  <1>6. ASSUME NEW k \in 1 .. y + 1, NEW i \in Columns PROVE ns[k][i] = ms[k][i]
    <2>1. k - 1 \in 0 .. y /\ (k - 1) + 1 = k /\ (k - 1 = y <=> k = y + 1)
      BY <1>1
    <2>2. ns[k][i] = IF i = x /\ k - 1 = y THEN Blank ELSE b[Pos(k - 1, i)]
      BY <1>4, <2>1
    <2>3. b[Pos(k - 1, i)] = ls[k][i]
      BY <1>1, <2>1
    <2> QED
      BY <1>5, <2>1, <2>2, <2>3
  <1>7. ns = ms
    BY <1>1, <1>4, <1>5, <1>6, SameLines
  <1> QED
    BY <1>3, <1>7 DEF con, ms, ns

LEMMA MarkedShows ==
  ASSUME NEW con, Tidy(con)
  PROVE  /\ Tidy(Marked(con)) /\ LinesOf(Marked(con)) = LinesOf(con)
         /\ Marked(con).x = con.x /\ Marked(con).y = con.y
  <1> DEFINE m == Marked(con)
  <1>1. /\ con.buf \in [Cells -> Nat] /\ con.x \in Columns /\ con.y \in 0 .. Height - 1
        /\ con.y \in Nat /\ Below(con) /\ con \in Screens(Width - 1, Height - 1)
    BY ScreenSizes DEF Tidy, Screens, Columns
  <1>2. m = [con EXCEPT !.buf = [con.buf EXCEPT ![Cursor(con)] = Glyph]]
    BY DEF Marked
  <1>3. m.x = con.x /\ m.y = con.y /\ m.buf = [con.buf EXCEPT ![Cursor(con)] = Glyph]
    BY <1>1, <1>2 DEF Screens
  <1>4. m \in Screens(Width - 1, Height - 1)
    BY <1>1, <1>2, ScreenAssumption DEF Screens
  <1> HIDE DEF m
  <1>5. \A k \in 0 .. Height - 1, i \in Columns :
          ~(k = con.y /\ i = con.x) => m.buf[Pos(k, i)] = con.buf[Pos(k, i)]
    <2> TAKE k \in 0 .. Height - 1, i \in Columns
    <2>1. Pos(k, i) \in Cells /\ Cursor(con) = Pos(con.y, con.x)
      BY PosInside DEF Cursor, Pos
    <2>2. Pos(k, i) = Cursor(con) => k = con.y /\ i = con.x
      BY <1>1, <2>1, PosUnique, ScreenSizes
    <2> QED
      BY <1>1, <1>3, <2>1, <2>2
  <1>6. Below(m)
    <2> SUFFICES ASSUME NEW k \in con.y + 1 .. Height - 1, NEW i \in Columns
                 PROVE  m.buf[Pos(k, i)] = Blank
      BY <1>3 DEF Below
    <2>1. k \in 0 .. Height - 1 /\ k # con.y
      BY <1>1, ScreenSizes
    <2> QED
      BY <1>1, <1>5, <2>1 DEF Below
  <1>7. LinesOf(m) = LinesOf(con)
    <2>1. ASSUME NEW k \in 1 .. con.y + 1, NEW i \in Columns
          PROVE  (IF i = con.x /\ k - 1 = con.y THEN Blank ELSE m.buf[Pos(k - 1, i)])
                   = (IF i = con.x /\ k - 1 = con.y THEN Blank ELSE con.buf[Pos(k - 1, i)])
      <3>1. k - 1 \in 0 .. Height - 1
        BY <1>1, ScreenSizes
      <3> QED
        BY <1>5, <3>1
    <2> QED
      BY <1>3, <2>1 DEF LinesOf
  <1> QED
    BY <1>3, <1>4, <1>6, <1>7 DEF m, Tidy

(* Feeding a line, the buffer is moved up or there is one left below.      *)
LEMMA ScrolledFeeds ==
  ASSUME NEW b, NEW y, NEW ls, Exact(b, y, ls)
  PROVE  LET u == Scrolled([buf |-> b, x |-> 0, y |-> y + 1])
         IN u = [buf |-> u.buf, x |-> 0, y |-> u.y] /\ Exact(u.buf, u.y, Screen!Feed(ls))
  <1> DEFINE con == [buf |-> b, x |-> 0, y |-> y + 1]
             u == Scrolled(con)
             ms == Screen!Feed(ls)
  <1>1. /\ b \in [Cells -> Nat] /\ y \in 0 .. Height - 1 /\ y \in Nat /\ y + 1 \in Nat
        /\ ls \in Seq(Line) /\ Len(ls) = y + 1 /\ Len(ls) \in 1 .. Height
        /\ \A k \in 0 .. y, i \in Columns : b[Pos(k, i)] = ls[k + 1][i]
        /\ \A k \in y + 1 .. Height - 1, i \in Columns : b[Pos(k, i)] = Blank
    BY ScreenSizes DEF Exact
  <1>2. CASE y + 1 = Height
    <2> DEFINE moved == [i \in Cells |-> IF i < Width * (Height - 1) THEN b[i + Width] ELSE Blank]
    <2>1. u = [buf |-> moved, x |-> 0, y |-> Height - 1]
      BY <1>2 DEF Scrolled
    <2>2. ms \in Seq(Line) /\ Len(ms) = Height
          /\ \A k \in 1 .. Height, i \in Columns :
               ms[k][i] = IF k = Height THEN Blank ELSE ls[k + 1][i]
      BY <1>1, <1>2, FeedIs
    <2>3. ASSUME NEW k \in 0 .. Height - 1, NEW i \in Columns
          PROVE  moved[Pos(k, i)] = ms[k + 1][i]
      <3>1. Pos(k, i) \in Cells /\ k + 1 \in 1 .. Height /\ k \in Nat /\ i \in Nat /\ i < Width
        BY PosInside, ScreenSizes DEF Columns
      <3>2. CASE k = Height - 1
        <4>1. Pos(k, i) = Width * (Height - 1) + i
          BY <3>1, <3>2, ScreenSizes DEF Pos
        <4>2. ~(Pos(k, i) < Width * (Height - 1))
          <5>1. Width * (Height - 1) \in Nat
            BY ScreenSizes
          <5> QED
            BY <3>1, <4>1, <5>1
        <4> QED
          BY <2>2, <3>1, <3>2, <4>2, ScreenSizes
      <3>3. CASE k < Height - 1
        <4>1. Width * (Height - 1) = k * Width + Width + (Height - 1 - k - 1) * Width
          BY <3>1, ScreenSizes
        <4>2. (Height - 1 - k - 1) * Width \in Nat /\ k * Width \in Nat
          BY <3>1, <3>3, ScreenSizes
        <4>3. Pos(k, i) < Width * (Height - 1)
          BY <3>1, <4>1, <4>2, ScreenSizes DEF Pos
        <4>4. Pos(k, i) + Width = Pos(k + 1, i)
          BY <3>1, <4>2, ScreenSizes DEF Pos
        <4>5. moved[Pos(k, i)] = b[Pos(k + 1, i)]
          BY <3>1, <4>3, <4>4
        <4>6. k + 1 \in 0 .. y /\ k + 1 # Height
          BY <1>1, <1>2, <3>1, <3>3, ScreenSizes
        <4>7. b[Pos(k + 1, i)] = ls[(k + 1) + 1][i]
          BY <1>1, <4>6
        <4> QED
          BY <2>2, <3>1, <4>5, <4>6, <4>7
      <3> QED
        BY <3>1, <3>2, <3>3, ScreenSizes
    <2>4. moved \in [Cells -> Nat]
      <3>1. ASSUME NEW i \in Cells, i < Width * (Height - 1) PROVE i + Width \in Cells
        <4>1. Width * Height = Width * (Height - 1) + Width /\ Width * (Height - 1) \in Nat
          BY ScreenSizes
        <4> QED
          BY <3>1, <4>1, ScreenSizes DEF Cells
      <3> QED
        BY <1>1, <3>1, ScreenSizes
    <2> HIDE DEF moved
    <2>5. Exact(moved, Height - 1, ms)
      <3>1. Height - 1 \in 0 .. Height - 1 /\ (Height - 1) + 1 = Height
        BY ScreenSizes
      <3>2. \A k \in (Height - 1) + 1 .. Height - 1 : FALSE
        BY ScreenSizes
      <3> QED
        BY <2>2, <2>3, <2>4, <3>1, <3>2 DEF Exact
    <2> QED
      BY <2>1, <2>5
  <1>3. CASE y + 1 < Height
    <2>1. u = con /\ u.buf = b /\ u.y = y + 1
      BY <1>1, <1>3, ScreenSizes DEF Scrolled
    <2>2. ms \in Seq(Line) /\ Len(ms) = (y + 1) + 1
          /\ \A k \in 1 .. (y + 1) + 1, i \in Columns :
               ms[k][i] = IF k = (y + 1) + 1 THEN Blank ELSE ls[k][i]
      BY <1>1, <1>3, FeedIs
    <2> HIDE DEF ms
    <2>3. ASSUME NEW k \in 0 .. y + 1, NEW i \in Columns PROVE b[Pos(k, i)] = ms[k + 1][i]
      <3>1. k + 1 \in 1 .. (y + 1) + 1 /\ (k \in 0 .. y \/ k = y + 1)
        BY <1>1
      <3>2. CASE k \in 0 .. y
        <4>1. k + 1 # (y + 1) + 1
          BY <1>1, <3>2
        <4> QED
          BY <1>1, <2>2, <3>1, <3>2, <4>1
      <3>3. CASE k = y + 1
        <4>1. k \in y + 1 .. Height - 1
          BY <1>1, <1>3, <3>3, ScreenSizes
        <4> QED
          BY <1>1, <2>2, <3>1, <3>3, <4>1
      <3> QED
        BY <3>1, <3>2, <3>3
    <2>4. \A k \in (y + 1) + 1 .. Height - 1, i \in Columns : b[Pos(k, i)] = Blank
      <3>1. \A k \in (y + 1) + 1 .. Height - 1 : k \in y + 1 .. Height - 1
        BY <1>1, ScreenSizes
      <3> QED
        BY <1>1, <3>1
    <2>5. Exact(b, y + 1, ms)
      <3>1. y + 1 \in 0 .. Height - 1
        BY <1>1, <1>3, ScreenSizes
      <3> QED
        BY <1>1, <2>2, <2>3, <2>4, <3>1 DEF Exact
    <2> QED
      BY <2>1, <2>5 DEF ms
  <1>4. y + 1 = Height \/ y + 1 < Height
    BY <1>1, ScreenSizes
  <1> QED
    BY <1>2, <1>3, <1>4

(* A line just fed has nothing under the cursor.                           *)
LEMMA FreshLine ==
  ASSUME NEW ls \in Seq(Line), Len(ls) \in 1 .. Height
  PROVE  Screen!InLine(0, Blank, Screen!Feed(ls)) = Screen!Feed(ls)
  <1> DEFINE ms == Screen!Feed(ls)
             ns == Screen!InLine(0, Blank, ms)
             n == Len(ms)
  <1>1. ms \in Seq(Line) /\ n \in Nat /\ n > 0 /\ \A i \in Columns : ms[n][i] = Blank
    <2>1. CASE Len(ls) = Height
      BY <2>1, FeedIs, ScreenSizes
    <2>2. CASE Len(ls) < Height
      BY <2>2, FeedIs, ScreenSizes
    <2> QED
      BY <2>1, <2>2, ScreenSizes
  <1> HIDE DEF ms
  <1>2. ns \in Seq(Line) /\ Len(ns) = n
        /\ \A k \in 1 .. n, i \in Columns : ns[k][i] = IF k = n /\ i = 0 THEN Blank ELSE ms[k][i]
    BY <1>1, InLineIs, ScreenSizes
  <1> HIDE DEF ns
  <1>3. ASSUME NEW k \in 1 .. n, NEW i \in Columns PROVE ns[k][i] = ms[k][i]
    BY <1>1, <1>2
  <1> HIDE DEF n
  <1>4. ns = ms
    BY <1>1, <1>2, <1>3, SameLines DEF n
  <1> QED
    BY <1>4 DEF ms, ns

(* The whole of putchar, by what was printed.                              *)
LEMMA PutcharShows ==
  ASSUME NEW con, Tidy(con), NEW c \in Nat
  PROVE  LET new == putchar(con, c)
             ls == LinesOf(con)
             typed == Screen!InLine(con.x, IF c = 0 THEN Question ELSE c, ls)
         IN /\ Tidy(new)
            /\ c = LF => LinesOf(new) = Screen!Feed(ls) /\ new.x = 0
            /\ c = CR => LinesOf(new) = Screen!InLine(0, Blank, ls) /\ new.x = 0
            /\ c \notin {LF, CR} =>
                 IF con.x = Width - 1 THEN LinesOf(new) = Screen!Feed(typed) /\ new.x = 0
                 ELSE LinesOf(new) = Screen!InLine(con.x + 1, Blank, typed) /\ new.x = con.x + 1
  <1> DEFINE new == putchar(con, c)
             ls == LinesOf(con)
             d == IF c = 0 THEN Question ELSE c
             typed == Screen!InLine(con.x, d, ls)
             erased == [con.buf EXCEPT ![Cursor(con)] = Blank]
             put == [con.buf EXCEPT ![Cursor(con)] = d]
  <1>1. con.x \in Columns /\ con.y \in 0 .. Height - 1 /\ con.x \in Nat /\ con.y \in Nat
    BY ScreenSizes DEF Tidy, Screens, Columns
  <1>2. Exact(erased, con.y, ls)
    BY PutExact, EraseSame, ScreenSizes
  <1>3. Exact(put, con.y, typed)
    BY PutExact, ScreenAssumption
  <1>4. LF # CR
    BY ScreenAssumption
  <1>5. ASSUME NEW b, NEW ms, Exact(b, con.y, ms)
        PROVE  LET u == Scrolled([buf |-> b, x |-> 0, y |-> con.y + 1])
               IN Tidy(Marked(u)) /\ LinesOf(Marked(u)) = Screen!Feed(ms) /\ Marked(u).x = 0
    <2> DEFINE u == Scrolled([buf |-> b, x |-> 0, y |-> con.y + 1])
    <2>1. u = [buf |-> u.buf, x |-> 0, y |-> u.y] /\ Exact(u.buf, u.y, Screen!Feed(ms))
      BY <1>5, ScrolledFeeds
    <2> HIDE DEF u
    <2>2. Tidy(u) /\ LinesOf(u) = Screen!InLine(0, Blank, Screen!Feed(ms))
      BY <2>1, PlaceCursor, ScreenSizes
    <2>3. Screen!InLine(0, Blank, Screen!Feed(ms)) = Screen!Feed(ms)
      <3>1. ms \in Seq(Line) /\ Len(ms) \in 1 .. Height
        BY <1>1, <1>5, ScreenSizes DEF Exact
      <3> QED
        BY <3>1, FreshLine
    <2>4. u.x = 0
      BY <2>1
    <2> QED
      BY <2>2, <2>3, <2>4, MarkedShows DEF u
  <1>6. ASSUME NEW b, NEW ms, Exact(b, con.y, ms), NEW x \in Columns
        PROVE  LET u == [buf |-> b, x |-> x, y |-> con.y]
               IN Tidy(Marked(u)) /\ LinesOf(Marked(u)) = Screen!InLine(x, Blank, ms)
                  /\ Marked(u).x = x
    BY <1>6, PlaceCursor, MarkedShows
  <1>7. con.y # Height /\ 0 # Width
    BY <1>1, ScreenSizes
  <1>8. CASE c = LF
    <2>1. new = Marked(Scrolled([buf |-> erased, x |-> 0, y |-> con.y + 1]))
      BY <1>7, <1>8 DEF putchar, Written, Wrapped
    <2> HIDE DEF new, erased, ls
    <2> QED
      BY <1>2, <1>4, <1>5, <1>8, <2>1 DEF new, ls
  <1>9. CASE c = CR
    <2>1. new = Marked([buf |-> erased, x |-> 0, y |-> con.y])
      BY <1>4, <1>7, <1>9 DEF putchar, Written, Wrapped, Scrolled
    <2> HIDE DEF new, erased, ls
    <2> QED
      BY <1>2, <1>4, <1>6, <1>9, <2>1, ScreenSizes DEF new, ls
  <1>10. CASE c \notin {LF, CR} /\ con.x = Width - 1
    <2>1. con.x + 1 = Width
      BY <1>1, <1>10, ScreenSizes
    <2>2. Written(con, c) = [buf |-> put, x |-> con.x + 1, y |-> con.y]
      BY <1>10 DEF Written
    <2> HIDE DEF put
    <2> DEFINE w == Written(con, c)
    <2> HIDE DEF w
    <2>3. w.x = Width /\ w.y = con.y /\ w.buf = put
      BY <2>1, <2>2 DEF w
    <2>4. new = Marked(Scrolled([buf |-> put, x |-> 0, y |-> con.y + 1]))
      BY <2>3 DEF putchar, Wrapped, w
    <2> HIDE DEF new, typed
    <2> QED
      BY <1>3, <1>5, <1>10, <2>4 DEF new, typed
  <1>11. CASE c \notin {LF, CR} /\ con.x # Width - 1
    <2>1. con.x + 1 # Width /\ con.x + 1 \in Columns
      BY <1>1, <1>11, ScreenSizes DEF Columns
    <2>2. Written(con, c) = [buf |-> put, x |-> con.x + 1, y |-> con.y]
      BY <1>11 DEF Written
    <2>3. new = Marked([buf |-> put, x |-> con.x + 1, y |-> con.y])
      BY <1>7, <2>1, <2>2 DEF putchar, Wrapped, Scrolled
    <2> HIDE DEF new, put, typed
    <2> QED
      BY <1>3, <1>6, <1>11, <2>1, <2>3 DEF new, typed
  <1> QED
    BY <1>8, <1>9, <1>10, <1>11

(* The screen the bus maps the console to is made of these lines.          *)
LEMMA MappedLines ==
  ASSUME NEW con
  PROVE  [k \in 1 .. con.y + 1 |->
            [i \in 0 .. Width - 1 |-> IF i = con.x /\ k - 1 = con.y THEN Blank
                                      ELSE con.buf[(k - 1) * Width + i]]] = LinesOf(con)
  BY DEF LinesOf, Columns, Pos

LEMMA NewTidy == Tidy(NewConsole) /\ LinesOf(NewConsole) = <<Screen!NewLine>>
  <1>1. NewConsole.buf \in [Cells -> Nat] /\ NewConsole.x = 0 /\ NewConsole.y = 0
        /\ NewConsole \in Screens(Width - 1, Height - 1)
    BY ScreenSizes DEF NewConsole, Screens
  <1>2. Below(NewConsole)
    <2>1. ASSUME NEW k \in 1 .. Height - 1, NEW i \in Columns
          PROVE  NewConsole.buf[Pos(k, i)] = Blank
      BY PosInside DEF NewConsole
    <2> QED
      BY <1>1, <2>1 DEF Below
  <1>3. LinesOf(NewConsole)[1] = Screen!NewLine
    <2>1. ASSUME NEW i \in Columns PROVE LinesOf(NewConsole)[0 + 1][i] = Blank
      <3>1. 0 \in 0 .. Height - 1 /\ 0 \in 0 .. 0
        BY ScreenSizes
      <3>2. NewConsole.buf[Pos(0, i)] = Blank
        BY <3>1, PosInside DEF NewConsole
      <3> QED
        BY <1>1, <3>1, <3>2, LinesOfSeq
    <2>2. LinesOf(NewConsole)[1] \in Line
      <3>1. 0 \in 0 .. Height - 1
        BY ScreenSizes
      <3> QED
        BY <1>1, <3>1, LinesOfSeq
    <2> QED
      BY <2>1, <2>2, BlankLine DEF Line
  <1>4. LinesOf(NewConsole) \in Seq(Line) /\ Len(LinesOf(NewConsole)) = 1
    <2>1. NewConsole.y \in 0 .. Height - 1
      BY <1>1, ScreenSizes
    <2>2. LinesOf(NewConsole) \in Seq(Line) /\ Len(LinesOf(NewConsole)) = NewConsole.y + 1
      BY <1>1, <2>1, LinesOfSeq
    <2> QED
      BY <1>1, <2>2
  <1> QED
    BY <1>1, <1>2, <1>3, <1>4 DEF Tidy

ConsoleTidy == Tidy(console)

(* What one access does to the console, and what the terminal does for it. *)
LEMMA StepShows ==
  ASSUME TypeOK, ConsoleTidy, NEW a \in Accesses, Cycle(a)
  PROVE  ConsoleTidy' /\ Screen!TermNext
  <1> DEFINE stores == a.op = "STORE" /\ a.region = "console"
             c == a_data(a)[0]
             ls == LinesOf(console)
             typed == Screen!InLine(console.x, IF c = 0 THEN Question ELSE c, ls)
  <1>1. C' = a /\ console' = IF stores THEN putchar(console, c) ELSE console
    BY DEF Cycle, ConsoleTick, tick, puts
  <1>2. a \in Access /\ c \in Nat
    BY BusAssumption, LowestByte
  <1>3. c = (IF a.offset % 4 = 0 THEN a.reg2[0] ELSE 0) /\ c \in Byte
    <2>1. lane(a) \in 0 .. 3 /\ 0 \in Lane /\ 0 \in Byte
      BY <1>2, AddressSplits, BusAssumption DEF Lane, Byte
    <2>2. c = IF 0 >= lane(a) THEN a.reg2[0 - lane(a)] ELSE 0
      BY <2>1 DEF a_data
    <2>3. a.reg2[0] \in Byte
      BY <1>2, <2>1 DEF Access, Word
    <2> QED
      BY <2>1, <2>2, <2>3 DEF lane
  <1> HIDE DEF c
  <1>4. Printed' = IF stores THEN c ELSE Nothing
    BY <1>1, <1>3 DEF Printed
  <1>5. /\ [k \in 1 .. console.y + 1 |->
              [i \in 0 .. Width - 1 |-> Shown(i, k - 1)]] = LinesOf(console)
        /\ [k \in 1 .. console.y + 1 |->
              [i \in 0 .. Width - 1 |-> Shown(i, k - 1)]]' = LinesOf(console')
    BY MappedLines DEF Shown
  <1>6. CASE ~stores
    <2>1. console' = console /\ Printed' = Nothing
      BY <1>1, <1>4, <1>6
    <2>2. Screen!Rest
      BY <1>5, <2>1 DEF Screen!Rest
    <2> QED
      BY <2>1, <2>2 DEF ConsoleTidy, Screen!TermNext
  <1>7. CASE stores
    <2>1. console' = putchar(console, c) /\ Printed' = c
      BY <1>1, <1>4, <1>7
    <2>2. /\ ConsoleTidy'
          /\ c = LF => LinesOf(console') = Screen!Feed(ls) /\ console'.x = 0
          /\ c = CR => LinesOf(console') = Screen!InLine(0, Blank, ls) /\ console'.x = 0
          /\ c \notin {LF, CR} =>
               IF console.x = Width - 1
               THEN LinesOf(console') = Screen!Feed(typed) /\ console'.x = 0
               ELSE LinesOf(console') = Screen!InLine(console.x + 1, Blank, typed)
                    /\ console'.x = console.x + 1
      BY <1>2, <2>1, PutcharShows DEF ConsoleTidy
    <2> HIDE DEF ls
    <2>3. CASE c = LF
      <3>1. Screen!LineFeed
        BY <1>5, <2>1, <2>2, <2>3 DEF Screen!LineFeed, ls
      <3> QED
        BY <2>2, <3>1 DEF Screen!TermNext
    <2>4. CASE c = CR
      <3>1. Screen!CarriageReturn
        BY <1>5, <2>1, <2>2, <2>4 DEF Screen!CarriageReturn, ls
      <3> QED
        BY <2>2, <3>1 DEF Screen!TermNext
    <2>5. CASE c \notin {LF, CR}
      <3>1. Screen!Type(c)
        BY <1>5, <2>1, <2>2, <2>5 DEF Screen!Type, ls
      <3> QED
        BY <1>3, <2>2, <2>5, <3>1 DEF Screen!TermNext
    <2> QED
      BY <2>3, <2>4, <2>5
  <1> QED
    BY <1>6, <1>7

LEMMA InitShows == Init => ConsoleTidy /\ Screen!TermInit
  <1> SUFFICES ASSUME Init PROVE ConsoleTidy /\ Screen!TermInit
    OBVIOUS
  <1>1. console = NewConsole /\ C = NoAccess
    BY DEF Init
  <1>2. [k \in 1 .. console.y + 1 |->
              [i \in 0 .. Width - 1 |-> Shown(i, k - 1)]] = LinesOf(console)
    BY MappedLines DEF Shown
  <1>3. Printed = Nothing /\ console.x = 0
    BY <1>1 DEF Printed, NoAccess, NewConsole
  <1> QED
    BY <1>1, <1>2, <1>3, NewTidy DEF ConsoleTidy, Screen!TermInit

LEMMA AlwaysTidy == Spec => []ConsoleTidy
  <1>1. TypeOK /\ ConsoleTidy /\ [Next]_busVars => ConsoleTidy'
    <2>1. TypeOK /\ ConsoleTidy /\ Next => ConsoleTidy'
      BY StepShows DEF Next
    <2>2. ConsoleTidy /\ UNCHANGED busVars => ConsoleTidy'
      BY DEF ConsoleTidy, busVars
    <2> QED
      BY <2>1, <2>2
  <1> QED
    BY InitShows, TypeCorrect, <1>1, PTL DEF Spec

(* The flat buffer shows what a terminal with its lines shows, for every   *)
(* size of the screen and every sequence of stores (console:28-71).        *)
THEOREM ConsoleIsTerminal == Spec => ImplementsTerminal
  <1>1. TypeOK /\ ConsoleTidy /\ [Next]_busVars => [Screen!TermNext]_(Screen!termVars)
    <2>1. TypeOK /\ ConsoleTidy /\ Next => Screen!TermNext
      BY StepShows DEF Next
    <2>2. UNCHANGED busVars => UNCHANGED Screen!termVars
      BY DEF busVars, Screen!termVars, Printed, Shown
    <2> QED
      BY <2>1, <2>2
  <1> QED
    BY InitShows, TypeCorrect, AlwaysTidy, <1>1, PTL DEF Spec, ImplementsTerminal, Screen!TermSpec

----------------------------------------------------------------------------
(* The glyph: nothing but the last statement of putchar writes it.         *)
Plain(con) ==
  /\ con.buf \in [Cells -> Nat] /\ con = [buf |-> con.buf, x |-> con.x, y |-> con.y]
  /\ \A i \in Cells : con.buf[i] # Glyph

OneGlyph(con) == \A i \in Cells : con.buf[i] = Glyph => i = Cursor(con)

LEMMA GlyphMoves ==
  ASSUME NEW con, con.buf \in [Cells -> Nat], OneGlyph(con),
         NEW c \in Byte, c # Glyph
  PROVE  OneGlyph(putchar(con, c))
  <1> DEFINE w == Written(con, c)
             v == Wrapped(w)
             u == Scrolled(v)
  <1>1. Glyph # Blank /\ Blank \in Nat /\ Question \in Nat /\ c \in Nat
        /\ Question # Glyph /\ c # Glyph
    BY ScreenAssumption, BusAssumption DEF Blank, Byte
  <1>2. ASSUME NEW d \in Nat, d # Glyph, NEW x, NEW y
        PROVE  Plain([buf |-> [con.buf EXCEPT ![Cursor(con)] = d], x |-> x, y |-> y])
    <2>1. \A i \in Cells : [con.buf EXCEPT ![Cursor(con)] = d][i] # Glyph
      BY <1>2 DEF OneGlyph
    <2> QED
      BY <2>1 DEF Plain
  <1>3. Plain(w)
    <2>1. CASE c = LF
      BY <1>1, <1>2, <2>1 DEF Written
    <2>2. CASE c # LF /\ c = CR
      BY <1>1, <1>2, <2>2 DEF Written
    <2>3. CASE c # LF /\ c # CR
      BY <1>1, <1>2, <2>3 DEF Written
    <2> QED
      BY <2>1, <2>2, <2>3
  <1> HIDE DEF w
  <1>4. Plain(v)
    <2>1. CASE w.x = Width
      BY <1>3, <2>1 DEF Wrapped, Plain
    <2>2. CASE w.x # Width
      BY <1>3, <2>2 DEF Wrapped
    <2> QED
      BY <2>1, <2>2
  <1> HIDE DEF v
  <1>5. Plain(u)
    <2>1. \A i \in Cells : i < Width * (Height - 1) => i + Width \in Cells
      <3>1. Width * Height = Width * (Height - 1) + Width /\ Width * (Height - 1) \in Nat
        BY ScreenSizes
      <3> QED
        BY <3>1, ScreenSizes DEF Cells
    <2>2. CASE v.y = Height
      <3> DEFINE b == [i \in Cells |-> IF i < Width * (Height - 1) THEN v.buf[i + Width] ELSE Blank]
      <3>1. u = [buf |-> b, x |-> v.x, y |-> Height - 1]
        BY <2>2 DEF Scrolled
      <3>2. b \in [Cells -> Nat] /\ \A i \in Cells : b[i] # Glyph
        BY <1>1, <1>4, <2>1 DEF Plain
      <3> HIDE DEF b, u
      <3> QED
        BY <3>1, <3>2 DEF Plain
    <2>3. CASE v.y # Height
      BY <1>4, <2>3 DEF Scrolled
    <2> QED
      BY <2>2, <2>3
  <1> HIDE DEF u
  <1>6. putchar(con, c) = [u EXCEPT !.buf = [u.buf EXCEPT ![Cursor(u)] = Glyph]]
    BY DEF putchar, Marked, u, v, w
  <1>7. /\ putchar(con, c).buf = [u.buf EXCEPT ![Cursor(u)] = Glyph]
        /\ putchar(con, c).x = u.x /\ putchar(con, c).y = u.y
    BY <1>5, <1>6 DEF Plain
  <1> QED
    BY <1>5, <1>7 DEF OneGlyph, Plain, Cursor

(* The cursor's line is the last one with text, and its glyph leaves no    *)
(* copy behind, however the text is printed and scrolled (console:28-71).  *)
THEOREM CursorIsTidy == Spec => []CursorInv
  <1> DEFINE Plainly == \A a \in Accesses : ~PrintsGlyph(a)
             G == Plainly => OneGlyph(console)
  <1>1. ASSUME TypeOK, G, NEW a \in Accesses, Cycle(a) PROVE G'
    <2>1. \/ console' = console
          \/ console' = putchar(console, a_data(a)[0]) /\ a.region = "console" /\ puts(a)
      BY <1>1 DEF Cycle, ConsoleTick, tick
    <2>2. a_data(a)[0] \in Byte
      <3>1. a \in Access
        BY BusAssumption
      <3>2. lane(a) \in Lane /\ 0 \in Lane /\ 0 \in Byte
        BY <3>1, AddressSplits, BusAssumption DEF Lane, Byte
      <3>3. a_data(a)[0] = IF 0 >= lane(a) THEN a.reg2[0 - lane(a)] ELSE 0
        BY <3>2 DEF a_data
      <3>4. a.reg2[0] \in Byte
        BY <3>1, <3>2 DEF Access, Word
      <3> QED
        BY <3>2, <3>3, <3>4 DEF Lane
    <2>3. console.buf \in [Cells -> Nat]
      BY <1>1 DEF TypeOK
    <2>4. SUFFICES ASSUME Plainly PROVE OneGlyph(console')
      BY DEF OneGlyph, Cells, Cursor, PrintsGlyph, puts, a_data, lane, Lane
    <2>5. CASE console' = console
      BY <1>1, <2>4, <2>5
    <2>6. CASE console' = putchar(console, a_data(a)[0]) /\ a.region = "console" /\ puts(a)
      <3>1. a_data(a)[0] # Glyph
        BY <1>1, <2>4, <2>6 DEF PrintsGlyph
      <3> QED
        BY <1>1, <2>2, <2>3, <2>4, <2>6, <3>1, GlyphMoves
    <2> QED
      BY <2>1, <2>5, <2>6
  <1>2. Init => G
    <2>1. Init => \A i \in Cells : console.buf[i] # Glyph
      BY ScreenAssumption DEF Init, NewConsole, Blank
    <2> QED
      BY <2>1 DEF OneGlyph
  <1>3. TypeOK /\ G /\ [Next]_busVars => G'
    <2>1. TypeOK /\ G /\ Next => G'
      BY <1>1 DEF Next
    <2>2. G /\ UNCHANGED busVars => G'
      BY DEF OneGlyph, Cells, Cursor, PrintsGlyph, puts, a_data, lane, Lane, busVars
    <2> QED
      BY <2>1, <2>2
  <1>4. ConsoleTidy /\ G => CursorInv
    BY DEF ConsoleTidy, Tidy, Below, Columns, Pos, OneGlyph, CursorInv, BelowBlank
  <1> HIDE DEF G
  <1> QED
    BY <1>2, <1>3, <1>4, TypeCorrect, AlwaysTidy, PTL DEF Spec
=============================================================================
