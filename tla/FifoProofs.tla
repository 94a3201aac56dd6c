----------------------------- MODULE FifoProofs -----------------------------
(* The FIFO operations keep the ring consistent and act on its contents as   *)
(* Append and Tail do on a queue, for every size up to 256.                  *)
EXTENDS Fifo, SequenceTheorems, TLAPS

LEMMA XorType ==
  ASSUME NEW x \in Byte, NEW y \in Byte
  PROVE  Xor(x, y) \in Byte
BY DEF Byte, Xor

LEMMA ChecksumType ==
  ASSUME NEW b1 \in Byte, NEW b2 \in Byte, NEW b3 \in Byte, NEW b4 \in Byte
  PROVE  MakeChecksum(b1, b2, b3, b4) \in Byte
BY XorType DEF MakeChecksum

-----------------------------------------------------------------------------
(* Indices.                                                                  *)

(* Reducing a sum of two indices modulo the size.                            *)
LEMMA ModIndex ==
  ASSUME NEW a \in 0 .. 2 * FIFO_SIZE - 1
  PROVE  a % FIFO_SIZE = IF a < FIFO_SIZE THEN a ELSE a - FIFO_SIZE
<1>1. FIFO_SIZE \in Nat \ {0}
  BY FifoAssumption
<1>2. CASE a < FIFO_SIZE
  BY <1>1, <1>2
<1>3. CASE a >= FIFO_SIZE
  <2>1. a - FIFO_SIZE \in 0..FIFO_SIZE-1
    BY <1>1, <1>3
  <2>2. a = FIFO_SIZE * 1 + (a - FIFO_SIZE)
    BY <1>1
  <2> QED BY <1>1, <1>3, <2>1, <2>2
<1> QED BY <1>1, <1>2, <1>3

(* The byte-wide increment and reduction is the step around the ring, even   *)
(* for a ring of 256 bytes, where the increment wraps first.                 *)
LEMMA SuccIndex ==
  ASSUME NEW i \in Index
  PROVE  Succ(i) = (IF i + 1 = FIFO_SIZE THEN 0 ELSE i + 1) /\ Succ(i) \in Index
<1>1. FIFO_SIZE \in Nat \ {0} /\ FIFO_SIZE <= 256 /\ i \in 0..FIFO_SIZE-1
  BY FifoAssumption DEF Index
<1>2. CASE i + 1 = 256
  <2>1. FIFO_SIZE = 256 /\ (i + 1) % 256 = 0
    BY <1>1, <1>2
  <2> QED BY <1>1, <1>2, <2>1 DEF Succ, Index
<1>3. CASE i + 1 < 256
  <2>1. (i + 1) % 256 = i + 1
    BY <1>1, <1>3
  <2>2. i + 1 \in 0 .. 2 * FIFO_SIZE - 1
    BY <1>1
  <2> QED BY <1>1, <2>1, <2>2, ModIndex DEF Succ, Index
<1> QED BY <1>1, <1>2, <1>3

(* One more byte moves the end of the ring one step.                         *)
LEMMA PutIndex ==
  ASSUME NEW start \in Index, NEW n \in 0..FIFO_SIZE-1
  PROVE  Succ((start + n) % FIFO_SIZE) = (start + (n + 1)) % FIFO_SIZE
<1>1. FIFO_SIZE \in Nat \ {0} /\ start \in 0..FIFO_SIZE-1
  BY FifoAssumption DEF Index
<1> DEFINE sum == start + n
           more == start + (n + 1)
<1>2. /\ sum \in 0 .. 2 * FIFO_SIZE - 1 /\ more \in 0 .. 2 * FIFO_SIZE - 1
      /\ more = sum + 1
  BY <1>1
<1> HIDE DEF sum, more
<1>3. /\ sum % FIFO_SIZE = IF sum < FIFO_SIZE THEN sum ELSE sum - FIFO_SIZE
      /\ more % FIFO_SIZE = IF more < FIFO_SIZE THEN more ELSE more - FIFO_SIZE
  BY <1>2, ModIndex
<1>4. sum % FIFO_SIZE \in Index
  BY <1>1, <1>2, <1>3 DEF Index
<1>5. Succ(sum % FIFO_SIZE)
        = IF (sum % FIFO_SIZE) + 1 = FIFO_SIZE THEN 0 ELSE (sum % FIFO_SIZE) + 1
  BY <1>4, SuccIndex
<1>6. Succ(sum % FIFO_SIZE) = more % FIFO_SIZE
  BY <1>1, <1>2, <1>3, <1>5
<1> QED BY <1>6 DEF sum, more

(* One byte less moves the start of the ring and leaves the end.             *)
LEMMA GetIndex ==
  ASSUME NEW start \in Index, NEW n \in 1..FIFO_SIZE
  PROVE  (start + n) % FIFO_SIZE = (Succ(start) + (n - 1)) % FIFO_SIZE
<1>1. FIFO_SIZE \in Nat \ {0} /\ start \in 0..FIFO_SIZE-1
  BY FifoAssumption DEF Index
<1>2. Succ(start) = IF start + 1 = FIFO_SIZE THEN 0 ELSE start + 1
  BY SuccIndex
<1> DEFINE sum == start + n
           rest == Succ(start) + (n - 1)
<1>3. /\ sum \in 0 .. 2 * FIFO_SIZE - 1 /\ rest \in 0 .. 2 * FIFO_SIZE - 1
      /\ rest = IF start + 1 = FIFO_SIZE THEN sum - FIFO_SIZE ELSE sum
  BY <1>1, <1>2
<1>4. start + 1 = FIFO_SIZE => sum >= FIFO_SIZE /\ rest < FIFO_SIZE
  BY <1>1, <1>2
<1> HIDE DEF sum, rest
<1>5. /\ sum % FIFO_SIZE = IF sum < FIFO_SIZE THEN sum ELSE sum - FIFO_SIZE
      /\ rest % FIFO_SIZE = IF rest < FIFO_SIZE THEN rest ELSE rest - FIFO_SIZE
  BY <1>3, ModIndex
<1>6. sum % FIFO_SIZE = rest % FIFO_SIZE
  BY <1>1, <1>3, <1>4, <1>5
<1> QED BY <1>6 DEF sum, rest

-----------------------------------------------------------------------------
(* Consistency.                                                              *)

LEMMA EmptyFifoOK == FifoOK(EmptyFifo)
<1>1. FIFO_SIZE \in Nat \ {0}
  BY FifoAssumption
<1>2. Zero \in Byte
  BY DEF Zero, Byte
<1> QED BY <1>1, <1>2, ModIndex DEF FifoOK, FifoType, EmptyFifo, Index

LEMMA PutOK ==
  ASSUME NEW fifo, FifoOK(fifo), NEW data \in Byte
  PROVE  FifoOK(Put(fifo, data))
<1>1. CASE ~HasRoom(fifo)
  BY <1>1 DEF Put
<1>2. CASE HasRoom(fifo)
  <2> DEFINE new == Put(fifo, data)
  <2>1. FIFO_SIZE \in Nat \ {0}
    BY FifoAssumption
  <2>2. /\ fifo.Start \in 0..FIFO_SIZE-1 /\ fifo.End \in 0..FIFO_SIZE-1
        /\ fifo.NbBytes \in 0..FIFO_SIZE-1
        /\ fifo.Buffer \in [Index -> Byte]
        /\ fifo.End = (fifo.Start + fifo.NbBytes) % FIFO_SIZE
    BY <1>2, <2>1 DEF FifoOK, FifoType, Index, HasRoom
  <2>3. /\ new.Start = fifo.Start /\ new.End = Succ(fifo.End)
        /\ new.NbBytes = fifo.NbBytes + 1
        /\ new.Buffer = [fifo.Buffer EXCEPT ![fifo.End] = data]
    BY <1>2 DEF Put
  <2>4. new \in FifoType
    BY <1>2, <2>1, <2>2, SuccIndex DEF Put, FifoType, Index
  <2>5. Succ(fifo.End) = (fifo.Start + (fifo.NbBytes + 1)) % FIFO_SIZE
    BY <2>2, PutIndex DEF Index
  <2> QED BY <2>2, <2>3, <2>4, <2>5 DEF FifoOK
<1> QED BY <1>1, <1>2

LEMMA GetOK ==
  ASSUME NEW fifo, FifoOK(fifo)
  PROVE  FifoOK(Get(fifo))
<1>1. CASE ~HasData(fifo)
  BY <1>1 DEF Get
<1>2. CASE HasData(fifo)
  <2> DEFINE new == Get(fifo)
  <2>1. FIFO_SIZE \in Nat \ {0}
    BY FifoAssumption
  <2>2. /\ fifo.Start \in 0..FIFO_SIZE-1 /\ fifo.End \in 0..FIFO_SIZE-1
        /\ fifo.NbBytes \in 1..FIFO_SIZE
        /\ fifo.Buffer \in [Index -> Byte]
        /\ fifo.End = (fifo.Start + fifo.NbBytes) % FIFO_SIZE
    BY <1>2, <2>1 DEF FifoOK, FifoType, Index, HasData
  <2>3. /\ new.Start = Succ(fifo.Start) /\ new.End = fifo.End
        /\ new.NbBytes = fifo.NbBytes - 1 /\ new.Buffer = fifo.Buffer
    BY <1>2 DEF Get
  <2>4. Succ(fifo.Start) \in Index
    BY <2>2, SuccIndex DEF Index
  <2>5. new \in FifoType
    BY <1>2, <2>1, <2>2, <2>4 DEF Get, FifoType, Index
  <2>6. fifo.End = (Succ(fifo.Start) + (fifo.NbBytes - 1)) % FIFO_SIZE
    BY <2>2, GetIndex DEF Index
  <2> QED BY <2>3, <2>5, <2>6 DEF FifoOK
<1> QED BY <1>1, <1>2

LEMMA OldestType ==
  ASSUME NEW fifo, FifoOK(fifo)
  PROVE  Oldest(fifo) \in Byte
BY DEF FifoOK, FifoType, Oldest

-----------------------------------------------------------------------------
(* Contents.                                                                 *)

(* The bytes held form a sequence of bytes, one for each counted.            *)
LEMMA ContentsType ==
  ASSUME NEW fifo, FifoOK(fifo)
  PROVE  /\ Contents(fifo) \in Seq(Byte)
         /\ Len(Contents(fifo)) = fifo.NbBytes
         /\ fifo.NbBytes \in 0..FIFO_SIZE
         /\ \A i \in 1..fifo.NbBytes :
              Contents(fifo)[i] = fifo.Buffer[(fifo.Start + (i - 1)) % FIFO_SIZE]
<1>1. /\ FIFO_SIZE \in Nat \ {0}
      /\ fifo.Start \in 0..FIFO_SIZE-1 /\ fifo.NbBytes \in 0..FIFO_SIZE
      /\ fifo.Buffer \in [Index -> Byte]
  BY FifoAssumption DEF FifoOK, FifoType, Index
<1> DEFINE n == fifo.NbBytes
           slot(i) == (fifo.Start + i - 1) % FIFO_SIZE
<1>2. n \in Nat
  BY <1>1
<1>3. \A i \in 1..n : slot(i) \in Index
  BY <1>1 DEF Index
<1>4. Contents(fifo) \in [1..n -> Byte]
  BY <1>1, <1>3 DEF Contents
<1>5. Contents(fifo) \in Seq(Byte)
  BY <1>2, <1>4, SeqDef
<1>6. Len(Contents(fifo)) = n
  <2>1. DOMAIN Contents(fifo) = 1..n
    BY <1>4
  <2>2. DOMAIN Contents(fifo) = 1..Len(Contents(fifo)) /\ Len(Contents(fifo)) \in Nat
    BY <1>5, LenProperties
  <2> QED BY <1>2, <2>1, <2>2
<1>7. \A i \in 1..n : fifo.Start + i - 1 = fifo.Start + (i - 1)
  BY <1>1
<1> QED BY <1>1, <1>5, <1>6, <1>7 DEF Contents

(* Put appends the byte to the contents of a FIFO that has room.             *)
LEMMA PutAppends ==
  ASSUME NEW fifo, FifoOK(fifo), HasRoom(fifo), NEW data \in Byte
  PROVE  Contents(Put(fifo, data)) = Append(Contents(fifo), data)
<1> DEFINE n == fifo.NbBytes
           new == Put(fifo, data)
<1>1. /\ FIFO_SIZE \in Nat \ {0}
      /\ fifo.Start \in 0..FIFO_SIZE-1 /\ n \in 0..FIFO_SIZE-1
      /\ fifo.Buffer \in [Index -> Byte] /\ fifo.End \in Index
      /\ fifo.End = (fifo.Start + n) % FIFO_SIZE
  BY FifoAssumption DEF FifoOK, FifoType, Index, HasRoom
<1>2. /\ new.Start = fifo.Start /\ new.NbBytes = n + 1
      /\ new.Buffer = [fifo.Buffer EXCEPT ![fifo.End] = data]
  BY DEF Put
<1>3. FifoOK(new)
  BY PutOK
<1> HIDE DEF new
<1>4. /\ Contents(fifo) \in Seq(Byte) /\ Len(Contents(fifo)) = n
      /\ \A i \in 1..n :
           Contents(fifo)[i] = fifo.Buffer[(fifo.Start + (i - 1)) % FIFO_SIZE]
  BY ContentsType
<1>5. /\ Contents(new) \in Seq(Byte) /\ Len(Contents(new)) = n + 1
      /\ \A i \in 1..n+1 :
           Contents(new)[i] = new.Buffer[(fifo.Start + (i - 1)) % FIFO_SIZE]
  <2>1. /\ Contents(new) \in Seq(Byte) /\ Len(Contents(new)) = new.NbBytes
        /\ \A i \in 1..new.NbBytes :
             Contents(new)[i] = new.Buffer[(new.Start + (i - 1)) % FIFO_SIZE]
    BY <1>3, ContentsType
  <2>2. new.NbBytes = n + 1 /\ new.Start = fifo.Start
    BY <1>2
  <2> HIDE DEF n
  <2> QED BY <2>1, <2>2
<1>6. /\ Append(Contents(fifo), data) \in Seq(Byte)
      /\ Len(Append(Contents(fifo), data)) = n + 1
      /\ \A i \in 1..n : Append(Contents(fifo), data)[i] = Contents(fifo)[i]
      /\ Append(Contents(fifo), data)[n+1] = data
  BY <1>4, AppendProperties
<1>7. ASSUME NEW i \in 1..n
      PROVE  /\ (fifo.Start + (i - 1)) % FIFO_SIZE \in Index
             /\ (fifo.Start + (i - 1)) % FIFO_SIZE # fifo.End
  <2> DEFINE here == fifo.Start + (i - 1)
             past == fifo.Start + n
  <2>1. /\ here \in 0 .. 2 * FIFO_SIZE - 1 /\ past \in 0 .. 2 * FIFO_SIZE - 1
        /\ here < past /\ past - here < FIFO_SIZE
    BY <1>1
  <2>2. fifo.End = past % FIFO_SIZE
    BY <1>1
  <2> HIDE DEF here, past
  <2>3. /\ here % FIFO_SIZE = IF here < FIFO_SIZE THEN here ELSE here - FIFO_SIZE
        /\ past % FIFO_SIZE = IF past < FIFO_SIZE THEN past ELSE past - FIFO_SIZE
    BY <2>1, ModIndex
  <2>4. FIFO_SIZE \in Nat \ {0}
    BY <1>1
  <2>5. here % FIFO_SIZE \in Index
    BY <2>1, <2>3, <2>4 DEF Index
  <2>6. here % FIFO_SIZE # past % FIFO_SIZE
    BY <2>1, <2>3, <2>4
  <2>7. here % FIFO_SIZE \in Index /\ here % FIFO_SIZE # fifo.End
    BY <2>2, <2>5, <2>6
  <2> QED BY <2>7 DEF here
<1>8. \A i \in 1..n+1 : Contents(new)[i] = Append(Contents(fifo), data)[i]
  <2>1. ASSUME NEW i \in 1..n
        PROVE  Contents(new)[i] = Append(Contents(fifo), data)[i]
    <3>1. Contents(new)[i] = new.Buffer[(fifo.Start + (i - 1)) % FIFO_SIZE]
      BY <1>1, <1>5
    <3>2. new.Buffer[(fifo.Start + (i - 1)) % FIFO_SIZE]
            = fifo.Buffer[(fifo.Start + (i - 1)) % FIFO_SIZE]
      BY <1>1, <1>2, <1>7
    <3> QED BY <1>4, <1>6, <3>1, <3>2
  <2>2. Contents(new)[n+1] = data
    <3>1. Contents(new)[n+1] = new.Buffer[(fifo.Start + ((n + 1) - 1)) % FIFO_SIZE]
      BY <1>1, <1>5
    <3>2. fifo.Start + ((n + 1) - 1) = fifo.Start + n
      BY <1>1
    <3> QED BY <1>1, <1>2, <3>1, <3>2
  <2> QED BY <1>1, <1>6, <2>1, <2>2
<1>9. Contents(new) = Append(Contents(fifo), data)
  BY <1>5, <1>6, <1>8, SeqEqual
<1> QED BY <1>9 DEF new

(* Get drops the first byte of the contents, which is the one it returns.    *)
LEMMA GetRemoves ==
  ASSUME NEW fifo, FifoOK(fifo), HasData(fifo)
  PROVE  /\ Contents(fifo) # <<>>
         /\ Oldest(fifo) = Head(Contents(fifo))
         /\ Contents(Get(fifo)) = Tail(Contents(fifo))
<1> DEFINE n == fifo.NbBytes
           new == Get(fifo)
<1>1. /\ FIFO_SIZE \in Nat \ {0}
      /\ fifo.Start \in Index /\ fifo.Start \in 0..FIFO_SIZE-1 /\ n \in 1..FIFO_SIZE
  BY FifoAssumption DEF FifoOK, FifoType, Index, HasData
<1>2. /\ new.Start = Succ(fifo.Start) /\ new.NbBytes = n - 1
      /\ new.Buffer = fifo.Buffer
  BY DEF Get
<1>3. FifoOK(new)
  BY GetOK
<1> HIDE DEF new
<1>4. /\ Contents(fifo) \in Seq(Byte) /\ Len(Contents(fifo)) = n
      /\ \A i \in 1..n :
           Contents(fifo)[i] = fifo.Buffer[(fifo.Start + (i - 1)) % FIFO_SIZE]
  BY ContentsType
<1>5. /\ Contents(new) \in Seq(Byte) /\ Len(Contents(new)) = n - 1
      /\ \A i \in 1..n-1 :
           Contents(new)[i] = fifo.Buffer[(Succ(fifo.Start) + (i - 1)) % FIFO_SIZE]
  BY <1>2, <1>3, ContentsType
<1>6. Contents(fifo) # <<>>
  BY <1>1, <1>4, EmptySeq
<1>7. /\ Tail(Contents(fifo)) \in Seq(Byte)
      /\ Len(Tail(Contents(fifo))) = n - 1
      /\ \A i \in 1..n-1 : Tail(Contents(fifo))[i] = Contents(fifo)[i+1]
  BY <1>4, <1>6, HeadTailProperties
<1>8. \A i \in 1..n-1 : Contents(new)[i] = Tail(Contents(fifo))[i]
  <2>1. SUFFICES ASSUME NEW i \in 1..n-1
                 PROVE  Contents(new)[i] = Tail(Contents(fifo))[i]
    OBVIOUS
  <2>2. i \in 1..FIFO_SIZE /\ i + 1 \in 1..n /\ (i + 1) - 1 = i
    BY <1>1
  <2>3. (fifo.Start + i) % FIFO_SIZE = (Succ(fifo.Start) + (i - 1)) % FIFO_SIZE
    BY <1>1, <2>2, GetIndex
  <2>4. Contents(fifo)[i+1] = fifo.Buffer[(fifo.Start + i) % FIFO_SIZE]
    BY <1>4, <2>2
  <2> QED BY <1>5, <1>7, <2>3, <2>4
<1>9. Contents(new) = Tail(Contents(fifo))
  BY <1>5, <1>7, <1>8, SeqEqual
<1>10. Oldest(fifo) = Head(Contents(fifo))
  <2>1. Contents(fifo)[1] = fifo.Buffer[(fifo.Start + (1 - 1)) % FIFO_SIZE]
    BY <1>1, <1>4
  <2>2. fifo.Start + (1 - 1) = fifo.Start /\ fifo.Start % FIFO_SIZE = fifo.Start
    BY <1>1
  <2>3. Head(Contents(fifo)) = Contents(fifo)[1]
    BY <1>4, <1>6
  <2> QED BY <2>1, <2>2, <2>3 DEF Oldest
<1> QED BY <1>6, <1>9, <1>10 DEF new

(* Nothing is queued at power-on.                                            *)
LEMMA EmptyContents == Contents(EmptyFifo) = <<>>
<1>1. FifoOK(EmptyFifo) /\ EmptyFifo.NbBytes = 0
  BY EmptyFifoOK DEF EmptyFifo
<1>2. Contents(EmptyFifo) \in Seq(Byte) /\ Len(Contents(EmptyFifo)) = 0
  BY <1>1, ContentsType
<1> QED BY <1>2, EmptySeq
=============================================================================
