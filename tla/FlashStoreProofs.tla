-------------------------- MODULE FlashStoreProofs --------------------------
(* Proofs about FlashStore for every set of settings, whatever earlier runs  *)
(* left in the sector, and with or without refused commands.                 *)
EXTENDS FlashStore, SequenceTheorems, TLAPS

-----------------------------------------------------------------------------
(* The read-modify-write chain.                                              *)

(* What is read of the sector beside a datum.                                *)
LEMMA HeldBytes ==
  ASSUME sector \in Sector,
         NEW a \in 0..7, NEW n \in 1..4, a + n <= 8
  PROVE  /\ Held(a, n) \in Seq(Byte) /\ Len(Held(a, n)) = n
         /\ \A i \in 1..n : Held(a, n)[i] = sector[a + i]
<1>1. \A i \in a+1 .. a+n : sector[i] \in Byte
  BY DEF Sector, NB_BYTES
<1>2. a + 1 \in Int /\ a + n \in Int /\ a \in Int
  OBVIOUS
<1>3. /\ SubSeq(sector, a + 1, a + n) \in Seq(Byte)
      /\ Len(SubSeq(sector, a + 1, a + n))
           = IF a + 1 <= a + n THEN (a + n) - (a + 1) + 1 ELSE 0
      /\ \A i \in 1 .. (a + n) - (a + 1) + 1 :
           SubSeq(sector, a + 1, a + n)[i] = sector[a + 1 + i - 1]
  BY <1>1, <1>2, SubSeqProperties
<1>4. \A i \in 1..n : a + 1 + i - 1 = a + i
  BY <1>2
<1>5. (a + n) - (a + 1) + 1 = n /\ (a + 1 <= a + n <=> n # 0)
  BY <1>2
<1> QED BY <1>3, <1>4, <1>5 DEF Held

LEMMA HeldByte ==
  ASSUME sector \in Sector, NEW a \in 0..7
  PROVE  /\ Held(a, 1) \in Seq(Byte) /\ Len(Held(a, 1)) = 1
         /\ Held(a, 1)[1] = sector[a + 1]
<1>1. 1 \in 1..4 /\ a + 1 <= 8
  OBVIOUS
<1>2. /\ Held(a, 1) \in Seq(Byte) /\ Len(Held(a, 1)) = 1
      /\ \A i \in 1..1 : Held(a, 1)[i] = sector[a + i]
  BY <1>1, HeldBytes
<1> QED BY <1>2

(* Write32 leaves the other half of the phrase as it is.                     *)
LEMMA Phrase32Keeps ==
  ASSUME sector \in Sector,
         NEW a \in {0, 4}, NEW word \in Seq(Byte), Len(word) = 4
  PROVE  /\ Phrase32(a, word) \in Seq(Byte) /\ Len(Phrase32(a, word)) = 8
         /\ \A i \in 1..8 : Phrase32(a, word)[i] =
              IF i \in a+1..a+4 THEN word[i - a] ELSE sector[i]
<1>1. CASE a = 0
  <2>1. /\ Held(4, 4) \in Seq(Byte) /\ Len(Held(4, 4)) = 4
        /\ \A i \in 1..4 : Held(4, 4)[i] = sector[4 + i]
    BY HeldBytes
  <2>2. Phrase32(a, word) = word \o Held(4, 4)
    BY <1>1 DEF Phrase32
  <2>3. /\ word \o Held(4, 4) \in Seq(Byte) /\ Len(word \o Held(4, 4)) = 8
        /\ \A i \in 1..8 : (word \o Held(4, 4))[i] =
             IF i <= 4 THEN word[i] ELSE Held(4, 4)[i - 4]
    <3> DEFINE rest == Held(4, 4)
    <3> HIDE DEF rest
    <3>1. rest \in Seq(Byte) /\ Len(rest) = 4
      BY <2>1 DEF rest
    <3>2. /\ word \o rest \in Seq(Byte) /\ Len(word \o rest) = 8
          /\ \A i \in 1..8 : (word \o rest)[i] =
               IF i <= 4 THEN word[i] ELSE rest[i - 4]
      <4>1. /\ word \o rest \in Seq(Byte)
            /\ Len(word \o rest) = Len(word) + Len(rest)
            /\ \A i \in 1..Len(word) + Len(rest) : (word \o rest)[i] =
                 IF i <= Len(word) THEN word[i] ELSE rest[i - Len(word)]
        BY <3>1, ConcatProperties
      <4>2. Len(word) + Len(rest) = 8
        BY <3>1
      <4> QED BY <3>1, <4>1, <4>2
    <3> QED BY <3>2 DEF rest
  <2>4. ASSUME NEW i \in 1..8
        PROVE  Phrase32(a, word)[i] = IF i \in 1..4 THEN word[i] ELSE sector[i]
    BY <2>1, <2>2, <2>3
  <2>5. ASSUME NEW i \in 1..8
        PROVE  Phrase32(a, word)[i] =
                 IF i \in a+1..a+4 THEN word[i - a] ELSE sector[i]
    <3>1. (i \in a+1..a+4 <=> i \in 1..4) /\ i - a = i
      BY <1>1
    <3> QED BY <2>4, <3>1
  <2> QED BY <2>2, <2>3, <2>5
<1>2. CASE a = 4
  <2>1. /\ Held(0, 4) \in Seq(Byte) /\ Len(Held(0, 4)) = 4
        /\ \A i \in 1..4 : Held(0, 4)[i] = sector[0 + i]
    BY HeldBytes
  <2>2. Phrase32(a, word) = Held(0, 4) \o word
    BY <1>2 DEF Phrase32
  <2>3. /\ Held(0, 4) \o word \in Seq(Byte) /\ Len(Held(0, 4) \o word) = 8
        /\ \A i \in 1..8 : (Held(0, 4) \o word)[i] =
             IF i <= 4 THEN Held(0, 4)[i] ELSE word[i - 4]
    BY <2>1, ConcatProperties
  <2>4. ASSUME NEW i \in 1..8
        PROVE  Phrase32(a, word)[i] = IF i \in 5..8 THEN word[i - 4] ELSE sector[i]
    BY <2>1, <2>2, <2>3
  <2>5. ASSUME NEW i \in 1..8
        PROVE  Phrase32(a, word)[i] =
                 IF i \in a+1..a+4 THEN word[i - a] ELSE sector[i]
    <3>1. (i \in a+1..a+4 <=> i \in 5..8) /\ i - a = i - 4
      BY <1>2
    <3> QED BY <2>4, <3>1
  <2> QED BY <2>2, <2>3, <2>5
<1> QED BY <1>1, <1>2

(* Write16 leaves the other six bytes as they are.                           *)
LEMMA Phrase16Keeps ==
  ASSUME sector \in Sector,
         NEW a \in {0, 2, 4, 6}, NEW half \in Seq(Byte), Len(half) = 2
  PROVE  /\ Phrase16(a, half) \in Seq(Byte) /\ Len(Phrase16(a, half)) = 8
         /\ \A i \in 1..8 : Phrase16(a, half)[i] =
              IF i \in a+1..a+2 THEN half[i - a] ELSE sector[i]
<1>1. CASE a \in {0, 4}
  <2> DEFINE word == half \o Held(a + 2, 2)
  <2>1. /\ Held(a + 2, 2) \in Seq(Byte) /\ Len(Held(a + 2, 2)) = 2
        /\ \A i \in 1..2 : Held(a + 2, 2)[i] = sector[a + 2 + i]
    BY <1>1, HeldBytes
  <2>2. /\ word \in Seq(Byte) /\ Len(word) = 4
        /\ \A i \in 1..4 : word[i] = IF i <= 2 THEN half[i] ELSE sector[a + i]
    BY <1>1, <2>1, ConcatProperties
  <2>3. Phrase16(a, half) = Phrase32(a, word)
    BY <1>1 DEF Phrase16
  <2> HIDE DEF word
  <2>4. /\ Phrase32(a, word) \in Seq(Byte) /\ Len(Phrase32(a, word)) = 8
        /\ \A i \in 1..8 : Phrase32(a, word)[i] =
             IF i \in a+1..a+4 THEN word[i - a] ELSE sector[i]
    BY <1>1, <2>2, Phrase32Keeps
  <2> QED BY <1>1, <2>2, <2>3, <2>4
<1>2. CASE a \in {2, 6}
  <2> DEFINE b == a - 2
             word == Held(b, 2) \o half
  <2>1. /\ Held(b, 2) \in Seq(Byte) /\ Len(Held(b, 2)) = 2
        /\ \A i \in 1..2 : Held(b, 2)[i] = sector[b + i]
    BY <1>2, HeldBytes
  <2>2. /\ word \in Seq(Byte) /\ Len(word) = 4
        /\ \A i \in 1..4 : word[i] = IF i <= 2 THEN sector[b + i] ELSE half[i - 2]
    BY <1>2, <2>1, ConcatProperties
  <2>3. Phrase16(a, half) = Phrase32(b, word)
    BY <1>2 DEF Phrase16
  <2> HIDE DEF word
  <2>4. b \in {0, 4}
    BY <1>2
  <2> HIDE DEF b
  <2>5. /\ Phrase32(b, word) \in Seq(Byte) /\ Len(Phrase32(b, word)) = 8
        /\ \A i \in 1..8 : Phrase32(b, word)[i] =
             IF i \in b+1..b+4 THEN word[i - b] ELSE sector[i]
    BY <2>2, <2>4, Phrase32Keeps
  <2> USE DEF b
  <2> QED BY <1>2, <2>2, <2>3, <2>5
<1> QED BY <1>1, <1>2

(* Write8 writes its byte and leaves the other seven as they are, whatever   *)
(* the offset: the chain completes the datum from the right side each time.  *)
LEMMA Phrase8Keeps ==
  ASSUME sector \in Sector, NEW a \in Offset, NEW byte \in Byte
  PROVE  Phrase8(a, byte) = [sector EXCEPT ![a + 1] = byte]
<1>1. <<byte>> \in Seq(Byte) /\ Len(<<byte>>) = 1 /\ <<byte>>[1] = byte
  OBVIOUS
<1>2. a \in 0..7
  BY DEF Offset, NB_BYTES
<1>3. /\ Phrase8(a, byte) \in Seq(Byte) /\ Len(Phrase8(a, byte)) = 8
      /\ \A i \in 1..8 : Phrase8(a, byte)[i] = IF i = a + 1 THEN byte ELSE sector[i]
  <2>1. CASE a \in {0, 2, 4, 6}
    <3> DEFINE half == <<byte>> \o Held(a + 1, 1)
    <3>1. /\ Held(a + 1, 1) \in Seq(Byte) /\ Len(Held(a + 1, 1)) = 1
          /\ Held(a + 1, 1)[1] = sector[a + 2]
      <4>1. a + 1 \in 0..7 /\ (a + 1) + 1 = a + 2
        BY <2>1
      <4> QED BY <4>1, HeldByte
    <3>2. /\ half \in Seq(Byte) /\ Len(half) = 2
          /\ half[1] = byte /\ half[2] = sector[a + 2]
      BY <1>1, <3>1, ConcatProperties
    <3>3. Phrase8(a, byte) = Phrase16(a, half)
      BY <2>1 DEF Phrase8
    <3> HIDE DEF half
    <3>4. /\ Phrase16(a, half) \in Seq(Byte) /\ Len(Phrase16(a, half)) = 8
          /\ \A i \in 1..8 : Phrase16(a, half)[i] =
               IF i \in a+1..a+2 THEN half[i - a] ELSE sector[i]
      BY <2>1, <3>2, Phrase16Keeps
    <3> QED BY <2>1, <3>2, <3>3, <3>4
  <2>2. CASE a \in {1, 3, 5, 7}
    <3> DEFINE b == a - 1
               half == Held(b, 1) \o <<byte>>
    <3>1. /\ Held(b, 1) \in Seq(Byte) /\ Len(Held(b, 1)) = 1
          /\ Held(b, 1)[1] = sector[b + 1]
      <4>1. b \in 0..7
        BY <2>2
      <4> HIDE DEF b
      <4> QED BY <4>1, HeldByte
    <3>2. /\ half \in Seq(Byte) /\ Len(half) = 2
          /\ half[1] = sector[b + 1] /\ half[2] = byte
      BY <1>1, <3>1, ConcatProperties
    <3>3. Phrase8(a, byte) = Phrase16(b, half)
      BY <2>2 DEF Phrase8
    <3> HIDE DEF half
    <3>4. /\ Phrase16(b, half) \in Seq(Byte) /\ Len(Phrase16(b, half)) = 8
          /\ \A i \in 1..8 : Phrase16(b, half)[i] =
               IF i \in b+1..b+2 THEN half[i - b] ELSE sector[i]
      BY <2>2, <3>2, Phrase16Keeps
    <3> QED BY <2>2, <3>2, <3>3, <3>4
  <2> QED BY <1>2, <2>1, <2>2
<1>4. sector \in [1..8 -> Byte]
  BY DEF Sector, NB_BYTES
<1>5. Phrase8(a, byte) \in [1..8 -> Byte]
  BY <1>3, LenProperties
<1>6. \A i \in 1..8 : Phrase8(a, byte)[i] = [sector EXCEPT ![a + 1] = byte][i]
  BY <1>2, <1>3, <1>4
<1> DEFINE p == Phrase8(a, byte)
           q == [sector EXCEPT ![a + 1] = byte]
<1>7. q = [i \in 1..8 |-> q[i]] /\ p = [i \in 1..8 |-> p[i]]
  BY <1>4, <1>5
<1> QED BY <1>6, <1>7

-----------------------------------------------------------------------------
(* The inductive invariant.                                                  *)

(* Where the two variables are: AllocateVar finds them the same place after  *)
(* every start, and the write of the setting never clears its success flag.  *)
Placed ==
  IF pc = "Boot"
    THEN FlashSector0 = {} /\ setting = None /\ nBTrip = None /\ success = FALSE
    ELSE FlashSector0 = {0, 2, 3} /\ setting = 0 /\ nBTrip = 2 /\ success = TRUE

(* The controller works only for a write in progress, and an error that a    *)
(* refused command leaves is not forgotten.                                  *)
Quiet ==
  /\ pc \in {"Boot", "Idle"} => CCIF = TRUE
  /\ ~dirty => ERR = FALSE

(* How far the write in progress has come.                                   *)
Underway ==
  /\ pc \in {"Erasing", "Programming"} => phrase[1] = slope
  /\ pc = "Erasing" /\ ~dirty =>
       FCCOB.command = "erase" /\ (CCIF => sector = Blank)
  /\ pc = "Programming" /\ ~dirty =>
       /\ FCCOB.command = "program" /\ FCCOB.data = Registers(phrase)
       /\ CCIF => sector[1] = slope
       /\ ~CCIF => sector = Blank

FlashInv == TypeOK /\ Placed /\ Quiet /\ Underway

(* Constants of the module, as the proofs use them.                          *)
LEMMA FlashTypes ==
  /\ Blank \in Sector /\ Blank[1] = ERASED /\ ERASED \in Byte /\ Zero \in Byte
  /\ Slopes \subseteq Byte /\ InitialSectors \subseteq Sector
  /\ None \notin Offset /\ \A byte \in Byte : byte # None
<1>1. ERASED \in Byte /\ Zero \in Byte
  BY DEF ERASED, Byte, Zero
<1>2. Blank \in Sector /\ Blank[1] = ERASED
  BY <1>1 DEF Blank, Sector, NB_BYTES
<1> QED BY <1>1, <1>2, FlashAssumption

LEMMA RegistersType ==
  ASSUME NEW p \in Sector
  PROVE  Registers(p) \in Sector /\ Registers(p)[1] = p[1]
BY DEF Registers, Sector, NB_BYTES

(* Programming clears bits: over erased flash it stores the data.            *)
LEMMA ExecutedType ==
  ASSUME TypeOK
  PROVE  /\ Executed \in Sector
         /\ FCCOB.command = "erase" => Executed = Blank
         /\ FCCOB.command = "program" /\ sector = Blank =>
              Executed[1] = FCCOB.data[1]
<1>1. /\ sector \in [1..8 -> Byte] /\ FCCOB.data \in [1..8 -> Byte]
      /\ FCCOB.command \in {"none", "erase", "program"}
  BY DEF TypeOK, Sector, NB_BYTES
<1> DEFINE and == [i \in 1..8 |-> sector[i] \cap FCCOB.data[i]]
<1>2. and \in [1..8 -> Byte]
  <2>1. \A i \in 1..8 : sector[i] \cap FCCOB.data[i] \in Byte
    BY <1>1 DEF Byte
  <2> QED BY <2>1
<1>3. /\ FCCOB.command = "erase" => Executed = Blank
      /\ FCCOB.command = "program" => Executed = and
      /\ FCCOB.command = "none" => Executed = sector
  BY DEF Executed, NB_BYTES
<1>4. sector = Blank => and[1] = FCCOB.data[1]
  <2>1. FCCOB.data[1] \in SUBSET (0..7) /\ and[1] = sector[1] \cap FCCOB.data[1]
    BY <1>1 DEF Byte
  <2>2. Blank[1] = 0..7
    BY FlashTypes DEF ERASED
  <2> HIDE DEF and
  <2> QED BY <2>1, <2>2
<1> HIDE DEF and
<1> QED BY <1>1, <1>2, <1>3, <1>4, FlashTypes DEF Sector, NB_BYTES

(* The allocations at start-up have one outcome.                             *)
LEMMA FirstAllocation ==
  ASSUME NEW byte \in Allocations({}, 1)
  PROVE  byte = [ok |-> TRUE, address |-> 0, taken |-> {0}]
<1>1. Room({}, 1) = 0..7
  BY DEF Room, Offset, NB_BYTES
<1>2. {i \in Room({}, 1) : \A j \in Room({}, 1) : i <= j} = {0}
  BY <1>1
<1>3. {} \cup 0..0+1-1 = {0}
  OBVIOUS
<1> QED BY <1>1, <1>2, <1>3 DEF Allocations

LEMMA SecondAllocation ==
  ASSUME NEW half \in Allocations({0}, 2)
  PROVE  half = [ok |-> TRUE, address |-> 2, taken |-> {0, 2, 3}]
<1>1. Room({0}, 2) = {2, 4, 6}
  BY DEF Room, Offset, NB_BYTES
<1>2. {i \in Room({0}, 2) : \A j \in Room({0}, 2) : i <= j} = {2}
  BY <1>1
<1>3. {0} \cup 2..2+2-1 = {0, 2, 3}
  OBVIOUS
<1> QED BY <1>1, <1>2, <1>3 DEF Allocations

-----------------------------------------------------------------------------
(* Every step keeps the invariant.                                           *)

LEMMA InitFlashInv == Init => FlashInv
<1> SUFFICES ASSUME Init
             PROVE  FlashInv
  OBVIOUS
<1>1. TypeOK
  BY FlashTypes DEF Init, TypeOK
<1> QED BY <1>1 DEF Init, FlashInv, Placed, Quiet, Underway

LEMMA ConstructInv ==
  ASSUME FlashInv, Construct
  PROVE  FlashInv'
<1>1. FlashSector0 = {} /\ pc = "Boot"
  BY DEF FlashInv, Placed, Construct
<1>2. PICK byte \in Allocations(FlashSector0, 1) :
        \E half \in Allocations(byte.taken, 2) :
          /\ setting' = byte.address /\ nBTrip' = half.address
          /\ FlashSector0' = half.taken /\ success' = half.ok
  BY DEF Construct
<1>3. byte = [ok |-> TRUE, address |-> 0, taken |-> {0}]
  BY <1>1, <1>2, FirstAllocation
<1>4. PICK half \in Allocations({0}, 2) :
        /\ setting' = 0 /\ nBTrip' = half.address
        /\ FlashSector0' = half.taken /\ success' = half.ok
  BY <1>2, <1>3
<1>5. half = [ok |-> TRUE, address |-> 2, taken |-> {0, 2, 3}]
  BY <1>4, SecondAllocation
<1>6. /\ setting' = 0 /\ nBTrip' = 2 /\ FlashSector0' = {0, 2, 3}
      /\ success' = TRUE /\ pc' = "Idle"
      /\ UNCHANGED <<sector, CCIF, ERR, FCCOB, write, dirty>>
  BY <1>4, <1>5 DEF Construct
<1>7. TypeOK'
  BY <1>6 DEF FlashInv, TypeOK, write, Offset, NB_BYTES
<1> QED BY <1>1, <1>6, <1>7 DEF FlashInv, Placed, Quiet, Underway

LEMMA SetInv ==
  ASSUME FlashInv, Set
  PROVE  FlashInv'
<1>1. /\ slope' \in Byte /\ phrase' = Phrase8(0, slope')
      /\ pc' = "Erasing" /\ pc = "Idle" /\ dirty' = ERR
      /\ UNCHANGED <<sector, ram>>
  BY FlashTypes DEF Set, FlashInv, Placed
<1>2. phrase' \in Sector /\ phrase'[1] = slope'
  <2>1. sector \in [1..8 -> Byte] /\ sector \in Sector
    BY DEF FlashInv, TypeOK, Sector, NB_BYTES
  <2>2. phrase' = [sector EXCEPT ![0 + 1] = slope']
    BY <1>1, <2>1, Phrase8Keeps DEF Offset, NB_BYTES
  <2> QED BY <1>1, <2>1, <2>2 DEF Sector, NB_BYTES
<1>3. /\ CCIF /\ CCIF' = FALSE /\ ERR' = FALSE
      /\ FCCOB' = IF ERR THEN FCCOB ELSE [command |-> "erase", data |-> FCCOB.data]
  BY DEF Set, LaunchCommand
<1>4. FCCOB' \in [command : {"none", "erase", "program"}, data : Sector]
  BY <1>3 DEF FlashInv, TypeOK
<1>5. TypeOK'
  BY <1>1, <1>2, <1>3, <1>4 DEF FlashInv, TypeOK, ram
<1>6. Placed'
  BY <1>1 DEF FlashInv, Placed, ram
<1> QED BY <1>1, <1>2, <1>3, <1>5, <1>6 DEF FlashInv, Quiet, Underway

(* The program command is launched over the blank sector the erase command   *)
(* has left, unless one of the two was refused.                              *)
LEMMA ProgramPhraseInv ==
  ASSUME FlashInv, ProgramPhrase
  PROVE  FlashInv'
<1>1. /\ pc = "Erasing" /\ pc' = "Programming"
      /\ UNCHANGED <<sector, ram, write, dirty>>
  BY DEF ProgramPhrase
<1>2. /\ CCIF /\ CCIF' = FALSE /\ ERR' = FALSE
      /\ FCCOB' = IF ERR THEN FCCOB
                  ELSE [command |-> "program", data |-> Registers(phrase)]
  BY DEF ProgramPhrase, LaunchCommand
<1>3. FCCOB' \in [command : {"none", "erase", "program"}, data : Sector]
  BY <1>2, RegistersType DEF FlashInv, TypeOK
<1>4. TypeOK'
  BY <1>1, <1>2, <1>3 DEF FlashInv, TypeOK, ram, write
<1>5. Placed'
  BY <1>1 DEF FlashInv, Placed, ram
<1>6. Underway'
  BY <1>1, <1>2 DEF FlashInv, Quiet, Underway, write, Registers
<1> QED BY <1>1, <1>2, <1>4, <1>5, <1>6 DEF FlashInv, Quiet

LEMMA ReturnInv ==
  ASSUME FlashInv, Return
  PROVE  FlashInv'
<1>1. /\ pc = "Programming" /\ pc' = "Idle" /\ CCIF /\ success' = TRUE
      /\ UNCHANGED <<sector, CCIF, ERR, FCCOB, FlashSector0, setting, nBTrip,
                     write, dirty>>
  BY DEF Return
<1>2. TypeOK'
  BY <1>1 DEF FlashInv, TypeOK, write
<1>3. CCIF' = TRUE
  BY <1>1 DEF FlashInv, TypeOK
<1> QED BY <1>1, <1>2, <1>3 DEF FlashInv, Placed, Quiet, Underway

(* The erase leaves the sector blank, the program command the new setting.   *)
LEMMA CommandDoneInv ==
  ASSUME FlashInv, CommandDone
  PROVE  FlashInv'
<1>1. /\ ~CCIF /\ CCIF' = TRUE /\ sector' = Executed
      /\ UNCHANGED <<ERR, FCCOB, ram, write, pc, dirty>>
  BY DEF CommandDone
<1>2. /\ Executed \in Sector
      /\ FCCOB.command = "erase" => Executed = Blank
      /\ FCCOB.command = "program" /\ sector = Blank =>
           Executed[1] = FCCOB.data[1]
  BY ExecutedType DEF FlashInv
<1>3. TypeOK'
  BY <1>1, <1>2 DEF FlashInv, TypeOK, ram, write
<1>4. Placed' /\ Quiet'
  BY <1>1 DEF FlashInv, Placed, Quiet, ram
<1>5. Underway'
  <2>1. Registers(phrase)[1] = phrase[1]
    BY RegistersType DEF FlashInv, TypeOK
  <2> QED BY <1>1, <1>2, <2>1 DEF FlashInv, Underway, write, Registers
<1> QED BY <1>3, <1>4, <1>5 DEF FlashInv

LEMMA CommandRefusedInv ==
  ASSUME FlashInv, CommandRefused
  PROVE  FlashInv'
<1>1. /\ CCIF' = TRUE /\ ERR' = TRUE /\ dirty' = TRUE
      /\ UNCHANGED <<sector, FCCOB, ram, write, pc>>
  BY DEF CommandRefused
<1>2. TypeOK'
  BY <1>1 DEF FlashInv, TypeOK, ram, write
<1> QED BY <1>1, <1>2 DEF FlashInv, Placed, Quiet, Underway, ram, write

LEMMA PowerLossInv ==
  ASSUME FlashInv, PowerLoss
  PROVE  FlashInv'
<1>1. sector' \in Sector
  BY ExecutedType DEF PowerLoss, FlashInv, TypeOK
<1>2. TypeOK'
  BY <1>1, FlashTypes DEF PowerLoss, FlashInv, TypeOK
<1> QED BY <1>2 DEF PowerLoss, FlashInv, Placed, Quiet, Underway

LEMMA NextFlashInv ==
  ASSUME FlashInv, [Next]_vars
  PROVE  FlashInv'
<1>1. CASE UNCHANGED vars
  BY <1>1 DEF FlashInv, TypeOK, Placed, Quiet, Underway, Registers, vars, ram, write
<1> QED BY <1>1, ConstructInv, SetInv, ProgramPhraseInv, ReturnInv, CommandDoneInv,
           CommandRefusedInv, PowerLossInv DEF Next, Main

(* What holds at every point of a write, of a start and of a power loss.     *)
THEOREM FlashInvariant == Spec => []FlashInv
<1>1. Init => FlashInv
  BY InitFlashInv
<1>2. FlashInv /\ [Next]_vars => FlashInv'
  BY NextFlashInv
<1> QED BY <1>1, <1>2, PTL DEF Spec

(* Type correctness of flash, controller and allocator; the two variables    *)
(* are allocated where AllocateVar aligns them.                              *)
THEOREM FlashTypeCorrect == Spec => []TypeOK
<1>1. FlashInv => TypeOK
  BY DEF FlashInv
<1> QED BY <1>1, FlashInvariant, PTL

(* WritePhrase programs only over erased flash, whenever the power went in   *)
(* an earlier write and however many writes have gone before.                *)
THEOREM ProgramsOverErased == Spec => ProgramsErased
<1>1. FlashInv /\ [Next]_vars =>
        [ ~CCIF /\ CCIF' /\ FCCOB.command = "program" /\ ~dirty
            => sector = Blank ]_vars
  BY DEF FlashInv, TypeOK, Quiet, Underway
<1> QED BY <1>1, FlashInvariant, PTL DEF Spec, ProgramsErased

-----------------------------------------------------------------------------
(* The setting is a StoredSetting.                                           *)

LEMMA StoredStep ==
  ASSUME FlashInv, [Next]_vars
  PROVE  [Cell!Next]_(Cell!cell)
<1>1. /\ sector[1] \in Byte /\ slope \in Byte /\ slope # None
      /\ sector \in [1..8 -> Byte]
  BY FlashTypes DEF FlashInv, TypeOK, Sector, NB_BYTES
<1>2. Executed[1] \in Byte
  BY ExecutedType DEF FlashInv, Sector, NB_BYTES
<1>3. Blank[1] = ERASED /\ ERASED \in Byte
  BY FlashTypes
(* What a command in progress makes of the byte.                             *)
<1>4. ASSUME ~CCIF, ~dirty
      PROVE  /\ pc = "Erasing" => Executed[1] = ERASED
             /\ pc = "Programming" => Executed[1] = slope
  <2>1. Registers(phrase)[1] = phrase[1]
    BY RegistersType DEF FlashInv, TypeOK
  <2> QED BY <1>3, <1>4, <2>1, ExecutedType DEF FlashInv, Underway
<1>5. ~CCIF => pc \in {"Erasing", "Programming"}
  BY DEF FlashInv, Quiet, TypeOK
<1>6. CASE Construct \/ ProgramPhrase \/ UNCHANGED vars
  BY <1>6 DEF Construct, ProgramPhrase, vars, write, Cell!cell
<1>7. CASE Set
  BY <1>1, <1>7, FlashTypes
  DEF Set, FlashInv, Quiet, Cell!Next, Cell!Ask
<1>8. CASE Return
  BY <1>1, <1>8 DEF Return, FlashInv, Underway, Cell!Next, Cell!Return
<1>9. CASE CommandDone
  <2>1. sector'[1] = Executed[1] /\ UNCHANGED <<write, pc, dirty>> /\ ~CCIF
    BY <1>9 DEF CommandDone
  <2>2. CASE dirty
    BY <1>1, <1>2, <1>5, <2>1, <2>2 DEF Cell!Next, Cell!Stray, write
  <2>3. CASE ~dirty
    BY <1>1, <1>4, <1>5, <2>1, <2>3 DEF Cell!Next, Cell!Erase, Cell!Store, write
  <2> QED BY <2>2, <2>3
<1>10. CASE CommandRefused
  BY <1>1, <1>5, <1>10 DEF CommandRefused, Cell!Next, Cell!Refuse, write
<1>11. CASE PowerLoss
  <2>1. pc' = "Boot" /\ dirty' = FALSE
        /\ sector' \in {sector} \cup IF CCIF THEN {} ELSE {Executed}
    BY <1>11 DEF PowerLoss
  <2>2. CASE sector' = sector
    BY <2>1, <2>2 DEF Cell!Next, Cell!PowerLoss
  <2>3. CASE ~CCIF /\ sector' = Executed
    BY <1>1, <1>2, <1>4, <1>5, <2>1, <2>3 DEF Cell!Next, Cell!PowerLoss
  <2>4. CASE CCIF
    BY <2>1, <2>2, <2>4
  <2>5. CASE ~CCIF
    BY <2>1, <2>2, <2>3, <2>5
  <2> QED BY <2>4, <2>5
<1> QED BY <1>6, <1>7, <1>8, <1>9, <1>10, <1>11 DEF Next, Main

(* The first byte of the sector keeps the promise of a stored setting: the   *)
(* detailed chain of Write8, Write16, Write32, WritePhrase, EraseSector and  *)
(* LaunchCommand implements the abstract byte, power losses included.        *)
THEOREM SettingIsStored == Spec => SettingStored
<1>1. Init => Cell!Init
  BY FlashAssumption DEF Init, Cell!Init, Sector, NB_BYTES
<1>2. FlashInv /\ [Next]_vars => [Cell!Next]_(Cell!cell)
  BY StoredStep
<1> QED BY <1>1, <1>2, FlashInvariant, PTL DEF Spec, SettingStored, Cell!Spec
=============================================================================
