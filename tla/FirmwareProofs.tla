--------------------------- MODULE FirmwareProofs ---------------------------
(* Proofs about the composed firmware: for every conversation that fits the  *)
(* rings, everything that may be measured, and every ring size up to 256,    *)
(* the PC gets its answers whole, in order and true to the setting.          *)
EXTENDS Firmware, PacketProofs, FiniteSetTheorems

(* The lemmas about the flash, for the flash of this composition.            *)
Store == INSTANCE FlashStoreProofs WITH
  pc <- flashPc, success <- idmtSuccess,
  Slopes <- Settings, Refusals <- FALSE,
  InitialSectors <- {[i \in 1..8 |-> 0..7]}

-----------------------------------------------------------------------------
(* The invariant.                                                            *)

(* What the PC sends, and how much of it the decoder has taken.              *)
Stream == BytesOf(script)
Loaded == IF RDRF THEN 1 ELSE 0
Decoded == Len(Stream) - rx.NbBytes - Loaded - Len(host)

(* Nothing is lost on the way to the decoder: behind the bytes it has taken  *)
(* come those of RxFIFO, of the receive register and of the PC.              *)
Arriving ==
  /\ Decoded >= 0
  /\ \A i \in 1..rx.NbBytes : Contents(rx)[i] = Stream[Decoded + i]
  /\ RDRF => rxD = Stream[Decoded + rx.NbBytes + 1]
  /\ \A i \in 1..Len(host) : host[i] = Stream[Decoded + rx.NbBytes + Loaded + i]

(* n requests have been decoded, and of the next one as much as the switch   *)
(* over nbBytesPacket says.  A handler works on request n.                   *)
Decoding(n) ==
  /\ Decoded = 5 * n + nbBytesPacket - 1
  /\ nbBytesPacket >= 2 => command = script[n+1][1]
  /\ nbBytesPacket >= 3 => parameter1 = script[n+1][2]
  /\ nbBytesPacket >= 4 => parameter2 = script[n+1][3]
  /\ nbBytesPacket >= 5 => parameter3 = script[n+1][4]
  /\ pc # "PacketGet" => n >= 1 /\ nbBytesPacket = 1
  /\ pc = "Handle" =>
       /\ command = script[n][1] /\ parameter1 = script[n][2]
       /\ parameter2 = script[n][3] /\ parameter3 = script[n][4]

(* The sector holds one setting, and is erased otherwise.                    *)
Only(v) == [i \in 1..8 |-> IF i = 1 THEN v ELSE 0..7]

(* The setting in flash is the one that the last request asked for, unless   *)
(* the handler of that request is still at work.                             *)
Storing(n) ==
  LET now == SettingAfter(IF pc = "Handle" THEN n - 1 ELSE n)
  IN  /\ ~ERR /\ sector[1] \in Byte
      /\ CASE flashPc = "Boot" ->
                /\ ~idmtSuccess /\ CCIF /\ FlashSector0 = {}
                /\ sector = Only(0..7) /\ n = 0 /\ pc = "PacketGet"
           [] flashPc = "Idle" ->
                /\ CCIF /\ sector = Only(now)
           [] flashPc = "Erasing" ->
                /\ phrase = Only(slope)
                /\ FCCOB.command = "erase"
                /\ CCIF => sector = Only(0..7)
           [] flashPc = "Programming" ->
                /\ phrase = Only(slope)
                /\ FCCOB.command = "program"
                /\ FCCOB.data = Flash!Registers(phrase)
                /\ sector = Only(IF CCIF THEN slope ELSE 0..7)
           [] OTHER -> FALSE
      /\ flashPc # "Boot" => idmtSuccess /\ setting = 0 /\ nBTrip = 2
      /\ flashPc \in {"Erasing", "Programming"} =>
           Handling(IDMT) /\ parameter2 # N1 /\ slope = parameter3

(* The k-th packet of the output is an answer to the k-th request that has   *)
(* one, counted from zero.                                                   *)
Sent(k) ==
  \E m \in Answerable :
    /\ AnswersBefore(m) = k
    /\ \E answer \in Answers(m) : \A j \in 1..5 : Output[5 * k + j] = answer[j]

Answering(n) ==
  LET answered == AnswersBefore(IF pc = "PacketGet" THEN n + 1 ELSE n)
  IN  /\ Len(Output) = 5 * answered + (IF pc = "PacketPut" THEN it - 1 ELSE 0)
      /\ \A k \in 0..answered-1 : Sent(k)
      /\ pc = "PacketPut" =>
           /\ success /\ bytes \in Answers(n)
           /\ \A j \in 1..it-1 : Output[5 * answered + j] = bytes[j]

(* What HandleCurrent has loaded, though it need not be of one measurement.  *)
Loading ==
  /\ Current \in Readings
  /\ argLo \in {None} \cup {r[1] : r \in Readings}
  /\ argHi \in {None} \cup {r[2] : r \in Readings}

ServingInv ==
  \E n \in 0..Len(script) : Decoding(n) /\ Storing(n) /\ Answering(n)

FirmwareInv == LinkInv /\ script \in Scripts /\ Loading /\ Arriving /\ ServingInv

-----------------------------------------------------------------------------
(* The conversation.                                                         *)

(* The stream is the packets of the requests, one after the other.           *)
LEMMA StreamType ==
  ASSUME script \in Scripts
  PROVE  /\ script \in Seq([1..4 -> Byte]) /\ Len(script) \in Nat
         /\ 5 * Len(script) <= FIFO_SIZE
         /\ \A n \in 1..Len(script) : script[n] \in [1..4 -> Byte]
         /\ Stream \in Seq(Byte) /\ Len(Stream) = 5 * Len(script)
<1>1. script \in Seq([1..4 -> Byte])
  BY ScriptAssumption
<1>2. Len(script) \in Nat /\ \A n \in 1..Len(script) : script[n] \in [1..4 -> Byte]
  BY <1>1, LenProperties, ElementOfSeq
<1>3. 5 * Len(script) <= FIFO_SIZE
  BY ConversationAssumption DEF PACKET_NB_BYTES
<1>4. Stream \in Seq(Byte)
  BY ScriptAssumption, LinkAssumption DEF Stream
<1>5. Len(Stream) = 5 * Len(script)
  <2>1. DOMAIN Stream = 1..5 * Len(script)
    BY DEF Stream, BytesOf, PACKET_NB_BYTES
  <2>2. DOMAIN Stream = 1..Len(Stream) /\ Len(Stream) \in Nat
    BY <1>4, LenProperties
  <2> QED BY <1>2, <2>1, <2>2
<1> QED BY <1>1, <1>2, <1>3, <1>4, <1>5

LEMMA StreamAt ==
  ASSUME script \in Scripts, NEW n \in 0..Len(script)-1
  PROVE  /\ \A j \in 1..4 : Stream[5 * n + j] = script[n+1][j]
         /\ Stream[5 * n + 5] = MakeChecksum(script[n+1][1], script[n+1][2],
                                             script[n+1][3], script[n+1][4])
<1>1. Len(script) \in Nat /\ script[n+1] \in [1..4 -> Byte]
  BY StreamType
<1>2. ASSUME NEW j \in 1..5
      PROVE  Stream[5 * n + j] = PacketOf(script[n+1])[j]
  <2> DEFINE i == 5 * n + j
  <2>1. i \in 1..5 * Len(script) /\ (i - 1) \div 5 = n /\ i - 5 * n = j
    BY <1>1
  <2> HIDE DEF i
  <2>2. Stream[i] = PacketOf(script[((i - 1) \div 5) + 1])[i - 5 * ((i - 1) \div 5)]
    BY <2>1 DEF Stream, BytesOf, PACKET_NB_BYTES
  <2> QED BY <2>1, <2>2 DEF i
<1> DEFINE r == script[n+1]
<1> HIDE DEF r
<1>3. PacketOf(r) = <<r[1], r[2], r[3], r[4], MakeChecksum(r[1], r[2], r[3], r[4])>>
  BY DEF PacketOf
<1>4. \A j \in 1..4 : PacketOf(r)[j] = r[j]
  BY <1>3
<1>5. PacketOf(r)[5] = MakeChecksum(r[1], r[2], r[3], r[4])
  BY <1>3
<1> QED BY <1>2, <1>4, <1>5 DEF r

(* The script does not change, nor what it means.                            *)
LEMMA ScriptStays ==
  ASSUME script' = script
  PROVE  /\ Stream' = Stream
         /\ \A n : SettingAfter(n)' = SettingAfter(n)
         /\ \A n : Answers(n)' = Answers(n)
         /\ Answerable' = Answerable
         /\ \A n : AnswersBefore(n)' = AnswersBefore(n)
<1>1. Stream' = Stream
  BY Zenon DEF Stream
<1>2. ASSUME NEW n PROVE SettingAfter(n)' = SettingAfter(n)
  BY Zenon DEF SettingAfter
<1>3. ASSUME NEW n PROVE Answers(n)' = Answers(n)
  BY <1>2, Zenon DEF Answers
<1>4. Answerable' = Answerable
  BY <1>3, Zenon DEF Answerable
<1>5. ASSUME NEW n PROVE AnswersBefore(n)' = AnswersBefore(n)
  BY <1>4, Zenon DEF AnswersBefore
<1> QED BY <1>1, <1>2, <1>3, <1>4, <1>5

(* A request that sets the curve determines the setting after it, any other  *)
(* leaves it.                                                                *)
LEMMA SettingStep ==
  ASSUME Len(script) \in Nat, NEW n \in 1..Len(script)
  PROVE  SettingAfter(n) =
           IF Sets(script[n]) THEN script[n][4] ELSE SettingAfter(n - 1)
<1> DEFINE set(k) == {i \in 1..k : Sets(script[i])}
<1>1. CASE Sets(script[n])
  <2>1. n \in set(n) /\ \A i \in set(n) : i \in Int /\ n >= i
    BY <1>1
  <2>2. Max(set(n)) = n
    <3> HIDE DEF set
    <3>1. Max(set(n)) \in set(n) /\ \A i \in set(n) : Max(set(n)) >= i
      BY <2>1, Zenon DEF Max
    <3> QED BY <2>1, <3>1
  <2>3. set(n) # {}
    BY <2>1
  <2> QED BY <1>1, <2>2, <2>3 DEF SettingAfter
<1>2. CASE ~Sets(script[n])
  <2>1. \A i \in 1..n : i \in 1..n-1 \/ i = n
    OBVIOUS
  <2>2. set(n) = set(n - 1)
    BY <1>2, <2>1
  <2> QED BY <1>2, <2>2, Zenon DEF SettingAfter
<1> QED BY <1>1, <1>2

LEMMA SettingFirst == SettingAfter(0) = 0..7
<1>1. {i \in 1..0 : Sets(script[i])} = {}
  OBVIOUS
<1> QED BY <1>1, Zenon DEF SettingAfter

(* Counting the requests that have an answer.                                *)
LEMMA AnswersCount ==
  ASSUME Len(script) \in Nat, NEW n \in 0..Len(script)+1
  PROVE  /\ AnswersBefore(n) \in Nat
         /\ AnswersBefore(n) <= Cardinality(Answerable)
         /\ n \in 1..Len(script) =>
              AnswersBefore(n + 1) =
                AnswersBefore(n) + IF n \in Answerable THEN 1 ELSE 0
         /\ n >= 1 => AnswersBefore(n) <= n - 1
<1>1. IsFiniteSet(1..Len(script)) /\ Answerable \in SUBSET (1..Len(script))
  BY FS_Interval DEF Answerable
<1>2. IsFiniteSet(Answerable)
  BY <1>1, FS_Subset
<1> DEFINE before(k) == {m \in Answerable : m < k}
<1>3. ASSUME NEW k
      PROVE  IsFiniteSet(before(k)) /\ Cardinality(before(k)) \in Nat
             /\ Cardinality(before(k)) <= Cardinality(Answerable)
  <2>1. before(k) \in SUBSET Answerable
    OBVIOUS
  <2> QED BY <1>2, <2>1, FS_Subset, FS_CardinalityType
<1>4. \A m \in Answerable : m \in 1..Len(script)
  BY <1>1
<1>5. ASSUME n \in 1..Len(script)
      PROVE  AnswersBefore(n + 1) =
               AnswersBefore(n) + IF n \in Answerable THEN 1 ELSE 0
  <2>1. n \notin before(n) /\ n \in Nat
    BY <1>5
  <2>2. \A m \in Answerable : m < n + 1 <=> m < n \/ m = n
    BY <1>4, <2>1
  <2>3. CASE n \in Answerable
    <3>1. before(n + 1) = before(n) \cup {n}
      BY <2>1, <2>2, <2>3, Zenon
    <3>2. Cardinality(before(n) \cup {n}) = Cardinality(before(n)) + 1
      BY <1>3, <2>1, FS_AddElement
    <3> QED BY <2>3, <3>1, <3>2 DEF AnswersBefore
  <2>4. CASE n \notin Answerable
    <3>1. before(n + 1) = before(n)
      BY <2>2, <2>4
    <3>2. Cardinality(before(n)) \in Nat
      BY <1>3
    <3>3. AnswersBefore(n + 1) = AnswersBefore(n) /\ AnswersBefore(n) \in Nat
      BY <3>1, <3>2, Zenon DEF AnswersBefore
    <3> QED BY <2>4, <3>3
  <2> QED BY <2>3, <2>4
<1>6. ASSUME n >= 1
      PROVE  AnswersBefore(n) <= n - 1
  <2>1. \A m \in before(n) : m \in 1..n-1
    BY <1>4
  <2>2. before(n) \in SUBSET (1..n-1)
    BY <2>1
  <2>3. IsFiniteSet(1..n-1) /\ Cardinality(1..n-1) = n - 1
    <3>1. n - 1 \in Int /\ 1 \in Int
      OBVIOUS
    <3>2. /\ IsFiniteSet(1..n-1)
          /\ Cardinality(1..n-1) = IF 1 > n-1 THEN 0 ELSE (n-1)-1+1
      BY <3>1, FS_Interval
    <3> QED BY <1>6, <3>2
  <2>4. Cardinality(before(n)) <= n - 1
    BY <2>2, <2>3, FS_Subset
  <2> QED BY <2>4 DEF AnswersBefore
<1> QED BY <1>3, <1>5, <1>6 DEF AnswersBefore

-----------------------------------------------------------------------------
(* The way to the decoder.                                                   *)

LEMMA LinkFacts ==
  ASSUME LinkInv
  PROVE  /\ FifoOK(rx) /\ Contents(rx) \in Seq(Byte)
         /\ Len(Contents(rx)) = rx.NbBytes /\ rx.NbBytes \in 0..FIFO_SIZE
         /\ host \in Seq(Byte) /\ Len(host) \in Nat
         /\ RDRF \in BOOLEAN /\ Loaded \in 0..1 /\ rxD \in Byte
         /\ FIFO_SIZE \in Nat
<1>1. FifoOK(rx) /\ host \in Seq(Byte) /\ RDRF \in BOOLEAN /\ rxD \in Byte
  BY DEF LinkInv, FifosOK, TypeOK
<1>2. Loaded \in 0..1
  BY DEF Loaded
<1> QED BY <1>1, <1>2, ContentsType, LenProperties, FifoAssumption

(* A step that leaves the way in alone.                                      *)
LEMMA QuietArrives ==
  ASSUME Arriving, script' = script, UNCHANGED <<host, RDRF, rxD, rx>>
  PROVE  Arriving' /\ Decoded' = Decoded
<1>1. Stream' = Stream /\ Contents(rx)' = Contents(rx) /\ Loaded' = Loaded
  BY ScriptStays DEF Contents, Loaded
<1>2. Decoded' = Decoded
  BY <1>1 DEF Decoded
<1> QED BY <1>1, <1>2 DEF Arriving

(* The PC waits until its last byte has been read.                           *)
LEMMA HostByteArrives ==
  ASSUME LinkInv, Arriving, script \in Scripts, script' = script, HostByte
  PROVE  Arriving' /\ Decoded' = Decoded
<1>1. /\ host # <<>> /\ ~RDRF /\ RDRF' = TRUE
      /\ host' = Tail(host) /\ rxD' = Head(host) /\ rx' = rx
  BY ConversationAssumption DEF HostByte
<1>2. /\ host \in Seq(Byte) /\ Len(host) \in Nat /\ Len(host') = Len(host) - 1
      /\ rxD' = host[1]
      /\ \A i \in 1..Len(host) - 1 : host'[i] = host[i + 1]
      /\ rx.NbBytes \in Nat
  <2>1. host \in Seq(Byte) /\ Len(host) \in Nat /\ rx.NbBytes \in 0..FIFO_SIZE
        /\ FIFO_SIZE \in Nat
    BY LinkFacts
  <2>2. /\ Len(Tail(host)) = Len(host) - 1
        /\ \A i \in 1..Len(Tail(host)) : Tail(host)[i] = host[i + 1]
    BY <1>1, <2>1, HeadTailProperties
  <2>3. Head(host) = host[1]
    BY <1>1, <2>1
  <2> QED BY <1>1, <2>1, <2>2, <2>3
<1>3. Len(host) >= 1
  BY <1>1, <1>2, EmptySeq
<1>4. Stream' = Stream /\ Contents(rx)' = Contents(rx) /\ Loaded = 0 /\ Loaded' = 1
  BY <1>1, ScriptStays DEF Contents, Loaded
<1>5. Len(Stream) \in Nat
  BY StreamType, LenProperties
<1>6. Decoded' = Decoded /\ Decoded \in Int
  BY <1>1, <1>2, <1>4, <1>5 DEF Decoded
<1> DEFINE d == Decoded
           q == rx.NbBytes
<1>7. \A i \in 1..Len(host) : host[i] = Stream[d + q + i]
  BY <1>2, <1>4, <1>6 DEF Arriving
<1>8. d \in Int /\ q \in Nat /\ Len(host) \in Nat /\ Len(host') = Len(host) - 1
  BY <1>2, <1>6
<1> HIDE DEF d, q
<1>9. rxD' = Stream[d + q + 1]
  BY <1>2, <1>3, <1>7
<1>10. \A i \in 1..Len(host') : host'[i] = Stream[d + q + 1 + i]
  <2>1. SUFFICES ASSUME NEW i \in 1..Len(host')
                 PROVE  host'[i] = Stream[d + q + 1 + i]
    OBVIOUS
  <2>2. i + 1 \in 1..Len(host) /\ i \in 1..Len(host) - 1
        /\ d + q + (i + 1) = d + q + 1 + i
    BY <1>8
  <2>3. host[i + 1] = Stream[d + q + (i + 1)]
    BY <1>7, <2>2
  <2> QED BY <1>2, <2>2, <2>3
<1> QED BY <1>1, <1>4, <1>6, <1>9, <1>10 DEF Arriving, d, q

(* The interrupt always finds room in RxFIFO for the byte it has read.       *)
LEMMA UART_ISRArrives ==
  ASSUME LinkInv, Arriving, script \in Scripts, script' = script, UART_ISR
  PROVE  Arriving' /\ Decoded' = Decoded
<1>1. /\ rx' = (IF RDRF THEN Put(rx, rxD) ELSE rx) /\ RDRF' = FALSE
      /\ UNCHANGED <<host, rxD>>
  BY DEF UART_ISR, Receive
<1>2. CASE ~RDRF
  BY <1>1, <1>2, QuietArrives DEF LinkInv, TypeOK
<1>3. CASE RDRF
  <2>1. /\ FifoOK(rx) /\ Contents(rx) \in Seq(Byte) /\ rxD \in Byte
        /\ Len(Contents(rx)) = rx.NbBytes /\ rx.NbBytes \in Nat
        /\ Len(host) \in Nat /\ FIFO_SIZE \in Nat /\ Loaded = 1 /\ Loaded' = 0
    BY <1>1, <1>3, LinkFacts DEF Loaded
  <2>2. /\ Len(Stream) = 5 * Len(script) /\ 5 * Len(script) <= FIFO_SIZE
        /\ Len(script) \in Nat /\ Stream' = Stream
    BY StreamType, ScriptStays
  <2>3. Decoded >= 0 /\ Decoded = Len(Stream) - rx.NbBytes - 1 - Len(host)
        /\ Decoded \in Int
    BY <2>1, <2>2 DEF Arriving, Decoded
  <2>4. HasRoom(rx)
    BY <2>1, <2>2, <2>3 DEF HasRoom
  <2>5. Contents(rx)' = Append(Contents(rx), rxD) /\ rx' = Put(rx, rxD)
    <3>1. rx' = Put(rx, rxD)
      BY <1>1, <1>3
    <3>2. Contents(Put(rx, rxD)) = Append(Contents(rx), rxD)
      BY <2>1, <2>4, PutAppends
    <3>3. Contents(rx)' = Contents(rx')
      BY DEF Contents
    <3> QED BY <3>1, <3>2, <3>3
  <2>6. rx'.NbBytes = rx.NbBytes + 1
    BY <2>4, <2>5 DEF Put
  <2>7. Decoded' = Decoded
    BY <1>1, <2>1, <2>2, <2>3, <2>6 DEF Decoded
  <2> DEFINE c == Contents(rx)
             n == Contents(rx)'
             d == Decoded
             q == rx.NbBytes
  <2>8. /\ \A i \in 1..q : n[i] = c[i]
        /\ n[q + 1] = rxD
    BY <2>1, <2>5, AppendProperties
  <2>9. /\ \A i \in 1..q : c[i] = Stream[d + i]
        /\ rxD = Stream[d + q + 1]
        /\ \A i \in 1..Len(host) : host[i] = Stream[d + q + 1 + i]
    BY <1>3, <2>1 DEF Arriving
  <2>10. d \in Int /\ q \in Nat /\ Len(host) \in Nat
    BY <2>1, <2>3
  <2> HIDE DEF c, n, d, q
  <2>11. ASSUME NEW i \in 1..q + 1
         PROVE  n[i] = Stream[d + i]
    <3>1. CASE i \in 1..q
      BY <2>8, <2>9, <3>1
    <3>2. CASE i = q + 1
      <4>1. d + i = d + q + 1
        BY <2>10, <3>2
      <4> QED BY <2>8, <2>9, <3>2, <4>1
    <3> QED BY <2>10, <3>1, <3>2
  <2>12. \A i \in 1..Len(host) : host[i] = Stream[d + (q + 1) + 0 + i]
    <3>1. ASSUME NEW i \in 1..Len(host)
          PROVE  d + (q + 1) + 0 + i = d + q + 1 + i
      BY <2>10
    <3> QED BY <2>9, <3>1
  <2> QED BY <1>1, <2>1, <2>2, <2>3, <2>6, <2>7, <2>11, <2>12 DEF Arriving, n, d, q
<1> QED BY <1>2, <1>3 DEF LinkInv, TypeOK

(* The decoder takes the next byte of the stream.                            *)
LEMMA PacketGetArrives ==
  ASSUME LinkInv, Arriving, script \in Scripts, script' = script, PacketGet
  PROVE  /\ Arriving' /\ Decoded' = Decoded + 1
         /\ Oldest(rx) = Stream[Decoded + 1]
         /\ Decoded < Len(Stream) /\ Decoded \in Nat
<1>1. /\ HasData(rx) /\ rx' = Get(rx) /\ UNCHANGED <<host, RDRF, rxD>>
  BY DEF PacketGet, hardware
<1>2. /\ FifoOK(rx) /\ Contents(rx) \in Seq(Byte)
      /\ Len(Contents(rx)) = rx.NbBytes /\ rx.NbBytes \in Nat
      /\ Len(host) \in Nat /\ Loaded \in 0..1 /\ Loaded' = Loaded
  BY <1>1, LinkFacts DEF Loaded
<1>3. Len(Stream) \in Nat /\ Stream' = Stream
  BY StreamType, LenProperties, ScriptStays
<1>4. /\ Contents(rx) # <<>> /\ Oldest(rx) = Head(Contents(rx))
      /\ Contents(rx)' = Tail(Contents(rx))
  <2>1. Contents(rx)' = Contents(rx')
    BY DEF Contents
  <2> QED BY <1>1, <1>2, <2>1, GetRemoves
<1>5. rx'.NbBytes = rx.NbBytes - 1 /\ rx.NbBytes >= 1
  BY <1>1, <1>2 DEF Get, HasData
<1> DEFINE c == Contents(rx)
           n == Contents(rx)'
           d == Decoded
           q == rx.NbBytes
<1>6. /\ Oldest(rx) = c[1]
      /\ \A i \in 1..q - 1 : n[i] = c[i + 1]
  <2>1. Len(Tail(c)) = q - 1 /\ \A i \in 1..Len(Tail(c)) : Tail(c)[i] = c[i + 1]
    BY <1>2, <1>4, HeadTailProperties
  <2>2. Head(c) = c[1]
    BY <1>2, <1>4
  <2> QED BY <1>4, <2>1, <2>2
<1>7. /\ d \in Int /\ d >= 0
      /\ \A i \in 1..q : c[i] = Stream[d + i]
      /\ RDRF => rxD = Stream[d + q + 1]
      /\ \A i \in 1..Len(host) : host[i] = Stream[d + q + Loaded + i]
  BY <1>2, <1>3 DEF Arriving, Decoded
<1>8. Decoded' = d + 1 /\ d < Len(Stream)
  BY <1>1, <1>2, <1>3, <1>5 DEF Decoded
<1> HIDE DEF c, n, d
<1> HIDE DEF q
<1>9. d \in Int /\ q \in Nat /\ Loaded \in Int /\ Len(host) \in Nat /\ q >= 1
  BY <1>2, <1>5, <1>7 DEF q
<1>10. Oldest(rx) = Stream[d + 1]
  BY <1>6, <1>7, <1>9
<1>11. \A i \in 1..q - 1 : n[i] = Stream[(d + 1) + i]
  <2>1. SUFFICES ASSUME NEW i \in 1..q - 1
                 PROVE  n[i] = Stream[(d + 1) + i]
    OBVIOUS
  <2>2. i + 1 \in 1..q /\ d + (i + 1) = (d + 1) + i
    BY <1>9
  <2> QED BY <1>6, <1>7, <2>2
<1>12. RDRF => rxD = Stream[(d + 1) + (q - 1) + 1]
  <2>1. d + q + 1 = (d + 1) + (q - 1) + 1
    BY <1>9
  <2> QED BY <1>7, <2>1
<1>13. \A i \in 1..Len(host) : host[i] = Stream[(d + 1) + (q - 1) + Loaded + i]
  <2>1. SUFFICES ASSUME NEW i \in 1..Len(host)
                 PROVE  host[i] = Stream[(d + 1) + (q - 1) + Loaded + i]
    OBVIOUS
  <2>2. d + q + Loaded + i = (d + 1) + (q - 1) + Loaded + i
    BY <1>9
  <2> QED BY <1>7, <2>2
<1>14. Arriving'
  BY <1>1, <1>2, <1>3, <1>5, <1>7, <1>8, <1>11, <1>12, <1>13 DEF Arriving, n, q
<1> QED BY <1>7, <1>8, <1>10, <1>14 DEF d

-----------------------------------------------------------------------------
(* The decoder.                                                              *)

(* Every byte of the stream is the one that its packet field waits for, and  *)
(* every fifth completes a checksum: SwitchPacket never runs.                *)
LEMMA PacketGetDecodes ==
  ASSUME LinkInv, Arriving, script \in Scripts, script' = script, PacketGet,
         NEW n \in 0..Len(script), Decoding(n)
  PROVE  \/ /\ FirstFour(Oldest(rx))
            /\ Decoding(n)'
         \/ /\ GoodChecksum(Oldest(rx))
            /\ n + 1 \in 1..Len(script) /\ Decoding(n + 1)'
<1> DEFINE data == Oldest(rx)
<1>1. /\ Decoded' = Decoded + 1 /\ data = Stream[Decoded + 1]
      /\ Decoded < Len(Stream) /\ Decoded \in Nat
  BY PacketGetArrives
<1>2. Len(Stream) = 5 * Len(script) /\ Len(script) \in Nat
  BY StreamType
<1>3. nbBytesPacket \in 1..5
  BY DEF LinkInv, TypeOK, PACKET_NB_BYTES
<1>4. Decoded = 5 * n + nbBytesPacket - 1
  BY DEF Decoding
<1>5. n \in 0..Len(script)-1
  BY <1>1, <1>2, <1>3, <1>4
<1>6. data = Stream[5 * n + nbBytesPacket]
  <2>1. Decoded + 1 = 5 * n + nbBytesPacket
    BY <1>3, <1>4, <1>5
  <2> QED BY <1>1, <2>1
<1>7. /\ \A j \in 1..4 : Stream[5 * n + j] = script[n+1][j]
      /\ Stream[5 * n + 5] = MakeChecksum(script[n+1][1], script[n+1][2],
                                          script[n+1][3], script[n+1][4])
  BY <1>5, StreamAt
<1> HIDE DEF data
<1>8. pc = "PacketGet" /\ (FirstFour(data) \/ GoodChecksum(data) \/ BadChecksum(data))
  BY DEF PacketGet, data
<1>9. CASE nbBytesPacket < 5
  <2>1. FirstFour(data)
    BY <1>3, <1>8, <1>9 DEF GoodChecksum, BadChecksum, PACKET_NB_BYTES
  <2>2. /\ nbBytesPacket' = nbBytesPacket + 1 /\ pc' = "PacketGet"
        /\ command'    = IF nbBytesPacket = 1 THEN data ELSE command
        /\ parameter1' = IF nbBytesPacket = 2 THEN data ELSE parameter1
        /\ parameter2' = IF nbBytesPacket = 3 THEN data ELSE parameter2
        /\ parameter3' = IF nbBytesPacket = 4 THEN data ELSE parameter3
    BY <1>8, <2>1 DEF FirstFour
  <2>3. data = script[n+1][nbBytesPacket]
    BY <1>3, <1>6, <1>7, <1>9
  <2>4. Decoded' = 5 * n + nbBytesPacket' - 1
    BY <1>1, <1>3, <1>4, <1>5, <2>2
  <2>5. Decoding(n)'
    BY <1>3, <1>9, <2>2, <2>3, <2>4 DEF Decoding
  <2> QED BY <2>1, <2>5 DEF data
<1>10. CASE nbBytesPacket = 5
  <2>1. /\ command = script[n+1][1] /\ parameter1 = script[n+1][2]
        /\ parameter2 = script[n+1][3] /\ parameter3 = script[n+1][4]
    BY <1>10 DEF Decoding
  <2>2. ChecksumOK(data)
    BY <1>6, <1>7, <1>10, <2>1 DEF ChecksumOK
  <2>3. GoodChecksum(data)
    BY <1>8, <1>10, <2>2 DEF FirstFour, BadChecksum, PACKET_NB_BYTES
  <2>4. /\ nbBytesPacket' = 1 /\ pc' = "Handle"
        /\ UNCHANGED <<command, parameter1, parameter2, parameter3>>
    BY <2>3 DEF GoodChecksum
  <2>5. Decoded' = 5 * (n + 1) + nbBytesPacket' - 1
    BY <1>1, <1>4, <1>5, <1>10, <2>4
  <2>6. n + 1 \in 1..Len(script)
    BY <1>2, <1>5
  <2>7. Decoding(n + 1)'
    BY <2>1, <2>4, <2>5, <2>6 DEF Decoding
  <2> QED BY <2>3, <2>6, <2>7 DEF data
<1> QED BY <1>3, <1>9, <1>10

(* A step that leaves the decoder alone and does not start a handler.        *)
LEMMA QuietDecodes ==
  ASSUME NEW n, Decoding(n), Decoded' = Decoded, script' = script,
         UNCHANGED packet, pc' = pc \/ pc' = "PacketGet"
                           \/ (pc = "Handle" /\ pc' = "PacketPut")
  PROVE  Decoding(n)'
BY DEF Decoding, packet

-----------------------------------------------------------------------------
(* The flash.                                                                *)

LEMMA StoreAssumed == Store!FlashAssumption
<1>1. Store!Byte = Byte /\ Store!Sector = [1..8 -> Byte] /\ Store!Offset = 0..7
  BY DEF Store!Byte, Byte, Store!Sector, Store!NB_BYTES, Store!Offset
<1>2. [i \in 1..8 |-> 0..7] \in [1..8 -> Byte]
  BY DEF Byte
<1> QED BY <1>1, <1>2, LinkAssumption, ScriptAssumption DEF Store!FlashAssumption

LEMMA OnlyType ==
  ASSUME NEW v \in Byte
  PROVE  Only(v) \in [1..8 -> Byte] /\ Only(v)[1] = v
<1>1. 0..7 \in Byte
  BY DEF Byte
<1> QED BY <1>1 DEF Only

(* The phrase that Set writes has the new setting and nothing else.          *)
LEMMA SetPhrase ==
  ASSUME NEW v \in Byte, NEW w \in Byte, sector = Only(v)
  PROVE  Flash!Phrase8(0, w) = Only(w)
<1>1. Store!Byte = Byte /\ Store!Sector = [1..8 -> Byte] /\ Store!Offset = 0..7
  BY DEF Store!Byte, Byte, Store!Sector, Store!NB_BYTES, Store!Offset
<1>2. sector \in Store!Sector /\ 0 \in Store!Offset /\ w \in Store!Byte
  BY <1>1, OnlyType
<1>3. Store!Phrase8(0, w) = [sector EXCEPT ![0 + 1] = w]
  BY <1>2, StoreAssumed, Store!Phrase8Keeps
<1>4. Flash!Phrase8(0, w) = Store!Phrase8(0, w)
  BY Zenon DEF Flash!Phrase8, Store!Phrase8, Flash!Phrase16, Store!Phrase16,
     Flash!Phrase32, Store!Phrase32, Flash!Held, Store!Held
<1>5. [sector EXCEPT ![0 + 1] = w] = Only(w)
  BY DEF Only
<1> QED BY <1>3, <1>4, <1>5

(* The constructor finds the setting at offset 0 and the trips at 2.         *)
LEMMA ConstructPlaces ==
  ASSUME Flash!Construct, FlashSector0 = {}
  PROVE  setting' = 0 /\ nBTrip' = 2 /\ idmtSuccess'
<1>1. \A taken, size : Flash!Allocations(taken, size) = Store!Allocations(taken, size)
  BY Zenon DEF Flash!Allocations, Store!Allocations, Flash!Room, Store!Room,
     Flash!Offset, Store!Offset, Flash!NB_BYTES, Store!NB_BYTES
<1>2. PICK byte \in Store!Allocations({}, 1) :
        \E half \in Store!Allocations(byte.taken, 2) :
          setting' = byte.address /\ nBTrip' = half.address /\ idmtSuccess' = half.ok
  BY <1>1 DEF Flash!Construct
<1>3. byte = [ok |-> TRUE, address |-> 0, taken |-> {0}]
  BY StoreAssumed, Store!FirstAllocation
<1>4. byte.taken = {0} /\ byte.address = 0
  BY <1>3
<1>5. PICK half \in Store!Allocations({0}, 2) :
        setting' = 0 /\ nBTrip' = half.address /\ idmtSuccess' = half.ok
  BY <1>2, <1>4
<1>6. half = [ok |-> TRUE, address |-> 2, taken |-> {0, 2, 3}]
  BY StoreAssumed, Store!SecondAllocation
<1> QED BY <1>5, <1>6

(* Over erased flash the controller programs what the registers hold, and    *)
(* in a phrase with one setting the order of the others does not matter.     *)
LEMMA Programmed ==
  ASSUME NEW v \in Byte, sector = Only(0..7), FCCOB.command = "program",
         FCCOB.data = Flash!Registers(Only(v))
  PROVE  Flash!Executed = Only(v)
<1>1. \A i \in 1..8 : Flash!Registers(Only(v))[i] = IF i = 1 THEN v ELSE 0..7
  BY DEF Flash!Registers, Only
<1>2. \A i \in 1..8 : sector[i] = 0..7
  BY DEF Only
<1>3. (0..7) \cap v = v /\ (0..7) \cap (0..7) = 0..7
  BY DEF Byte
<1>4. Flash!Executed = [i \in 1..8 |-> sector[i] \cap FCCOB.data[i]]
  BY DEF Flash!Executed, Flash!NB_BYTES
<1>5. \A i \in 1..8 : sector[i] \cap FCCOB.data[i] = IF i = 1 THEN v ELSE 0..7
  BY <1>1, <1>2, <1>3
<1> QED BY <1>4, <1>5 DEF Only

LEMMA Erased ==
  ASSUME FCCOB.command = "erase"
  PROVE  Flash!Executed = Only(0..7)
<1>1. Flash!Executed = Flash!Blank
  BY DEF Flash!Executed
<1> QED BY <1>1 DEF Flash!Blank, Flash!NB_BYTES, Flash!ERASED, Only

(* Steps that leave the flash alone: within a handler, and outside of one.   *)
LEMMA QuietStores ==
  ASSUME NEW n, Storing(n), script' = script, UNCHANGED flash,
         UNCHANGED <<pc, packet>>
  PROVE  Storing(n)'
<1>1. /\ Flash!Registers(phrase)' = Flash!Registers(phrase)
      /\ Handling(IDMT)' = Handling(IDMT)
      /\ \A k : SettingAfter(k)' = SettingAfter(k)
  BY ScriptStays DEF flash, Flash!Registers, Handling, packet
<1> QED BY <1>1 DEF Storing, flash, packet

LEMMA IdleStores ==
  ASSUME NEW n, Storing(n), script' = script, UNCHANGED flash,
         flashPc # "Boot", pc # "Handle", pc' # "Handle"
  PROVE  Storing(n)'
<1>1. flashPc = "Idle"
  BY DEF Storing, Handling
<1>2. SettingAfter(n)' = SettingAfter(n)
  BY ScriptStays
<1> QED BY <1>1, <1>2 DEF Storing, flash

(* A handler starts on request n + 1: the setting is still that after n.     *)
LEMMA RequestStores ==
  ASSUME NEW n \in Nat, Storing(n), script' = script, UNCHANGED flash,
         flashPc # "Boot", pc = "PacketGet", pc' = "Handle"
  PROVE  Storing(n + 1)'
<1>1. flashPc = "Idle"
  BY DEF Storing, Handling
<1>2. SettingAfter((n + 1) - 1)' = SettingAfter(n)
  <2>1. (n + 1) - 1 = n
    OBVIOUS
  <2> QED BY <2>1, ScriptStays
<1> QED BY <1>1, <1>2 DEF Storing, flash

(* A handler ends that has not set the curve.                                *)
LEMMA ServedStores ==
  ASSUME NEW n, Storing(n), script' = script, UNCHANGED flash,
         flashPc = "Idle", pc = "Handle", pc' # "Handle",
         SettingAfter(n) = SettingAfter(n - 1)
  PROVE  Storing(n)'
<1>1. SettingAfter(n)' = SettingAfter(n)
  BY ScriptStays
<1> QED BY <1>1 DEF Storing, flash

LEMMA ConstructStores ==
  ASSUME NEW n, Storing(n), Construct
  PROVE  Storing(n)'
<1>1. /\ flashPc = "Boot" /\ flashPc' = "Idle" /\ script' = script /\ pc' = pc
      /\ UNCHANGED <<sector, CCIF, ERR>>
  BY DEF Construct, Flash!Construct, link
<1>2. /\ n = 0 /\ pc = "PacketGet" /\ FlashSector0 = {} /\ CCIF /\ ~ERR
      /\ sector = Only(0..7) /\ sector[1] \in Byte
  BY <1>1 DEF Storing
<1>3. setting' = 0 /\ nBTrip' = 2 /\ idmtSuccess'
  BY <1>2, ConstructPlaces DEF Construct
<1>4. SettingAfter(n)' = 0..7
  BY <1>1, <1>2, ScriptStays, SettingFirst
<1> QED BY <1>1, <1>2, <1>3, <1>4 DEF Storing

LEMMA SetStartsStores ==
  ASSUME LinkInv, NEW n, Storing(n), SetStarts
  PROVE  Storing(n)'
<1>1. /\ flashPc = "Idle" /\ flashPc' = "Erasing" /\ idmtSuccess
      /\ slope' = parameter3 /\ phrase' = Flash!Phrase8(setting, slope')
      /\ FCCOB' = (IF ERR THEN FCCOB ELSE [command |-> "erase", data |-> FCCOB.data])
      /\ ERR' = FALSE /\ CCIF' = FALSE
      /\ UNCHANGED <<sector, FlashSector0, setting, nBTrip, idmtSuccess>>
  BY DEF SetStarts, Flash!Set, Flash!LaunchCommand, Flash!ram
<1>2. /\ Handling(IDMT) /\ parameter2 # N1 /\ script' = script
      /\ UNCHANGED <<pc, packet>>
  BY DEF SetStarts, link
<1>3. /\ ~ERR /\ setting = 0 /\ nBTrip = 2
      /\ \E v \in Byte : sector = Only(v)
  <2>1. sector = Only(SettingAfter(IF pc = "Handle" THEN n - 1 ELSE n)) /\ sector[1] \in Byte
    BY <1>1 DEF Storing
  <2>2. sector = Only(sector[1])
    BY <2>1 DEF Only
  <2> QED BY <1>1, <2>1, <2>2 DEF Storing
<1>4. parameter3 \in Byte
  BY DEF LinkInv, TypeOK
<1>5. phrase' = Only(slope')
  BY <1>1, <1>3, <1>4, SetPhrase
<1>6. Handling(IDMT)' /\ parameter2' # N1 /\ slope' = parameter3'
  BY <1>1, <1>2 DEF Handling, packet
<1>7. Only(slope)' = Only(slope')
  BY DEF Only
<1>8. FCCOB'.command = "erase"
  BY <1>1, <1>3
<1>9. sector'[1] \in Byte
  BY <1>1 DEF Storing
<1> QED BY <1>1, <1>3, <1>5, <1>6, <1>7, <1>8, <1>9 DEF Storing

LEMMA SetProgramStores ==
  ASSUME NEW n, Storing(n), SetProgram
  PROVE  Storing(n)'
<1>1. /\ flashPc = "Erasing" /\ flashPc' = "Programming" /\ CCIF
      /\ FCCOB' = (IF ERR THEN FCCOB
                   ELSE [command |-> "program", data |-> Flash!Registers(phrase)])
      /\ ERR' = FALSE /\ CCIF' = FALSE
      /\ UNCHANGED <<sector, FlashSector0, setting, nBTrip, idmtSuccess, phrase, slope>>
  BY DEF SetProgram, Flash!ProgramPhrase, Flash!LaunchCommand, Flash!ram, Flash!write
<1>2. script' = script /\ UNCHANGED <<pc, packet>>
  BY DEF SetProgram, link
<1>3. /\ ~ERR /\ setting = 0 /\ nBTrip = 2 /\ idmtSuccess /\ sector[1] \in Byte
      /\ phrase = Only(slope) /\ sector = Only(0..7)
      /\ Handling(IDMT) /\ parameter2 # N1 /\ slope = parameter3
  BY <1>1 DEF Storing
<1>4. /\ Only(slope)' = Only(slope)
      /\ Flash!Registers(phrase)' = Flash!Registers(phrase)
      /\ Handling(IDMT)' /\ parameter2' # N1 /\ slope' = parameter3'
  BY <1>1, <1>2, <1>3 DEF Only, Flash!Registers, Handling, packet
<1>5. FCCOB'.command = "program" /\ FCCOB'.data = Flash!Registers(phrase)
  BY <1>1, <1>3
<1> QED BY <1>1, <1>3, <1>4, <1>5 DEF Storing

LEMMA FlashDoneStores ==
  ASSUME LinkInv, NEW n, Storing(n), FlashDone
  PROVE  Storing(n)'
<1>1. /\ ~CCIF /\ CCIF' = TRUE /\ sector' = Flash!Executed
      /\ UNCHANGED <<ERR, FCCOB, FlashSector0, setting, nBTrip, idmtSuccess,
                     phrase, slope, flashPc>>
  BY DEF FlashDone, Flash!CommandDone, Flash!ram, Flash!write
<1>2. script' = script /\ UNCHANGED <<pc, packet>>
  BY DEF FlashDone, link
<1>3. /\ Only(slope)' = Only(slope)
      /\ Flash!Registers(phrase)' = Flash!Registers(phrase)
      /\ Handling(IDMT)' = Handling(IDMT)
  BY <1>1, <1>2 DEF Only, Flash!Registers, Handling, packet
<1>4. 0..7 \in Byte /\ parameter3 \in Byte
  BY DEF Byte, LinkInv, TypeOK
<1>5. CASE flashPc = "Erasing"
  <2>1. /\ ~ERR /\ setting = 0 /\ nBTrip = 2 /\ idmtSuccess /\ phrase = Only(slope)
        /\ FCCOB.command = "erase"
        /\ Handling(IDMT) /\ parameter2 # N1 /\ slope = parameter3
    BY <1>5 DEF Storing
  <2>2. sector' = Only(0..7) /\ sector'[1] \in Byte
    BY <1>1, <1>4, <2>1, Erased, OnlyType
  <2> QED BY <1>1, <1>2, <1>3, <1>5, <2>1, <2>2 DEF Storing, packet
<1>6. CASE flashPc = "Programming"
  <2>1. /\ ~ERR /\ setting = 0 /\ nBTrip = 2 /\ idmtSuccess /\ phrase = Only(slope)
        /\ FCCOB.command = "program" /\ FCCOB.data = Flash!Registers(phrase)
        /\ sector = Only(0..7)
        /\ Handling(IDMT) /\ parameter2 # N1 /\ slope = parameter3
    BY <1>1, <1>6 DEF Storing
  <2>2. sector' = Only(slope) /\ sector'[1] \in Byte
    BY <1>1, <1>4, <2>1, Programmed, OnlyType
  <2> QED BY <1>1, <1>2, <1>3, <1>6, <2>1, <2>2 DEF Storing, packet
<1>7. flashPc \in {"Erasing", "Programming"}
  BY <1>1 DEF Storing
<1> QED BY <1>5, <1>6, <1>7

(* The handler that sets the curve ends with the new setting stored.         *)
LEMMA SetReturnsStores ==
  ASSUME LinkInv, Len(script) \in Nat, NEW n \in 1..Len(script),
         Decoding(n), Storing(n), SetReturns
  PROVE  Storing(n)' /\ SettingAfter(n) = parameter3 /\ Handling(IDMT)
<1>1. /\ flashPc = "Programming" /\ flashPc' = "Idle" /\ CCIF /\ idmtSuccess'
      /\ UNCHANGED <<sector, CCIF, ERR, FCCOB, FlashSector0, setting, nBTrip,
                     phrase, slope>>
  BY DEF SetReturns, Flash!Return, Flash!write
<1>2. script' = script /\ pc' = "PacketPut"
  BY DEF SetReturns, Answer
<1>3. /\ ~ERR /\ setting = 0 /\ nBTrip = 2 /\ sector = Only(slope) /\ sector[1] \in Byte
      /\ Handling(IDMT) /\ parameter2 # N1 /\ slope = parameter3
  BY <1>1 DEF Storing
<1>4. Sets(script[n]) /\ script[n][4] = parameter3
  BY <1>3 DEF Decoding, Handling, Sets
<1>5. SettingAfter(n) = parameter3
  BY <1>4, SettingStep
<1>6. SettingAfter(n)' = slope
  BY <1>2, <1>3, <1>5, ScriptStays
<1> QED BY <1>1, <1>2, <1>3, <1>5, <1>6 DEF Storing

-----------------------------------------------------------------------------
(* The answers.                                                              *)

(* A packet in the output stays there.                                       *)
LEMMA SentStays ==
  ASSUME NEW k, Sent(k), script' = script,
         \A j \in 1..5 : Output'[5 * k + j] = Output[5 * k + j]
  PROVE  Sent(k)'
<1>1. PICK m \in Answerable :
        /\ AnswersBefore(m) = k
        /\ \E answer \in Answers(m) : \A j \in 1..5 : Output[5 * k + j] = answer[j]
  BY DEF Sent
<1>2. /\ m \in Answerable' /\ AnswersBefore(m)' = k /\ Answers(m)' = Answers(m)
  BY <1>1, ScriptStays
<1>3. \E answer \in Answers(m)' : \A j \in 1..5 : Output'[5 * k + j] = answer[j]
  BY <1>1, <1>2
<1> QED BY <1>2, <1>3 DEF Sent

(* A step that neither sends nor moves the main loop.                        *)
LEMMA QuietAnswers ==
  ASSUME NEW n, Answering(n), script' = script, Output' = Output,
         UNCHANGED <<pc, sending>>
  PROVE  Answering(n)'
<1>1. /\ \A k : AnswersBefore(k)' = AnswersBefore(k)
      /\ Answers(n)' = Answers(n)
  BY ScriptStays
<1>2. \A k : Sent(k) => Sent(k)'
  BY SentStays
<1> QED BY <1>1, <1>2 DEF Answering, sending

(* The next request is handed over.                                          *)
LEMMA RequestAnswers ==
  ASSUME NEW n, Answering(n), script' = script, Output' = Output,
         pc = "PacketGet", pc' = "Handle"
  PROVE  Answering(n + 1)'
<1>1. AnswersBefore(n + 1)' = AnswersBefore(n + 1)
  BY ScriptStays
<1>2. \A k : Sent(k) => Sent(k)'
  BY SentStays
<1> QED BY <1>1, <1>2 DEF Answering

(* A handler puts an answer to its request.                                  *)
LEMMA ReplyAnswers ==
  ASSUME LinkInv, NEW n, Answering(n), script' = script, pc = "Handle",
         NEW c, NEW p1, NEW p2, NEW p3, Answer(c, p1, p2, p3),
         PacketOf(<<c, p1, p2, p3>>) \in Answers(n)
  PROVE  Answering(n)'
<1>1. /\ bytes' = PacketOf(<<c, p1, p2, p3>>) /\ it' = 1 /\ success' = TRUE
      /\ pc' = "PacketPut" /\ Output' = Output
  <2>1. PacketOf(<<c, p1, p2, p3>>) = <<c, p1, p2, p3, MakeChecksum(c, p1, p2, p3)>>
    BY DEF PacketOf
  <2>2. Output' = Output
    BY DEF Answer, Output, Contents
  <2> QED BY <2>1, <2>2 DEF Answer
<1>2. AnswersBefore(n)' = AnswersBefore(n) /\ Answers(n)' = Answers(n)
  BY ScriptStays
<1>3. \A k : Sent(k) => Sent(k)'
  BY <1>1, SentStays
<1>4. Len(Output) = 5 * AnswersBefore(n) + 0 /\ \A k \in 0..AnswersBefore(n)-1 : Sent(k)
  BY DEF Answering
<1>5. \A j \in 1..it'-1 : FALSE
  BY <1>1
<1>6. it' - 1 = 0
  BY <1>1
<1> QED BY <1>1, <1>2, <1>3, <1>4, <1>5, <1>6 DEF Answering

(* A request without an answer is left.                                      *)
LEMMA NoReplyAnswers ==
  ASSUME Len(script) \in Nat, NEW n \in 1..Len(script), Answering(n),
         script' = script, Output' = Output,
         pc = "Handle", pc' = "PacketGet", n \notin Answerable
  PROVE  Answering(n)'
<1>1. AnswersBefore(n + 1)' = AnswersBefore(n)
  BY AnswersCount, ScriptStays
<1>2. \A k : Sent(k) => Sent(k)'
  BY SentStays
<1> QED BY <1>1, <1>2 DEF Answering

(* Within PacketPut, TxFIFO has room: all answers so far and this one are no *)
(* more than the ring holds.                                                 *)
LEMMA PutHasRoom ==
  ASSUME LinkInv, script \in Scripts, NEW n \in 1..Len(script), Answering(n),
         pc = "PacketPut", it <= 5
  PROVE  HasRoom(tx) /\ n \in Answerable /\ AnswersBefore(n) \in Nat
<1>1. Len(script) \in Nat /\ 5 * Len(script) <= FIFO_SIZE /\ FIFO_SIZE \in Nat
  BY StreamType, FifoAssumption
<1>2. AnswersBefore(n) \in Nat /\ AnswersBefore(n) <= n - 1
  BY <1>1, AnswersCount
<1>3. n \in Answerable
  BY DEF Answering, Answerable
<1>4. /\ line \in Seq(Byte) /\ Contents(tx) \in Seq(Byte)
      /\ Len(Contents(tx)) = tx.NbBytes
  BY ContentsType DEF LinkInv, TypeOK, FifosOK
<1>5. Len(Output) = Len(line) + tx.NbBytes /\ Len(line) \in Nat /\ tx.NbBytes \in Nat
  BY <1>4, ConcatProperties, LenProperties DEF Output
<1>6. Len(Output) = 5 * AnswersBefore(n) + (it - 1) /\ it \in 1..5
  BY DEF Answering, LinkInv, TypeOK, PACKET_NB_BYTES
<1>7. tx.NbBytes < FIFO_SIZE
  BY <1>1, <1>2, <1>5, <1>6
<1> QED BY <1>2, <1>3, <1>7 DEF HasRoom

LEMMA OutCharAnswers ==
  ASSUME LinkInv, script \in Scripts, NEW n \in 1..Len(script), Answering(n),
         script' = script, OutChar
  PROVE  Answering(n)'
<1> DEFINE a == AnswersBefore(n)
<1>1. /\ pc = "PacketPut" /\ pc' = "PacketPut" /\ it \in 1..5 /\ it' = it + 1
      /\ bytes' = bytes /\ success' = HasRoom(tx)
      /\ bytes[it] \in Byte
  BY DEF OutChar, LinkInv, TypeOK, PACKET_NB_BYTES
<1>2. HasRoom(tx) /\ a \in Nat
  BY <1>1, PutHasRoom
<1>3. Output' = Append(Output, bytes[it])
  BY <1>2, OutputSteps DEF Next, Main
<1>4. /\ Output \in Seq(Byte) /\ Len(Output') = Len(Output) + 1
      /\ \A i \in 1..Len(Output) : Output'[i] = Output[i]
      /\ Output'[Len(Output) + 1] = bytes[it]
  BY <1>1, <1>3, OutputType, AppendProperties
<1>5. /\ Len(Output) = 5 * a + (it - 1)
      /\ \A k \in 0..a-1 : Sent(k)
      /\ bytes \in Answers(n)
      /\ \A j \in 1..it-1 : Output[5 * a + j] = bytes[j]
  BY <1>1 DEF Answering
<1>6. a' = a /\ Answers(n)' = Answers(n)
  BY ScriptStays
<1> HIDE DEF a
<1>7. ASSUME NEW k \in 0..a-1
      PROVE  Sent(k)'
  <2>1. \A j \in 1..5 : 5 * k + j \in 1..Len(Output)
    BY <1>1, <1>2, <1>5
  <2>2. \A j \in 1..5 : Output'[5 * k + j] = Output[5 * k + j]
    BY <1>4, <2>1
  <2> QED BY <1>5, <2>2, SentStays
<1>8. ASSUME NEW j \in 1..it'-1
      PROVE  Output'[5 * a + j] = bytes[j]
  <2>1. CASE j \in 1..it-1
    <3>1. 5 * a + j \in 1..Len(Output)
      BY <1>1, <1>2, <1>5, <2>1
    <3> QED BY <1>4, <1>5, <2>1, <3>1
  <2>2. CASE j = it
    <3>1. 5 * a + j = Len(Output) + 1
      BY <1>1, <1>2, <1>5, <2>2
    <3> QED BY <1>4, <2>2, <3>1
  <2> QED BY <1>1, <2>1, <2>2
<1>9. Len(Output') = 5 * a + (it' - 1)
  BY <1>1, <1>2, <1>4, <1>5
<1> QED BY <1>1, <1>2, <1>5, <1>6, <1>7, <1>8, <1>9 DEF Answering, a

(* The answer is complete, and counts.                                       *)
LEMMA ArmOutputAnswers ==
  ASSUME LinkInv, script \in Scripts, NEW n \in 1..Len(script), Answering(n),
         script' = script, ArmOutput
  PROVE  Answering(n)'
<1> DEFINE a == AnswersBefore(n)
<1>1. /\ pc = "PacketPut" /\ pc' = "PacketGet" /\ it = 6
      /\ tx' = tx /\ line' = line
  BY DEF ArmOutput, LinkInv, TypeOK, PACKET_NB_BYTES
<1>2. Output' = Output
  BY <1>1 DEF Output, Contents
<1>3. /\ Len(Output) = 5 * a + (it - 1)
      /\ \A k \in 0..a-1 : Sent(k)
      /\ bytes \in Answers(n)
      /\ \A j \in 1..it-1 : Output[5 * a + j] = bytes[j]
  BY <1>1 DEF Answering
<1>4. n \in Answerable
  BY <1>3 DEF Answerable
<1>5. a \in Nat /\ AnswersBefore(n + 1)' = a + 1
  BY <1>4, StreamType, AnswersCount, ScriptStays
<1>6. Sent(a)
  <2>1. \A j \in 1..5 : Output[5 * a + j] = bytes[j]
    BY <1>1, <1>3
  <2> QED BY <1>3, <1>4, <2>1 DEF Sent
<1> HIDE DEF a
<1>7. \A k \in 0..(a + 1)-1 : Sent(k)'
  <2>1. \A k \in 0..(a + 1)-1 : Sent(k)
    BY <1>3, <1>5, <1>6
  <2> QED BY <1>2, <2>1, SentStays
<1>8. Len(Output') = 5 * (a + 1) + 0
  BY <1>1, <1>2, <1>3, <1>5
<1> QED BY <1>1, <1>5, <1>7, <1>8 DEF Answering

-----------------------------------------------------------------------------
(* The invariant, action by action.                                          *)

LEMMA InitFirmwareInv ==
  ASSUME FirmwareInit
  PROVE  FirmwareInv
<1>1. LinkInv /\ script \in Scripts /\ Loading
  BY InitLinkInv DEF FirmwareInit, Loading
<1>2. /\ Len(Stream) = 5 * Len(script) /\ Len(script) \in Nat
      /\ host = Stream /\ rx.NbBytes = 0 /\ RDRF = FALSE /\ Loaded = 0
  BY <1>1, StreamType DEF FirmwareInit, Init, EmptyFifo, Stream, Loaded
<1>3. Decoded = 0
  BY <1>2 DEF Decoded
<1>4. Arriving
  <2>1. \A i \in 1..Len(host) : host[i] = Stream[0 + 0 + 0 + i]
    BY <1>2
  <2> QED BY <1>2, <1>3, <2>1 DEF Arriving
<1>5. Decoding(0)
  BY <1>3 DEF Decoding, FirmwareInit, Init
<1>6. Storing(0)
  <2>1. sector = Only(0..7) /\ 0..7 \in Byte /\ Only(0..7)[1] = 0..7
    BY DEF FirmwareInit, Flash!Init, Only, Byte
  <2> QED BY <2>1 DEF Storing, FirmwareInit, Flash!Init, Init
<1>7. Answering(0)
  <2>1. Output = <<>> /\ Len(Output) = 0
    <3>1. line = <<>> /\ Contents(tx) = <<>>
      BY EmptyContents DEF FirmwareInit, Init
    <3> QED BY <3>1, ConcatEmptySeq, EmptySeq DEF Output
  <2>2. AnswersBefore(1) = 0
    BY <1>2, AnswersCount
  <2> QED BY <2>1, <2>2 DEF Answering, FirmwareInit, Init
<1>8. ServingInv
  BY <1>2, <1>5, <1>6, <1>7 DEF ServingInv
<1> QED BY <1>1, <1>4, <1>8 DEF FirmwareInv

(* Steps that neither decode nor send.                                       *)
LEMMA QuietInv ==
  ASSUME LinkInv', script \in Scripts, script' = script, Loading', Arriving',
         Decoded' = Decoded, Output' = Output, UNCHANGED <<packet, pc, sending>>,
         NEW n \in 0..Len(script), Decoding(n), Answering(n), Storing(n)'
  PROVE  FirmwareInv'
<1>1. Decoding(n)'
  BY QuietDecodes
<1>2. Answering(n)'
  BY QuietAnswers
<1>3. ServingInv'
  BY <1>1, <1>2 DEF ServingInv
<1> QED BY <1>3 DEF FirmwareInv

(* Steps of the flash, the timer and the loads: the link stays as it is.     *)
LEMMA OffLinkInv ==
  ASSUME FirmwareInv, UNCHANGED link, script' = script, Loading',
         \A n \in 0..Len(script) : Decoding(n) /\ Storing(n) => Storing(n)'
  PROVE  FirmwareInv'
<1>1. PICK n \in 0..Len(script) : Decoding(n) /\ Storing(n) /\ Answering(n)
  BY DEF FirmwareInv, ServingInv
<1>2. LinkInv' /\ script \in Scripts
  BY StutterLinkInv DEF FirmwareInv, link, vars
<1>3. Arriving' /\ Decoded' = Decoded
  BY QuietArrives DEF FirmwareInv, link, hardware
<1>4. Output' = Output
  BY DEF link, Output, Contents
<1> QED BY <1>1, <1>2, <1>3, <1>4, QuietInv DEF link

LEMMA MeasuredInv ==
  ASSUME FirmwareInv, Measured
  PROVE  FirmwareInv'
<1>1. UNCHANGED <<link, script, loading, flash>> /\ Loading'
  BY DEF Measured, FirmwareInv, Loading, loading
<1>2. \A n : Storing(n) => Storing(n)'
  BY <1>1, QuietStores DEF link
<1> QED BY <1>1, <1>2, OffLinkInv

LEMMA LoadInv ==
  ASSUME FirmwareInv, LoadLo \/ LoadHi
  PROVE  FirmwareInv'
<1>1. UNCHANGED <<link, script, flash>> /\ Loading'
  BY DEF LoadLo, LoadHi, FirmwareInv, Loading
<1>2. \A n : Storing(n) => Storing(n)'
  BY <1>1, QuietStores DEF link
<1> QED BY <1>1, <1>2, OffLinkInv

LEMMA FlashStepInv ==
  ASSUME FirmwareInv, Construct \/ SetStarts \/ SetProgram \/ FlashDone
  PROVE  FirmwareInv'
<1>1. UNCHANGED <<link, script, Current, loading>>
  BY DEF Construct, SetStarts, SetProgram, FlashDone
<1>2. Loading'
  BY <1>1 DEF FirmwareInv, Loading, loading
<1>3. \A n : Storing(n) => Storing(n)'
  BY ConstructStores, SetStartsStores, SetProgramStores, FlashDoneStores
  DEF FirmwareInv
<1> QED BY <1>1, <1>2, <1>3, OffLinkInv

(* Bytes come in and go out.                                                 *)
LEMMA UartInv ==
  ASSUME FirmwareInv, Receives \/ Sends \/ Serves
  PROVE  FirmwareInv'
<1>1. /\ HostByte \/ ByteSent \/ UART_ISR
      /\ UNCHANGED <<script, Current, loading, flash>>
  BY DEF Receives, Sends, Serves, Linked
<1>2. PICK n \in 0..Len(script) : Decoding(n) /\ Storing(n) /\ Answering(n)
  BY DEF FirmwareInv, ServingInv
<1>3. LinkInv' /\ LinkInv /\ script \in Scripts /\ Arriving
  BY <1>1, NextLinkInv DEF FirmwareInv, Next
<1>4. Loading'
  BY <1>1 DEF FirmwareInv, Loading, loading
<1>5. UNCHANGED <<packet, pc, sending>>
  BY <1>1 DEF HostByte, ByteSent, UART_ISR
<1>6. Arriving' /\ Decoded' = Decoded
  <2>1. CASE ByteSent
    BY <1>1, <1>3, <2>1, QuietArrives DEF ByteSent
  <2> QED BY <1>1, <1>3, <2>1, HostByteArrives, UART_ISRArrives
<1>7. Output' = Output
  <2>1. ~OutChar
    BY <1>3, <1>5 DEF OutChar, sending, LinkInv, TypeOK, PACKET_NB_BYTES
  <2> QED BY <1>1, <1>3, <2>1, OutputSteps DEF Next
<1>8. Storing(n)'
  BY <1>1, <1>2, <1>5, QuietStores
<1> QED BY <1>1, <1>2, <1>3, <1>4, <1>5, <1>6, <1>7, <1>8, QuietInv

LEMMA PacketGetFirmware ==
  ASSUME FirmwareInv, Linked(PacketGet)
  PROVE  FirmwareInv'
<1>1. /\ PacketGet /\ flashPc # "Boot" /\ pc = "PacketGet"
      /\ UNCHANGED <<script, Current, loading, flash>> /\ UNCHANGED <<tx, line, sending>>
  BY DEF Linked, Booted, PacketGet
<1>2. PICK n \in 0..Len(script) : Decoding(n) /\ Storing(n) /\ Answering(n)
  BY DEF FirmwareInv, ServingInv
<1>3. LinkInv' /\ LinkInv /\ script \in Scripts /\ Arriving
  BY <1>1, NextLinkInv DEF FirmwareInv, Next, Main
<1>4. Loading' /\ Arriving'
  BY <1>1, <1>3, PacketGetArrives DEF FirmwareInv, Loading, loading
<1>5. Output' = Output
  BY <1>1 DEF Output, Contents
<1>6. CASE FirstFour(Oldest(rx)) /\ Decoding(n)'
  <2>1. pc' = pc
    BY <1>6 DEF FirstFour
  <2>2. Storing(n)' /\ Answering(n)'
    BY <1>1, <1>2, <1>5, <2>1, IdleStores, QuietAnswers
  <2> QED BY <1>1, <1>3, <1>4, <1>6, <2>2 DEF FirmwareInv, ServingInv
<1>7. CASE GoodChecksum(Oldest(rx)) /\ n + 1 \in 1..Len(script) /\ Decoding(n + 1)'
  <2>1. pc' = "Handle" /\ n \in Nat
    BY <1>7 DEF GoodChecksum
  <2>2. Storing(n + 1)' /\ Answering(n + 1)'
    BY <1>1, <1>2, <1>5, <2>1, RequestStores, RequestAnswers
  <2>3. n + 1 \in 0..Len(script')
    BY <1>1, <1>7
  <2> QED BY <1>1, <1>3, <1>4, <1>7, <2>2, <2>3 DEF FirmwareInv, ServingInv
<1> QED BY <1>1, <1>2, <1>3, <1>6, <1>7, PacketGetDecodes

(* What a request may be answered, by its code.                              *)
LEMMA CodesDiffer ==
  /\ IDMT # FREQUENCY /\ IDMT # CURRENT /\ IDMT # NB_TIME_TRIPPED
  /\ FREQUENCY # CURRENT /\ FREQUENCY # NB_TIME_TRIPPED
  /\ CURRENT # NB_TIME_TRIPPED
<1>1. /\ 0 \in N1 /\ 0 \notin N0 /\ 0 \notin N2 /\ 0 \in N3
      /\ 1 \notin N1 /\ 1 \notin N0 /\ 1 \in N2 /\ 1 \in N3
  BY DEF N0, N1, N2, N3
<1> QED BY <1>1 DEF IDMT, FREQUENCY, CURRENT, NB_TIME_TRIPPED

LEMMA SettingAnswer ==
  ASSUME NEW n, script[n][1] = CMD_DOR, script[n][2] = IDMT
  PROVE  Answers(n) = Replies(CMD_DOR, N0, {<<N1, SettingAfter(n)>>})
BY CodesDiffer, SMT DEF Answers, AnswersTo

LEMMA FrequencyAnswer ==
  ASSUME NEW n, script[n][1] = CMD_DOR, script[n][2] = FREQUENCY
  PROVE  Answers(n) = Replies(CMD_DOR, N1, Readings)
BY CodesDiffer, SMT DEF Answers, AnswersTo

LEMMA CurrentAnswer ==
  ASSUME NEW n, script[n][1] = CMD_DOR, script[n][2] = CURRENT
  PROVE  Answers(n) =
           Replies(CMD_DOR_CURRENT, N2, {<<a[1], b[2]>> : a, b \in Readings})
BY CodesDiffer, SMT DEF Answers, AnswersTo

LEMMA NbTripAnswer ==
  ASSUME NEW n, script[n][1] = CMD_DOR, script[n][2] = NB_TIME_TRIPPED
  PROVE  Answers(n) = Replies(CMD_DOR, N3, {<<0..7, 0..7>>})
BY CodesDiffer, SMT DEF Answers, AnswersTo

LEMMA NoAnswer ==
  ASSUME NEW n, script[n][1] # CMD_DOR
  PROVE  Answers(n) = {}
BY SMT DEF Answers, AnswersTo

LEMMA OtherNoAnswer ==
  ASSUME NEW n, script[n][1] = CMD_DOR,
         script[n][2] # IDMT, script[n][2] # FREQUENCY,
         script[n][2] # CURRENT, script[n][2] # NB_TIME_TRIPPED
  PROVE  Answers(n) = {}
BY SMT DEF Answers, AnswersTo

LEMMA Reply ==
  ASSUME NEW c, NEW p, NEW values, NEW v \in values
  PROVE  PacketOf(<<c, p, v[1], v[2]>>) \in Replies(c, p, values)
BY DEF Replies

(* A handler that answers its request.                                       *)
LEMMA ReplyInv ==
  ASSUME FirmwareInv, script' = script, Loading', pc = "Handle",
         NEW n \in 0..Len(script), Decoding(n), Answering(n), Storing(n)',
         NEW c \in Byte, NEW p1 \in Byte, NEW p2 \in Byte, NEW p3 \in Byte,
         Answer(c, p1, p2, p3), PacketOf(<<c, p1, p2, p3>>) \in Answers(n)
  PROVE  FirmwareInv'
<1>1. LinkInv /\ LinkInv' /\ script \in Scripts
  BY AnswerInv DEF FirmwareInv
<1>2. UNCHANGED <<hardware, rx, packet>> /\ pc' = "PacketPut"
  BY DEF Answer
<1>3. Arriving' /\ Decoded' = Decoded
  BY <1>2, QuietArrives DEF FirmwareInv, hardware
<1>4. Decoding(n)'
  BY <1>2, <1>3, QuietDecodes
<1>5. Answering(n)'
  BY <1>1, ReplyAnswers
<1> QED BY <1>1, <1>3, <1>4, <1>5 DEF FirmwareInv, ServingInv

(* At the start of a handler, with the flash at rest.                        *)
LEMMA HandlingFacts ==
  ASSUME FirmwareInv, pc = "Handle",
         NEW n \in 0..Len(script), Decoding(n), Storing(n)
  PROVE  /\ n \in 1..Len(script) /\ Len(script) \in Nat
         /\ command = script[n][1] /\ parameter1 = script[n][2]
         /\ parameter2 = script[n][3] /\ parameter3 = script[n][4]
         /\ setting = 0 /\ nBTrip = 2 /\ flashPc # "Boot"
         /\ ~(Handling(IDMT) /\ parameter2 # N1) =>
              /\ flashPc = "Idle"
              /\ SettingAfter(n) = SettingAfter(n - 1)
              /\ sector = Only(SettingAfter(n)) /\ sector[1] = SettingAfter(n)
<1>1. Len(script) \in Nat
  BY StreamType DEF FirmwareInv
<1>2. n \in 1..Len(script)
  BY <1>1 DEF Decoding
<1>3. /\ command = script[n][1] /\ parameter1 = script[n][2]
      /\ parameter2 = script[n][3] /\ parameter3 = script[n][4]
  BY DEF Decoding
<1>4. flashPc # "Boot" /\ setting = 0 /\ nBTrip = 2
  BY DEF Storing
<1>5. ASSUME ~(Handling(IDMT) /\ parameter2 # N1)
      PROVE  /\ flashPc = "Idle"
             /\ SettingAfter(n) = SettingAfter(n - 1)
             /\ sector = Only(SettingAfter(n)) /\ sector[1] = SettingAfter(n)
  <2>1. flashPc = "Idle"
    BY <1>4, <1>5 DEF Storing
  <2>2. ~Sets(script[n])
    BY <1>3, <1>5 DEF Sets, Handling
  <2>3. SettingAfter(n) = SettingAfter(n - 1)
    BY <1>1, <1>2, <2>2, SettingStep
  <2>4. sector = Only(SettingAfter(n))
    BY <2>1, <2>3 DEF Storing
  <2> QED BY <2>1, <2>3, <2>4 DEF Only
<1> QED BY <1>1, <1>2, <1>3, <1>4, <1>5

LEMMA HandleFrequencyFirmware ==
  ASSUME FirmwareInv, Linked(HandleFrequency)
  PROVE  FirmwareInv'
<1>1. /\ Handling(FREQUENCY) /\ pc = "Handle" /\ command = CMD_DOR
      /\ parameter1 = FREQUENCY
      /\ UNCHANGED <<script, Current, loading, flash>>
  BY DEF Linked, HandleFrequency, Handling
<1>2. PICK n \in 0..Len(script) : Decoding(n) /\ Storing(n) /\ Answering(n)
  BY DEF FirmwareInv, ServingInv
<1>3. PICK v \in Readings : Answer(CMD_DOR, N1, v[1], v[2])
  BY DEF Linked, HandleFrequency
<1>4. PacketOf(<<CMD_DOR, N1, v[1], v[2]>>) \in Answers(n)
  <2>1. script[n][1] = CMD_DOR /\ script[n][2] = FREQUENCY
    BY <1>1, <1>2, HandlingFacts
  <2>2. Answers(n) = Replies(CMD_DOR, N1, Readings)
    BY <2>1, FrequencyAnswer
  <2> QED BY <2>2, Reply
<1>5. v[1] \in Byte /\ v[2] \in Byte
  BY LinkAssumption
<1>6. pc' # "Handle" /\ ~Handling(IDMT)
  BY <1>1, <1>3 DEF Answer, Handling, IDMT, FREQUENCY, N0, N2
<1>7. Storing(n)' /\ Loading'
  BY <1>1, <1>2, <1>6, HandlingFacts, ServedStores DEF FirmwareInv, Loading, loading
<1> QED BY <1>1, <1>2, <1>3, <1>4, <1>5, <1>7, CodeTypes, ReplyInv

LEMMA AnswerCurrentFirmware ==
  ASSUME FirmwareInv, AnswerCurrent
  PROVE  FirmwareInv'
<1>1. /\ Handling(CURRENT) /\ pc = "Handle" /\ command = CMD_DOR
      /\ parameter1 = CURRENT /\ argLo' = None /\ argHi' = None
      /\ UNCHANGED <<script, Current, flash>>
  BY DEF AnswerCurrent, Handling
<1>2. PICK n \in 0..Len(script) : Decoding(n) /\ Storing(n) /\ Answering(n)
  BY DEF FirmwareInv, ServingInv
<1>3. PICK lo \in Byte, hi \in Byte :
        argLo = lo /\ argHi = hi /\ Answer(CMD_DOR_CURRENT, N2, lo, hi)
  BY DEF AnswerCurrent
<1>4. \E a, b \in Readings : lo = a[1] /\ hi = b[2]
  BY <1>3, ScriptAssumption DEF FirmwareInv, Loading
<1>5. PacketOf(<<CMD_DOR_CURRENT, N2, lo, hi>>) \in Answers(n)
  <2> DEFINE values == {<<a[1], b[2]>> : a, b \in Readings}
             v == <<lo, hi>>
  <2>1. v \in values /\ v[1] = lo /\ v[2] = hi
    BY <1>4
  <2>2. Answers(n) = Replies(CMD_DOR_CURRENT, N2, values)
    <3>1. script[n][1] = CMD_DOR /\ script[n][2] = CURRENT
      BY <1>1, <1>2, HandlingFacts
    <3> QED BY <3>1, CurrentAnswer
  <2> HIDE DEF values, v
  <2>3. PacketOf(<<CMD_DOR_CURRENT, N2, v[1], v[2]>>) \in Replies(CMD_DOR_CURRENT, N2, values)
    BY <2>1, Reply
  <2> QED BY <2>1, <2>2, <2>3
<1>6. pc' # "Handle" /\ ~Handling(IDMT)
  BY <1>1, <1>3 DEF Answer, Handling, IDMT, CURRENT, N0, N1
<1>7. Storing(n)' /\ Loading'
  BY <1>1, <1>2, <1>6, HandlingFacts, ServedStores DEF FirmwareInv, Loading
<1> QED BY <1>1, <1>2, <1>3, <1>5, <1>7, CodeTypes, ReplyInv

LEMMA GetSettingFirmware ==
  ASSUME FirmwareInv, GetSetting
  PROVE  FirmwareInv'
<1>1. /\ Handling(IDMT) /\ pc = "Handle" /\ command = CMD_DOR /\ parameter1 = IDMT
      /\ parameter2 = N1 /\ Answer(CMD_DOR, N0, N1, sector[setting + 1])
      /\ UNCHANGED <<script, Current, loading, flash>>
  BY DEF GetSetting, Handling
<1>2. PICK n \in 0..Len(script) : Decoding(n) /\ Storing(n) /\ Answering(n)
  BY DEF FirmwareInv, ServingInv
<1> DEFINE s == sector[setting + 1]
<1>3. s = SettingAfter(n) /\ s \in Byte
  <2>1. setting = 0 /\ sector[1] = SettingAfter(n)
    BY <1>1, <1>2, HandlingFacts
  <2>2. sector[1] \in Byte
    BY <1>2 DEF Storing
  <2>3. setting + 1 = 1
    BY <2>1
  <2> QED BY <2>1, <2>2, <2>3
<1> HIDE DEF s
<1>4. PacketOf(<<CMD_DOR, N0, N1, s>>) \in Answers(n)
  <2> DEFINE v == <<N1, s>>
  <2>1. v \in {<<N1, SettingAfter(n)>>} /\ v[1] = N1 /\ v[2] = s
    BY <1>3
  <2>2. Answers(n) = Replies(CMD_DOR, N0, {<<N1, SettingAfter(n)>>})
    <3>1. script[n][1] = CMD_DOR /\ script[n][2] = IDMT
      BY <1>1, <1>2, HandlingFacts
    <3> QED BY <3>1, SettingAnswer
  <2> HIDE DEF v
  <2>3. PacketOf(<<CMD_DOR, N0, v[1], v[2]>>) \in Replies(CMD_DOR, N0, {<<N1, SettingAfter(n)>>})
    BY <2>1, Reply
  <2> QED BY <2>1, <2>2, <2>3
<1>5. pc' # "Handle" /\ Answer(CMD_DOR, N0, N1, s)
  BY <1>1 DEF Answer, s
<1>6. Storing(n)' /\ Loading'
  BY <1>1, <1>2, <1>5, HandlingFacts, ServedStores DEF FirmwareInv, Loading, loading
<1> QED BY <1>1, <1>2, <1>3, <1>4, <1>5, <1>6, CodeTypes, ReplyInv

LEMMA SetReturnsFirmware ==
  ASSUME FirmwareInv, SetReturns
  PROVE  FirmwareInv'
<1>1. /\ Answer(CMD_DOR, N0, N1, parameter3)
      /\ UNCHANGED <<script, Current, loading>>
  BY DEF SetReturns
<1>2. PICK n \in 0..Len(script) : Decoding(n) /\ Storing(n) /\ Answering(n)
  BY DEF FirmwareInv, ServingInv
<1>3. Handling(IDMT) /\ pc = "Handle" /\ command = CMD_DOR /\ parameter1 = IDMT
  BY <1>2 DEF SetReturns, Flash!Return, Storing, Handling
<1>4. Storing(n)' /\ SettingAfter(n) = parameter3
  BY <1>2, <1>3, HandlingFacts, SetReturnsStores DEF FirmwareInv
<1>5. PacketOf(<<CMD_DOR, N0, N1, parameter3>>) \in Answers(n)
  <2> DEFINE v == <<N1, parameter3>>
  <2>1. v \in {<<N1, SettingAfter(n)>>} /\ v[1] = N1 /\ v[2] = parameter3
    BY <1>4
  <2>2. Answers(n) = Replies(CMD_DOR, N0, {<<N1, SettingAfter(n)>>})
    <3>1. script[n][1] = CMD_DOR /\ script[n][2] = IDMT
      BY <1>2, <1>3, HandlingFacts
    <3> QED BY <3>1, SettingAnswer
  <2> HIDE DEF v
  <2>3. PacketOf(<<CMD_DOR, N0, v[1], v[2]>>) \in Replies(CMD_DOR, N0, {<<N1, SettingAfter(n)>>})
    BY <2>1, Reply
  <2> QED BY <2>1, <2>2, <2>3
<1>6. parameter3 \in Byte
  BY DEF FirmwareInv, LinkInv, TypeOK
<1>7. Loading'
  BY <1>1 DEF FirmwareInv, Loading, loading
<1> QED BY <1>1, <1>2, <1>3, <1>4, <1>5, <1>6, <1>7, CodeTypes, ReplyInv

LEMMA GetNbTripFirmware ==
  ASSUME FirmwareInv, GetNbTrip
  PROVE  FirmwareInv'
<1>1. /\ Handling(NB_TIME_TRIPPED) /\ pc = "Handle" /\ command = CMD_DOR
      /\ parameter1 = NB_TIME_TRIPPED
      /\ Answer(CMD_DOR, N3, sector[nBTrip + 1], sector[nBTrip + 2])
      /\ UNCHANGED <<script, Current, loading, flash>>
  BY DEF GetNbTrip, Handling
<1>2. PICK n \in 0..Len(script) : Decoding(n) /\ Storing(n) /\ Answering(n)
  BY DEF FirmwareInv, ServingInv
<1>3. ~Handling(IDMT)
  BY <1>1 DEF Handling, IDMT, NB_TIME_TRIPPED, N0, N3
<1>4. sector[nBTrip + 1] = 0..7 /\ sector[nBTrip + 2] = 0..7
  <2>1. nBTrip = 2 /\ sector = Only(SettingAfter(n))
    BY <1>1, <1>2, <1>3, HandlingFacts
  <2>2. sector[3] = 0..7 /\ sector[4] = 0..7
    BY <2>1 DEF Only
  <2>3. nBTrip + 1 = 3 /\ nBTrip + 2 = 4
    BY <2>1
  <2> QED BY <2>2, <2>3
<1> DEFINE e == 0..7
<1>5. Answer(CMD_DOR, N3, e, e) /\ e \in Byte
  BY <1>1, <1>4 DEF Byte
<1>6. PacketOf(<<CMD_DOR, N3, e, e>>) \in Answers(n)
  <2> DEFINE v == <<e, e>>
  <2>1. Answers(n) = Replies(CMD_DOR, N3, {<<e, e>>})
    <3>1. script[n][1] = CMD_DOR /\ script[n][2] = NB_TIME_TRIPPED
      BY <1>1, <1>2, HandlingFacts
    <3> QED BY <3>1, NbTripAnswer
  <2> HIDE DEF e
  <2>2. v \in {<<e, e>>} /\ v[1] = e /\ v[2] = e
    OBVIOUS
  <2> HIDE DEF v
  <2>3. PacketOf(<<CMD_DOR, N3, v[1], v[2]>>) \in Replies(CMD_DOR, N3, {<<e, e>>})
    BY <2>2, Reply
  <2> QED BY <2>1, <2>2, <2>3
<1> HIDE DEF e
<1>7. pc' # "Handle"
  BY <1>5 DEF Answer
<1>8. Storing(n)' /\ Loading'
  BY <1>1, <1>2, <1>3, <1>7, HandlingFacts, ServedStores DEF FirmwareInv, Loading, loading
<1> QED BY <1>1, <1>2, <1>5, <1>6, <1>8, CodeTypes, ReplyInv

(* A request that has no handler has no answer.                              *)
LEMMA NoHandlerFirmware ==
  ASSUME FirmwareInv, Linked(NoHandler)
  PROVE  FirmwareInv'
<1>1. /\ NoHandler /\ pc = "Handle" /\ pc' = "PacketGet"
      /\ ~(command = CMD_DOR /\ parameter1 \in {IDMT, FREQUENCY, CURRENT, NB_TIME_TRIPPED})
      /\ UNCHANGED <<hardware, rx, tx, line, packet, script, Current, loading, flash>>
  BY DEF Linked, NoHandler
<1>2. PICK n \in 0..Len(script) : Decoding(n) /\ Storing(n) /\ Answering(n)
  BY DEF FirmwareInv, ServingInv
<1>3. LinkInv' /\ LinkInv /\ script \in Scripts
  BY <1>1, NextLinkInv DEF FirmwareInv, Next, Main, Handler
<1>4. Loading' /\ Arriving' /\ Decoded' = Decoded
  BY <1>1, QuietArrives DEF FirmwareInv, Loading, loading, hardware
<1>5. Output' = Output
  BY <1>1 DEF Output, Contents
<1>6. n \in 1..Len(script) /\ Len(script) \in Nat /\ n \notin Answerable
  <2>1. /\ n \in 1..Len(script) /\ Len(script) \in Nat
        /\ command = script[n][1] /\ parameter1 = script[n][2]
    BY <1>1, <1>2, HandlingFacts
  <2>2. Answers(n) = {}
    BY <1>1, <2>1, NoAnswer, OtherNoAnswer
  <2> QED BY <2>1, <2>2 DEF Answerable
<1>7. Decoding(n)'
  BY <1>1, <1>2, <1>4, QuietDecodes
<1>8. Answering(n)'
  BY <1>1, <1>2, <1>5, <1>6, NoReplyAnswers
<1>9. Storing(n)'
  <2>1. ~Handling(IDMT)
    BY <1>1 DEF Handling
  <2> QED BY <1>1, <1>2, <2>1, HandlingFacts, ServedStores
<1> QED BY <1>1, <1>3, <1>4, <1>7, <1>8, <1>9 DEF FirmwareInv, ServingInv

(* PacketPut: no byte is refused, and none given up.                         *)
LEMMA PacketPutFirmware ==
  ASSUME FirmwareInv, Linked(OutChar) \/ Linked(GiveUp) \/ Linked(ArmOutput)
  PROVE  FirmwareInv'
<1>1. /\ OutChar \/ GiveUp \/ ArmOutput
      /\ flashPc # "Boot" /\ pc = "PacketPut" /\ pc' \in {"PacketPut", "PacketGet"}
      /\ UNCHANGED <<hardware, rx, packet, script, Current, loading, flash>>
  BY DEF Linked, Booted, OutChar, GiveUp, ArmOutput
<1>2. PICK n \in 0..Len(script) : Decoding(n) /\ Storing(n) /\ Answering(n)
  BY DEF FirmwareInv, ServingInv
<1>3. LinkInv' /\ LinkInv /\ script \in Scripts
  BY <1>1, NextLinkInv DEF FirmwareInv, Next, Main
<1>4. Loading' /\ Arriving' /\ Decoded' = Decoded
  BY <1>1, QuietArrives DEF FirmwareInv, Loading, loading, hardware
<1>5. n \in 1..Len(script)
  BY <1>1, <1>2, <1>3, StreamType DEF Decoding
<1>6. Decoding(n)'
  BY <1>1, <1>2, <1>4, QuietDecodes
<1>7. Storing(n)'
  BY <1>1, <1>2, IdleStores
<1>8. ~GiveUp
  BY <1>1, <1>2 DEF GiveUp, Answering
<1>9. Answering(n)'
  BY <1>1, <1>2, <1>3, <1>5, <1>8, OutCharAnswers, ArmOutputAnswers
<1> QED BY <1>1, <1>3, <1>4, <1>6, <1>7, <1>9 DEF FirmwareInv, ServingInv

LEMMA NextFirmwareInv ==
  ASSUME FirmwareInv, [FirmwareNext]_firmware
  PROVE  FirmwareInv'
<1>1. CASE UNCHANGED firmware
  <2>1. UNCHANGED <<link, script, loading, flash>> /\ Loading'
    BY <1>1 DEF firmware, FirmwareInv, Loading, loading
  <2>2. \A n : Storing(n) => Storing(n)'
    BY <2>1, QuietStores DEF link
  <2> QED BY <2>1, <2>2, OffLinkInv
<1>2. CASE MainLoop
  <2>1. CASE Linked(PacketGet \/ HandleFrequency \/ NoHandler \/ OutChar \/ GiveUp \/ ArmOutput)
    <3>1. \/ Linked(PacketGet) \/ Linked(HandleFrequency) \/ Linked(NoHandler)
          \/ Linked(OutChar) \/ Linked(GiveUp) \/ Linked(ArmOutput)
      BY <2>1 DEF Linked
    <3> QED BY <3>1, PacketGetFirmware, HandleFrequencyFirmware, NoHandlerFirmware,
               PacketPutFirmware
  <2> QED BY <1>2, <2>1, LoadInv, AnswerCurrentFirmware, GetSettingFirmware,
             FlashStepInv, SetReturnsFirmware, GetNbTripFirmware DEF MainLoop
<1> QED BY <1>1, <1>2, MeasuredInv, FlashStepInv, UartInv DEF FirmwareNext

-----------------------------------------------------------------------------
(* The theorems.                                                             *)

(* Of the composed firmware, FirmwareInv always holds.                       *)
THEOREM FirmwareInvariant == FirmwareSpec => []FirmwareInv
<1>1. FirmwareInit => FirmwareInv
  BY InitFirmwareInv
<1>2. FirmwareInv /\ [FirmwareNext]_firmware => FirmwareInv'
  BY NextFirmwareInv
<1> QED BY <1>1, <1>2, PTL DEF FirmwareSpec

(* Whatever flash, the timer and the handlers do in between, the rings of    *)
(* the link stay consistent and no byte waits without an interrupt due.      *)
THEOREM LinkKept == FirmwareSpec => []LinkInv
<1>1. FirmwareInv => LinkInv
  BY DEF FirmwareInv
<1> QED BY <1>1, FirmwareInvariant, PTL

(* An answer is a packet.                                                    *)
LEMMA AnswerShape ==
  ASSUME NEW n, NEW answer \in Answers(n)
  PROVE  \E c, p, v, w, sum : answer = <<c, p, v, w, sum>>
<1>1. ASSUME NEW c, NEW p, NEW values, answer \in Replies(c, p, values)
      PROVE  \E d, q, v, w, sum : answer = <<d, q, v, w, sum>>
  <2>1. PICK v \in values : answer = PacketOf(<<c, p, v[1], v[2]>>)
    BY <1>1 DEF Replies
  <2>2. answer = <<c, p, v[1], v[2], MakeChecksum(c, p, v[1], v[2])>>
    BY <2>1 DEF PacketOf
  <2> QED BY <2>2
<1>2. script[n][1] = CMD_DOR
  BY NoAnswer
<1>3. \/ script[n][2] = IDMT \/ script[n][2] = FREQUENCY
      \/ script[n][2] = CURRENT \/ script[n][2] = NB_TIME_TRIPPED
  BY <1>2, OtherNoAnswer
<1>4. \E c, p, values : answer \in Replies(c, p, values)
  <2>1. CASE script[n][2] = IDMT
    BY <1>2, <2>1, SettingAnswer
  <2>2. CASE script[n][2] = FREQUENCY
    BY <1>2, <2>2, FrequencyAnswer
  <2>3. CASE script[n][2] = CURRENT
    <3> DEFINE values == {<<a[1], b[2]>> : a, b \in Readings}
    <3>1. Answers(n) = Replies(CMD_DOR_CURRENT, N2, values)
      BY <1>2, <2>3, CurrentAnswer
    <3> HIDE DEF values
    <3> QED BY <3>1
  <2>4. CASE script[n][2] = NB_TIME_TRIPPED
    BY <1>2, <2>4, NbTripAnswer
  <2> QED BY <1>3, <2>1, <2>2, <2>3, <2>4
<1> QED BY <1>1, <1>4

(* What has been sent of an answer is a prefix of it.                        *)
LEMMA SentPrefix ==
  ASSUME NEW out \in Seq(Byte), NEW n, NEW answer \in Answers(n),
         NEW k \in Nat, NEW i \in 1..Len(out), 5 * k + 1 <= i, i <= 5 * k + 5,
         \A j \in 1..i - 5 * k : out[5 * k + j] = answer[j]
  PROVE  IsPrefix(SubSeq(out, 5 * k + 1, i), answer)
<1> DEFINE s == SubSeq(out, 5 * k + 1, i)
           l == i - 5 * k
<1>1. /\ Len(out) \in Nat /\ i \in Int /\ 5 * k + 1 \in Int /\ l \in 1..5
      /\ i - (5 * k + 1) + 1 = l
  BY LenProperties
<1>2. \A j \in 5 * k + 1 .. i : out[j] \in Byte
  BY <1>1, ElementOfSeq
<1>3. s \in Seq(Byte) /\ Len(s) = l /\ \A j \in 1..l : s[j] = out[5 * k + 1 + j - 1]
  <2>1. \A j \in 1..i - (5 * k + 1) + 1 : s[j] = out[5 * k + 1 + j - 1]
    BY <1>1, <1>2, SubSeqProperties
  <2> QED BY <1>1, <1>2, <2>1, SubSeqProperties
<1>4. \A j \in 1..l : s[j] = answer[j]
  <2>1. \A j \in 1..l : 5 * k + 1 + j - 1 = 5 * k + j
    BY <1>1
  <2> QED BY <1>3, <2>1
<1>5. Len(answer) = 5
  BY AnswerShape
<1> HIDE DEF s, l
<1>6. \A j \in 1..l : s[j] \in Byte /\ answer[j] \in Byte
  BY <1>3, <1>4, ElementOfSeq
<1>7. /\ SubSeq(s, 1, l) \in Seq(Byte) /\ SubSeq(answer, 1, l) \in Seq(Byte)
      /\ Len(SubSeq(s, 1, l)) = l /\ Len(SubSeq(answer, 1, l)) = l
      /\ \A j \in 1..l : SubSeq(s, 1, l)[j] = s[j]
      /\ \A j \in 1..l : SubSeq(answer, 1, l)[j] = answer[j]
  <2>1. 1 \in Int /\ l \in Int /\ 1 <= l /\ l - 1 + 1 = l /\ \A j \in 1..l : 1 + j - 1 = j
    BY <1>1
  <2>2. /\ SubSeq(s, 1, l) \in Seq(Byte)
        /\ Len(SubSeq(s, 1, l)) = (IF 1 <= l THEN l - 1 + 1 ELSE 0)
        /\ \A j \in 1..l - 1 + 1 : SubSeq(s, 1, l)[j] = s[1 + j - 1]
    BY <1>6, <2>1, SubSeqProperties
  <2>3. /\ SubSeq(answer, 1, l) \in Seq(Byte)
        /\ Len(SubSeq(answer, 1, l)) = (IF 1 <= l THEN l - 1 + 1 ELSE 0)
        /\ \A j \in 1..l - 1 + 1 : SubSeq(answer, 1, l)[j] = answer[1 + j - 1]
    BY <1>6, <2>1, SubSeqProperties
  <2> QED BY <2>1, <2>2, <2>3
<1>8. SubSeq(s, 1, l) = SubSeq(answer, 1, l)
  <2>1. \A j \in 1..l : SubSeq(s, 1, l)[j] = SubSeq(answer, 1, l)[j]
    BY <1>4, <1>7
  <2> QED BY <1>7, <2>1, SeqEqual
<1>9. IsPrefix(s, answer)
  BY <1>1, <1>3, <1>5, <1>8 DEF IsPrefix
<1> QED BY <1>9 DEF s

(* The answers already sent, and the one being sent, are what the property   *)
(* asks for.                                                                 *)
LEMMA AnsweringOrders ==
  ASSUME LinkInv, script \in Scripts, NEW n \in 0..Len(script), Answering(n),
         pc # "PacketGet" => n >= 1
  PROVE  AnswersInOrder
<1> DEFINE answered == AnswersBefore(IF pc = "PacketGet" THEN n + 1 ELSE n)
           part == IF pc = "PacketPut" THEN it - 1 ELSE 0
<1>1. Len(script) \in Nat /\ pc \in {"PacketGet", "Handle", "PacketPut"} /\ it \in 1..6
  BY StreamType DEF LinkInv, TypeOK, PACKET_NB_BYTES
<1>2. Output \in Seq(Byte) /\ Len(Output) \in Nat
  BY OutputType, LenProperties
<1>3. /\ answered \in Nat /\ answered <= Cardinality(Answerable)
      /\ Cardinality(Answerable) \in Nat /\ part \in 0..5
  <2>1. IsFiniteSet(Answerable)
    <3>1. IsFiniteSet(1..Len(script)) /\ Answerable \in SUBSET (1..Len(script))
      BY <1>1, FS_Interval DEF Answerable
    <3> QED BY <3>1, FS_Subset
  <2>2. Cardinality(Answerable) \in Nat
    BY <2>1, FS_CardinalityType
  <2>3. CASE pc = "PacketGet"
    BY <1>1, <2>2, <2>3, AnswersCount
  <2>4. CASE pc # "PacketGet"
    BY <1>1, <2>2, <2>4, AnswersCount
  <2> QED BY <2>3, <2>4
<1>4. /\ Len(Output) = 5 * answered + part
      /\ \A k \in 0..answered-1 : Sent(k)
      /\ pc = "PacketPut" =>
           /\ bytes \in Answers(n)
           /\ \A j \in 1..it-1 : Output[5 * answered + j] = bytes[j]
  BY DEF Answering
<1>5. pc = "PacketPut" =>
        n \in Answerable /\ AnswersBefore(n) = answered /\ answered + 1 <= Cardinality(Answerable)
  <2>1. SUFFICES ASSUME pc = "PacketPut"
                 PROVE  /\ n \in Answerable /\ AnswersBefore(n) = answered
                        /\ answered + 1 <= Cardinality(Answerable)
    OBVIOUS
  <2>2. n \in 1..Len(script) /\ AnswersBefore(n) = answered
    BY <1>1, <2>1
  <2>3. n \in Answerable
    BY <1>4, <2>1, <2>2 DEF Answerable
  <2>4. n + 1 \in 0..Len(script)+1 /\ n \in 0..Len(script)+1
    BY <1>1, <2>2
  <2>5. AnswersBefore(n + 1) = AnswersBefore(n) + 1
    BY <1>1, <2>2, <2>3, <2>4, AnswersCount
  <2>6. AnswersBefore(n + 1) <= Cardinality(Answerable)
    BY <1>1, <2>4, AnswersCount
  <2> QED BY <2>2, <2>3, <2>5, <2>6
<1> HIDE DEF answered
<1>6. Len(Output) <= 5 * Cardinality(Answerable)
  <2>1. CASE pc = "PacketPut"
    BY <1>3, <1>4, <1>5, <2>1
  <2>2. CASE pc # "PacketPut"
    BY <1>3, <1>4, <2>2
  <2> QED BY <2>1, <2>2
<1>7. ASSUME NEW i \in 1..Len(Output)
      PROVE  \E m \in Answerable :
               /\ AnswersBefore(m) = (i - 1) \div 5
               /\ \E answer \in Answers(m) :
                    IsPrefix(SubSeq(Output, 5 * ((i - 1) \div 5) + 1, i), answer)
  <2> DEFINE k == (i - 1) \div 5
  <2>1. k \in Nat /\ 5 * k + 1 <= i /\ i <= 5 * k + 5
    BY <1>2
  <2> HIDE DEF k
  <2>2. k < answered \/ (k = answered /\ pc = "PacketPut" /\ i - 5 * k <= it - 1)
    BY <1>1, <1>2, <1>3, <1>4, <2>1
  <2>3. CASE k < answered
    <3>1. k \in 0..answered-1
      BY <1>3, <2>1, <2>3
    <3>2. PICK m \in Answerable :
            /\ AnswersBefore(m) = k
            /\ \E answer \in Answers(m) : \A j \in 1..5 : Output[5 * k + j] = answer[j]
      BY <1>4, <3>1 DEF Sent
    <3>3. PICK answer \in Answers(m) : \A j \in 1..5 : Output[5 * k + j] = answer[j]
      BY <3>2
    <3>4. \A j \in 1..i - 5 * k : j \in 1..5
      BY <1>2, <2>1
    <3>5. IsPrefix(SubSeq(Output, 5 * k + 1, i), answer)
      BY <1>2, <2>1, <3>3, <3>4, SentPrefix
    <3> QED BY <3>2, <3>5 DEF k
  <2>4. CASE k = answered /\ pc = "PacketPut" /\ i - 5 * k <= it - 1
    <3>1. n \in Answerable /\ AnswersBefore(n) = k /\ bytes \in Answers(n)
      BY <1>4, <1>5, <2>4
    <3>2. \A j \in 1..i - 5 * k : j \in 1..it-1
      BY <1>1, <1>2, <2>1, <2>4
    <3>3. \A j \in 1..i - 5 * k : Output[5 * k + j] = bytes[j]
      BY <1>4, <2>4, <3>2
    <3>4. IsPrefix(SubSeq(Output, 5 * k + 1, i), bytes)
      BY <1>2, <2>1, <3>1, <3>3, SentPrefix
    <3> QED BY <3>1, <3>4 DEF k
  <2> QED BY <2>2, <2>3, <2>4
<1> QED BY <1>6, <1>7 DEF AnswersInOrder, PACKET_NB_BYTES

(* The PC gets the answers to its requests whole, in their order, and with   *)
(* the setting as it was last set, while flash is written, the timer         *)
(* replaces the current and the UART fills and drains the rings.             *)
THEOREM AnswersAreInOrder == FirmwareSpec => []AnswersInOrder
<1>1. FirmwareInv => AnswersInOrder
  <2>1. SUFFICES ASSUME FirmwareInv
                 PROVE  AnswersInOrder
    OBVIOUS
  <2>2. PICK n \in 0..Len(script) : Decoding(n) /\ Answering(n)
    BY <2>1 DEF FirmwareInv, ServingInv
  <2>3. pc # "PacketGet" => n >= 1
    BY <2>2 DEF Decoding
  <2> QED BY <2>1, <2>2, <2>3, AnsweringOrders DEF FirmwareInv
<1> QED BY <1>1, FirmwareInvariant, PTL

=============================================================================
