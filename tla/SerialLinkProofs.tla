-------------------------- MODULE SerialLinkProofs --------------------------
(* Proofs about SerialLink for every ring size from 5 to 256, everything the *)
(* PC may send, and all values the handlers may read.                        *)
EXTENDS SerialLink, FifoProofs

LinkInv == TypeOK /\ FifosOK /\ UnarmedIsOwn

(* The codes of the protocol are bytes.                                      *)
LEMMA CodeTypes ==
  /\ N0 \in Byte /\ N1 \in Byte /\ N2 \in Byte /\ N3 \in Byte /\ Zero \in Byte
  /\ CMD_DOR \in Byte /\ CMD_DOR_CURRENT \in Byte
BY DEF N0, N1, N2, N3, Zero, CMD_DOR, CMD_DOR_CURRENT, Byte

LEMMA AppendType ==
  ASSUME NEW S, NEW s \in Seq(S), NEW e \in S
  PROVE  Append(s, e) \in Seq(S)
BY AppendProperties

LEMMA FifoOKType ==
  ASSUME NEW fifo, FifoOK(fifo)
  PROVE  fifo \in FifoType
BY DEF FifoOK

-----------------------------------------------------------------------------
(* Typing and ring consistency, action by action.                            *)

LEMMA InitLinkInv ==
  ASSUME Init
  PROVE  LinkInv
<1>1. FifoOK(EmptyFifo) /\ EmptyFifo \in FifoType
  BY EmptyFifoOK, FifoOKType
<1>2. <<>> \in Seq(Byte) /\ host \in Seq(Byte)
  BY LinkAssumption, EmptySeq DEF Init
<1>3. Zero \in Byte
  BY CodeTypes
<1>4. TypeOK
  <2>1. bytes \in [1..PACKET_NB_BYTES -> Byte]
    BY <1>3 DEF Init
  <2>2. nbBytesPacket \in 1..PACKET_NB_BYTES /\ it \in 1..PACKET_NB_BYTES + 1
    BY DEF Init, PACKET_NB_BYTES
  <2>3. /\ rx \in FifoType /\ tx \in FifoType /\ line \in Seq(Byte)
        /\ heard \in Seq(Byte) /\ request \in Seq(Byte)
    BY <1>1, <1>2 DEF Init
  <2> QED BY <1>2, <1>3, <2>1, <2>2, <2>3 DEF Init, TypeOK
<1>5. UnarmedIsOwn
  BY DEF Init, UnarmedIsOwn, EmptyFifo
<1> QED BY <1>1, <1>4, <1>5 DEF Init, LinkInv, FifosOK

LEMMA HostByteInv ==
  ASSUME LinkInv, HostByte
  PROVE  LinkInv'
<1>1. Head(host) \in Byte /\ Tail(host) \in Seq(Byte)
  BY HeadTailProperties DEF LinkInv, TypeOK, HostByte
<1>2. UNCHANGED <<TDRE, TIE, rx, tx, line, packet, pc, sending, history>>
  BY DEF HostByte
<1>3. TypeOK'
  BY <1>1, <1>2 DEF HostByte, LinkInv, TypeOK, packet, sending, history
<1> QED BY <1>2, <1>3 DEF LinkInv, FifosOK, UnarmedIsOwn, sending

LEMMA ByteSentInv ==
  ASSUME LinkInv, ByteSent
  PROVE  LinkInv'
BY DEF LinkInv, ByteSent, TypeOK, FifosOK, UnarmedIsOwn, packet, sending, history

(* The interrupt disarms the transmitter only when TxFIFO is empty, and      *)
(* never puts into it.                                                       *)
LEMMA UART_ISRInv ==
  ASSUME LinkInv, UART_ISR
  PROVE  LinkInv'
<1>1. UNCHANGED <<host, rxD, packet, pc, sending, history>>
  BY DEF UART_ISR
<1>2. FifoOK(rx') /\ rx' \in FifoType
  <2>1. FifoOK(rx')
    BY PutOK DEF UART_ISR, Receive, LinkInv, FifosOK, TypeOK
  <2> QED BY <2>1, FifoOKType
<1>3. /\ FifoOK(tx') /\ tx' \in FifoType /\ line' \in Seq(Byte)
      /\ TDRE' \in BOOLEAN /\ TIE' \in BOOLEAN
      /\ UnarmedIsOwn'
  <2>1. FifoOK(tx) /\ tx \in FifoType /\ line \in Seq(Byte)
    BY DEF LinkInv, FifosOK, TypeOK
  <2>2. CASE TIE /\ TDRE /\ HasData(tx)
    <3>1. tx' = Get(tx) /\ line' = Append(line, Oldest(tx)) /\ TDRE' = FALSE
          /\ TIE' = TIE
      BY <2>2 DEF UART_ISR, Transmit
    <3>2. FifoOK(tx') /\ tx' \in FifoType
      BY <2>1, <3>1, GetOK, FifoOKType
    <3>3. line' \in Seq(Byte)
      BY <2>1, <3>1, OldestType, AppendType
    <3>4. TIE' \in BOOLEAN /\ TDRE' \in BOOLEAN
      BY <3>1 DEF LinkInv, TypeOK
    <3>5. UnarmedIsOwn'
      BY <2>2, <3>1 DEF UnarmedIsOwn
    <3> QED BY <3>2, <3>3, <3>4, <3>5
  <2>3. CASE TIE /\ TDRE /\ ~HasData(tx)
    <3>1. TIE' = FALSE /\ UNCHANGED <<tx, line, TDRE>> /\ tx.NbBytes = 0
      BY <2>3 DEF UART_ISR, Transmit, HasData
    <3>2. it \in 1..6
      BY DEF LinkInv, TypeOK, PACKET_NB_BYTES
    <3>3. TIE' \in BOOLEAN /\ TDRE' \in BOOLEAN
      BY <3>1 DEF LinkInv, TypeOK
    <3>4. UnarmedIsOwn'
      BY <1>1, <3>1, <3>2 DEF UnarmedIsOwn, sending
    <3> QED BY <2>1, <3>1, <3>3, <3>4
  <2>4. CASE ~(TIE /\ TDRE)
    <3>1. UNCHANGED <<tx, line, TDRE, TIE>>
      BY <2>4 DEF UART_ISR, Transmit
    <3>2. TIE' \in BOOLEAN /\ TDRE' \in BOOLEAN
      BY <3>1 DEF LinkInv, TypeOK
    <3>3. UnarmedIsOwn'
      BY <1>1, <3>1 DEF LinkInv, UnarmedIsOwn, sending
    <3> QED BY <2>1, <3>1, <3>2, <3>3
  <2> QED BY <2>2, <2>3, <2>4
<1>4. RDRF' = FALSE
  BY DEF UART_ISR, Receive
<1>5. TypeOK'
  BY <1>1, <1>2, <1>3, <1>4 DEF LinkInv, TypeOK, packet, sending, history
<1> QED BY <1>2, <1>3, <1>5 DEF LinkInv, FifosOK

LEMMA PacketGetInv ==
  ASSUME LinkInv, PacketGet
  PROVE  LinkInv'
<1> DEFINE data == Oldest(rx)
<1>1. FifoOK(rx') /\ rx' \in FifoType /\ data \in Byte
  <2>1. FifoOK(rx) /\ rx' = Get(rx)
    BY DEF LinkInv, FifosOK, PacketGet
  <2> QED BY <2>1, GetOK, OldestType, FifoOKType
<1>2. UNCHANGED <<hardware, TIE, tx, line, sending>> /\ pc = "PacketGet"
  BY DEF PacketGet
<1>3. /\ nbBytesPacket' \in 1..PACKET_NB_BYTES
      /\ command' \in Byte /\ parameter1' \in Byte
      /\ parameter2' \in Byte /\ parameter3' \in Byte
      /\ pc' \in {"PacketGet", "Handle"}
      /\ heard' \in Seq(Byte) /\ request' \in Seq(Byte)
  <2> HIDE DEF data
  <2>1. heard \in Seq(Byte) /\ request \in Seq(Byte) /\ Append(heard, data) \in Seq(Byte)
    BY <1>1, AppendType DEF LinkInv, TypeOK
  <2>2. /\ nbBytesPacket \in 1..5 /\ command \in Byte
        /\ parameter1 \in Byte /\ parameter2 \in Byte /\ parameter3 \in Byte
    BY DEF LinkInv, TypeOK, PACKET_NB_BYTES
  <2>3. CASE FirstFour(data)
    BY <1>1, <1>2, <2>1, <2>2, <2>3 DEF FirstFour, PACKET_NB_BYTES
  <2>4. CASE GoodChecksum(data)
    <3>1. <<>> \in Seq(Byte)
      BY EmptySeq
    <3>2. <<command, parameter1, parameter2, parameter3>> \in Seq(Byte)
      BY <2>2
    <3> QED BY <2>1, <2>2, <2>4, <3>1, <3>2 DEF GoodChecksum, PACKET_NB_BYTES
  <2>5. CASE BadChecksum(data)
    BY <1>1, <1>2, <2>1, <2>2, <2>5 DEF BadChecksum, PACKET_NB_BYTES
  <2> QED BY <2>3, <2>4, <2>5 DEF PacketGet, data
<1>4. TypeOK'
  BY <1>1, <1>2, <1>3 DEF LinkInv, TypeOK, hardware, sending
<1>5. UnarmedIsOwn'
  BY <1>2, <1>3 DEF LinkInv, UnarmedIsOwn, sending
<1> QED BY <1>1, <1>2, <1>4, <1>5 DEF LinkInv, FifosOK

(* Starting an answer: PacketPut begins with nothing of its own queued.      *)
LEMMA AnswerInv ==
  ASSUME LinkInv, pc = "Handle",
         NEW c \in Byte, NEW p1 \in Byte, NEW p2 \in Byte, NEW p3 \in Byte,
         Answer(c, p1, p2, p3)
  PROVE  LinkInv'
<1>1. MakeChecksum(c, p1, p2, p3) \in Byte
  BY ChecksumType
<1>2. bytes' \in [1..5 -> Byte]
  BY <1>1 DEF Answer
<1>3. /\ UNCHANGED <<hardware, TIE, rx, tx, line, packet, history>>
      /\ it' = 1 /\ success' = TRUE /\ pc' = "PacketPut"
  BY DEF Answer
<1>4. TypeOK'
  BY <1>2, <1>3 DEF LinkInv, TypeOK, PACKET_NB_BYTES, hardware, packet, history
<1>5. UnarmedIsOwn'
  BY <1>3 DEF LinkInv, UnarmedIsOwn
<1> QED BY <1>3, <1>4, <1>5 DEF LinkInv, FifosOK

LEMMA HandlerInv ==
  ASSUME LinkInv, Handler
  PROVE  LinkInv'
<1>1. CASE HandleIDMTCharacteristic
  <2>1. pc = "Handle" /\ parameter3 \in Byte
    BY <1>1 DEF HandleIDMTCharacteristic, Handling, LinkInv, TypeOK
  <2>2. CASE \E setting \in Settings : Answer(CMD_DOR, N0, N1, setting)
    BY <2>1, <2>2, AnswerInv, CodeTypes, LinkAssumption
  <2>3. CASE Answer(CMD_DOR, N0, N1, parameter3)
    BY <2>1, <2>3, AnswerInv, CodeTypes
  <2> QED BY <1>1, <2>2, <2>3 DEF HandleIDMTCharacteristic
<1>2. CASE HandleFrequency
  <2>1. PICK frequency \in Readings : Answer(CMD_DOR, N1, frequency[1], frequency[2])
    BY <1>2 DEF HandleFrequency
  <2>2. frequency[1] \in Byte /\ frequency[2] \in Byte /\ pc = "Handle"
    BY <1>2, LinkAssumption DEF HandleFrequency, Handling
  <2> QED BY <2>1, <2>2, AnswerInv, CodeTypes
<1>3. CASE HandleCurrent
  <2>1. PICK current \in Readings : Answer(CMD_DOR_CURRENT, N2, current[1], current[2])
    BY <1>3 DEF HandleCurrent
  <2>2. current[1] \in Byte /\ current[2] \in Byte /\ pc = "Handle"
    BY <1>3, LinkAssumption DEF HandleCurrent, Handling
  <2> QED BY <2>1, <2>2, AnswerInv, CodeTypes
<1>4. CASE HandleNbTimeTripped
  <2>1. PICK count \in Readings : Answer(CMD_DOR, N3, count[1], count[2])
    BY <1>4 DEF HandleNbTimeTripped
  <2>2. count[1] \in Byte /\ count[2] \in Byte /\ pc = "Handle"
    BY <1>4, LinkAssumption DEF HandleNbTimeTripped, Handling
  <2> QED BY <2>1, <2>2, AnswerInv, CodeTypes
<1>5. CASE NoHandler
  BY <1>5 DEF NoHandler, LinkInv, TypeOK, FifosOK, UnarmedIsOwn,
              hardware, packet, sending, history
<1> QED BY <1>1, <1>2, <1>3, <1>4, <1>5 DEF Handler

(* OutChar.  A refused byte means a full ring, which holds more than the     *)
(* four bytes this packet can have put: so the transmitter is armed.         *)
LEMMA OutCharInv ==
  ASSUME LinkInv, OutChar
  PROVE  LinkInv'
<1>1. /\ UNCHANGED <<hardware, TIE, rx, line, packet, pc, bytes, history>>
      /\ tx' = Put(tx, bytes[it]) /\ success' = HasRoom(tx) /\ it' = it + 1
      /\ pc = "PacketPut" /\ it <= 5 /\ success
  BY DEF OutChar, PACKET_NB_BYTES
<1>2. it \in 1..5 /\ bytes[it] \in Byte
  BY <1>1 DEF LinkInv, TypeOK, PACKET_NB_BYTES
<1>3. FifoOK(tx') /\ tx' \in FifoType
  BY <1>1, <1>2, PutOK, FifoOKType DEF LinkInv, FifosOK
<1>4. TypeOK'
  BY <1>1, <1>2, <1>3 DEF LinkInv, TypeOK, PACKET_NB_BYTES, HasRoom,
                          hardware, packet, history
<1>5. UnarmedIsOwn'
  <2>1. SUFFICES ASSUME ~TIE
                 PROVE  tx'.NbBytes <= IF success' THEN it ELSE 0
    BY <1>1, <1>2 DEF UnarmedIsOwn
  <2>2. tx.NbBytes <= it - 1 /\ tx.NbBytes \in Nat
    BY <1>1, <2>1, FifoAssumption DEF LinkInv, UnarmedIsOwn, TypeOK, FifoType
  <2>3. HasRoom(tx)
    BY <1>2, <2>2, LinkAssumption, FifoAssumption DEF HasRoom, PACKET_NB_BYTES
  <2>4. tx'.NbBytes = tx.NbBytes + 1
    BY <1>1, <2>3 DEF Put
  <2> QED BY <1>1, <1>2, <2>2, <2>3, <2>4
<1> QED BY <1>1, <1>3, <1>4, <1>5 DEF LinkInv, FifosOK

(* GiveUp leaves the transmitter as it is: with the byte refused, whatever   *)
(* is still queued is already being sent.                                    *)
LEMMA GiveUpInv ==
  ASSUME LinkInv, GiveUp
  PROVE  LinkInv'
BY DEF GiveUp, LinkInv, TypeOK, FifosOK, UnarmedIsOwn,
       hardware, packet, sending, history

LEMMA ArmOutputInv ==
  ASSUME LinkInv, ArmOutput
  PROVE  LinkInv'
BY DEF ArmOutput, LinkInv, TypeOK, FifosOK, UnarmedIsOwn,
       hardware, packet, sending, history

LEMMA StutterLinkInv ==
  ASSUME LinkInv, UNCHANGED vars
  PROVE  LinkInv'
BY DEF LinkInv, TypeOK, FifosOK, UnarmedIsOwn, vars,
       hardware, packet, sending, history

LEMMA NextLinkInv ==
  ASSUME LinkInv, [Next]_vars
  PROVE  LinkInv'
BY HostByteInv, ByteSentInv, UART_ISRInv, PacketGetInv, HandlerInv, OutCharInv,
   GiveUpInv, ArmOutputInv, StutterLinkInv DEF Next, Main, PacketGetEmpty

THEOREM LinkInvariant == Spec => []LinkInv
<1>1. Init => LinkInv
  BY InitLinkInv
<1>2. LinkInv /\ [Next]_vars => LinkInv'
  BY NextLinkInv
<1> QED BY <1>1, <1>2, PTL DEF Spec

(* Type correctness of the whole link.                                       *)
THEOREM LinkTypeCorrect == Spec => []TypeOK
<1>1. LinkInv => TypeOK
  BY DEF LinkInv
<1> QED BY <1>1, LinkInvariant, PTL

(* The rings never lose step with their counts.                              *)
THEOREM RingsConsistent == Spec => []FifosOK
<1>1. LinkInv => FifosOK
  BY DEF LinkInv
<1> QED BY <1>1, LinkInvariant, PTL

(* What the unarmed TxFIFO holds is what the PacketPut in progress put there, *)
(* whether or not the interrupt has disarmed it under that PacketPut.        *)
THEOREM UnarmedOwn == Spec => []UnarmedIsOwn
<1>1. LinkInv => UnarmedIsOwn
  BY DEF LinkInv
<1> QED BY <1>1, LinkInvariant, PTL

(* PacketPut never leaves bytes queued with the transmitter disarmed.        *)
THEOREM NothingStranded == Spec => []NoStrandedBytes
<1>1. LinkInv => NoStrandedBytes
  BY FifoAssumption DEF LinkInv, TypeOK, FifoType, UnarmedIsOwn, NoStrandedBytes, HasData
<1> QED BY <1>1, LinkInvariant, PTL

-----------------------------------------------------------------------------
(* The rings are queues.                                                     *)

(* The bytes the main loop and the interrupt put are bytes.                  *)
LEMMA PutByte ==
  ASSUME LinkInv
  PROVE  rxD \in Byte /\ (OutChar => bytes[it] \in Byte)
BY DEF LinkInv, TypeOK, OutChar, PACKET_NB_BYTES

(* RxFIFO changes in two places: UART_ISR appends, PacketGet takes.          *)
LEMMA RxSteps ==
  ASSUME [Next]_vars
  PROVE  \/ rx' = rx
         \/ rx' = Put(rx, rxD)
         \/ HasData(rx) /\ rx' = Get(rx)
<1>1. CASE UART_ISR
  BY <1>1 DEF UART_ISR, Receive
<1>2. CASE PacketGet
  BY <1>2 DEF PacketGet
<1>3. CASE HostByte \/ ByteSent \/ Handler \/ OutChar \/ GiveUp \/ ArmOutput
           \/ UNCHANGED vars
  BY <1>3 DEF HostByte, ByteSent, OutChar, GiveUp, ArmOutput, vars, Handler,
              HandleIDMTCharacteristic, HandleFrequency, HandleCurrent,
              HandleNbTimeTripped, NoHandler, Answer
<1> QED BY <1>1, <1>2, <1>3 DEF Next, Main, PacketGetEmpty

(* TxFIFO changes in two places: OutChar appends, UART_ISR takes.            *)
LEMMA TxSteps ==
  ASSUME [Next]_vars
  PROVE  \/ tx' = tx
         \/ OutChar /\ tx' = Put(tx, bytes[it])
         \/ HasData(tx) /\ tx' = Get(tx)
<1>1. CASE UART_ISR
  BY <1>1 DEF UART_ISR, Transmit
<1>2. CASE OutChar
  BY <1>2 DEF OutChar
<1>3. CASE HostByte \/ ByteSent \/ Handler \/ PacketGet \/ GiveUp \/ ArmOutput
           \/ UNCHANGED vars
  BY <1>3 DEF HostByte, ByteSent, PacketGet, GiveUp, ArmOutput, vars, Handler,
              HandleIDMTCharacteristic, HandleFrequency, HandleCurrent,
              HandleNbTimeTripped, NoHandler, Answer
<1> QED BY <1>1, <1>2, <1>3 DEF Next, Main, PacketGetEmpty

(* RxFIFO implements a bounded queue: what the interrupt accepts reaches the *)
(* decoder in order, once, unaltered.                                        *)
THEOREM RxRefinesQueue == Spec => RxIsQueue
<1>1. Init => RxQueue!Init
  BY EmptyContents DEF Init, RxQueue!Init
<1>2. LinkInv /\ [Next]_vars => [RxQueue!Next]_(Contents(rx))
  <2>1. SUFFICES ASSUME LinkInv, [Next]_vars
                 PROVE  [RxQueue!Next]_(Contents(rx))
    OBVIOUS
  <2>2. FifoOK(rx) /\ rxD \in Byte
    BY <2>1, PutByte DEF LinkInv, FifosOK
  <2>3. CASE rx' = rx
    BY <2>3 DEF Contents
  <2>4. CASE rx' = Put(rx, rxD) /\ HasRoom(rx)
    <3>1. Contents(rx') = Append(Contents(rx), rxD)
      BY <2>2, <2>4, PutAppends
    <3>2. Len(Contents(rx)) < FIFO_SIZE
      BY <2>2, <2>4, ContentsType DEF HasRoom
    <3>3. Contents(rx') = Contents(rx)'
      BY DEF Contents
    <3> QED BY <2>2, <3>1, <3>2, <3>3 DEF RxQueue!Next, RxQueue!Enqueue
  <2>5. CASE rx' = Put(rx, rxD) /\ ~HasRoom(rx)
    BY <2>5 DEF Put, Contents
  <2>6. CASE HasData(rx) /\ rx' = Get(rx)
    <3>1. Contents(rx') = Tail(Contents(rx)) /\ Contents(rx) # <<>>
      BY <2>2, <2>6, GetRemoves
    <3>2. Contents(rx') = Contents(rx)'
      BY DEF Contents
    <3> QED BY <3>1, <3>2 DEF RxQueue!Next, RxQueue!Dequeue
  <2> QED BY <2>1, <2>3, <2>4, <2>5, <2>6, RxSteps
<1> QED BY <1>1, <1>2, LinkInvariant, PTL DEF Spec, RxIsQueue, RxQueue!Spec

(* TxFIFO implements a bounded queue: what OutChar accepts reaches the line  *)
(* in order, once, unaltered.                                                *)
THEOREM TxRefinesQueue == Spec => TxIsQueue
<1>1. Init => TxQueue!Init
  BY EmptyContents DEF Init, TxQueue!Init
<1>2. LinkInv /\ [Next]_vars => [TxQueue!Next]_(Contents(tx))
  <2>1. SUFFICES ASSUME LinkInv, [Next]_vars
                 PROVE  [TxQueue!Next]_(Contents(tx))
    OBVIOUS
  <2> DEFINE b == bytes[it]
  <2>2. FifoOK(tx) /\ (OutChar => b \in Byte)
    BY <2>1, PutByte DEF LinkInv, FifosOK
  <2>3. CASE tx' = tx
    BY <2>3 DEF Contents
  <2>4. CASE OutChar /\ tx' = Put(tx, b) /\ HasRoom(tx)
    <3>1. Contents(tx') = Append(Contents(tx), b)
      BY <2>2, <2>4, PutAppends
    <3>2. Len(Contents(tx)) < FIFO_SIZE
      BY <2>2, <2>4, ContentsType DEF HasRoom
    <3>3. Contents(tx') = Contents(tx)'
      BY DEF Contents
    <3> QED BY <2>2, <2>4, <3>1, <3>2, <3>3 DEF TxQueue!Next, TxQueue!Enqueue
  <2>5. CASE tx' = Put(tx, b) /\ ~HasRoom(tx)
    BY <2>5 DEF Put, Contents
  <2>6. CASE HasData(tx) /\ tx' = Get(tx)
    <3>1. Contents(tx') = Tail(Contents(tx)) /\ Contents(tx) # <<>>
      BY <2>2, <2>6, GetRemoves
    <3>2. Contents(tx') = Contents(tx)'
      BY DEF Contents
    <3> QED BY <3>1, <3>2 DEF TxQueue!Next, TxQueue!Dequeue
  <2> QED BY <2>1, <2>3, <2>4, <2>5, <2>6, TxSteps
<1> QED BY <1>1, <1>2, LinkInvariant, PTL DEF Spec, TxIsQueue, TxQueue!Spec

=============================================================================
