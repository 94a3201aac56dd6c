----------------------------- MODULE SerialLink -----------------------------
(* The serial link of the relay: UART.cpp and its interrupt, the two FIFOs   *)
(* it shares with the main loop, and the packet decoder, command handlers    *)
(* and packet encoder the main loop runs (Packet.cpp, main.cpp).             *)
(*                                                                           *)
(* Two processors of state meet here: UART_ISR, which runs to completion,    *)
(* and the main loop, which it may interrupt anywhere but inside a critical  *)
(* section.  The loop's FIFO calls and its arming of the transmitter are     *)
(* critical sections, so each is one action.  The UART's shift registers and *)
(* the PC are the environment.                                               *)
EXTENDS Fifo

CONSTANTS
  HostStreams,   \* the byte sequences the PC may send
  Overruns,      \* TRUE if the PC may outrun the interrupt
  Settings,      \* values the curve setting may have when it is read
  Readings       \* <<Lo, Hi>> pairs the handlers may read of a 16-bit value

VARIABLES
  host,          \* what the PC has still to send
  RDRF, rxD,     \* receive register: full flag and content
  TDRE,          \* transmit register is empty
  TIE,           \* transmit interrupt is armed
  rx, tx,        \* RxFIFO and TxFIFO
  line,          \* history: the bytes written to the transmit register
  nbBytesPacket, \* the byte of a packet the decoder waits for
  command, parameter1, parameter2, parameter3,
  pc,            \* where the main loop is
  bytes, it,     \* PacketPut: the packet, and the byte to put next
  success,       \* PacketPut: the last OutChar was accepted
  heard,         \* history: bytes decoded since the last request
  request        \* history: the last request handed to the handlers

hardware == <<host, RDRF, rxD, TDRE>>
packet == <<nbBytesPacket, command, parameter1, parameter2, parameter3>>
sending == <<bytes, it, success>>
history == <<heard, request>>
vars == <<hardware, TIE, rx, tx, line, packet, pc, sending, history>>

PACKET_NB_BYTES == 5

(* Command and parameter codes of HandlePacket, as bytes.                    *)
CMD_DOR         == {4, 5, 6}
CMD_DOR_CURRENT == {0, 4, 5, 6}
N0 == {}
N1 == {0}
N2 == {1}
N3 == {0, 1}
IDMT            == N0
CURRENT         == N1
FREQUENCY       == N2
NB_TIME_TRIPPED == N3

ASSUME LinkAssumption ==
  /\ FIFO_SIZE >= PACKET_NB_BYTES
  /\ HostStreams \subseteq Seq(Byte)
  /\ Overruns \in BOOLEAN
  /\ Settings \subseteq Byte
  /\ Readings \subseteq Byte \X Byte

TypeOK ==
  /\ host \in Seq(Byte) /\ line \in Seq(Byte)
  /\ RDRF \in BOOLEAN /\ rxD \in Byte
  /\ TDRE \in BOOLEAN /\ TIE \in BOOLEAN
  /\ rx \in FifoType /\ tx \in FifoType
  /\ nbBytesPacket \in 1..PACKET_NB_BYTES
  /\ command \in Byte
  /\ parameter1 \in Byte /\ parameter2 \in Byte /\ parameter3 \in Byte
  /\ pc \in {"PacketGet", "Handle", "PacketPut"}
  /\ bytes \in [1..PACKET_NB_BYTES -> Byte]
  /\ it \in 1..PACKET_NB_BYTES + 1
  /\ success \in BOOLEAN
  /\ heard \in Seq(Byte) /\ request \in Seq(Byte)

(* After UART_t::Init: receiver armed (it stays so), transmitter not.  The   *)
(* packet object is not initialised, but no field is read before it is set.  *)
Init ==
  /\ host \in HostStreams
  /\ RDRF = FALSE /\ rxD = Zero /\ TDRE = TRUE /\ TIE = FALSE
  /\ rx = EmptyFifo /\ tx = EmptyFifo /\ line = <<>>
  /\ nbBytesPacket = 1
  /\ command = Zero /\ parameter1 = Zero /\ parameter2 = Zero /\ parameter3 = Zero
  /\ pc = "PacketGet"
  /\ bytes = [i \in 1..PACKET_NB_BYTES |-> Zero] /\ it = 1 /\ success = TRUE
  /\ heard = <<>> /\ request = <<>>

-----------------------------------------------------------------------------
(* The environment.                                                          *)

(* A byte arrives; if the last one has not been read yet, it is lost.        *)
HostByte ==
  /\ host # <<>>
  /\ Overruns \/ ~RDRF
  /\ host' = Tail(host)
  /\ RDRF' = TRUE
  /\ rxD' = IF RDRF THEN rxD ELSE Head(host)
  /\ UNCHANGED <<TDRE, TIE, rx, tx, line, packet, pc, sending, history>>

(* The transmit register has been moved to the shifter.                      *)
ByteSent ==
  /\ ~TDRE
  /\ TDRE' = TRUE
  /\ UNCHANGED <<host, RDRF, rxD, TIE, rx, tx, line, packet, pc, sending, history>>

-----------------------------------------------------------------------------
(* UART_ISR.  A received byte that finds RxFIFO full is dropped: the result  *)
(* of Put is not looked at.                                                  *)

Receive ==
  /\ rx' = IF RDRF THEN Put(rx, rxD) ELSE rx
  /\ RDRF' = FALSE

(* Mutants of Transmit: disarming whatever Get answered; never disarming.    *)
TransmitDisarms ==
  \/ /\ TIE /\ TDRE /\ HasData(tx)
     /\ tx' = Get(tx)
     /\ line' = Append(line, Oldest(tx))
     /\ TDRE' = FALSE /\ TIE' = FALSE
  \/ /\ TIE /\ TDRE /\ ~HasData(tx)
     /\ TIE' = FALSE
     /\ UNCHANGED <<tx, line, TDRE>>
  \/ ~(TIE /\ TDRE) /\ UNCHANGED <<tx, line, TDRE, TIE>>
TransmitStaysArmed ==
  \/ /\ TIE /\ TDRE /\ HasData(tx)
     /\ tx' = Get(tx)
     /\ line' = Append(line, Oldest(tx))
     /\ TDRE' = FALSE
     /\ UNCHANGED TIE
  \/ ~(TIE /\ TDRE /\ HasData(tx)) /\ UNCHANGED <<tx, line, TDRE, TIE>>

(* The transmit half: a byte goes out, or the empty FIFO disarms.            *)
Transmit ==
  \/ /\ TIE /\ TDRE /\ HasData(tx)
     /\ tx' = Get(tx)
     /\ line' = Append(line, Oldest(tx))
     /\ TDRE' = FALSE
     /\ UNCHANGED TIE
  \/ /\ TIE /\ TDRE /\ ~HasData(tx)
     /\ TIE' = FALSE
     /\ UNCHANGED <<tx, line, TDRE>>
  \/ /\ ~(TIE /\ TDRE)
     /\ UNCHANGED <<tx, line, TDRE, TIE>>

UART_ISR ==
  /\ RDRF \/ (TIE /\ TDRE)
  /\ Receive
  /\ Transmit
  /\ UNCHANGED <<host, rxD, packet, pc, sending, history>>

-----------------------------------------------------------------------------
(* The main loop: PacketGet.  Nothing but the FIFO is shared, so taking a    *)
(* byte and decoding it is one step.                                         *)

FirstFour(data) ==
  /\ nbBytesPacket < PACKET_NB_BYTES
  /\ nbBytesPacket' = nbBytesPacket + 1
  /\ command'    = IF nbBytesPacket = 1 THEN data ELSE command
  /\ parameter1' = IF nbBytesPacket = 2 THEN data ELSE parameter1
  /\ parameter2' = IF nbBytesPacket = 3 THEN data ELSE parameter2
  /\ parameter3' = IF nbBytesPacket = 4 THEN data ELSE parameter3
  /\ heard' = Append(heard, data)
  /\ UNCHANGED <<pc, request>>

ChecksumOK(data) ==
  data = MakeChecksum(command, parameter1, parameter2, parameter3)

GoodChecksum(data) ==
  /\ nbBytesPacket = PACKET_NB_BYTES /\ ChecksumOK(data)
  /\ nbBytesPacket' = 1
  /\ pc' = "Handle"
  /\ heard' = <<>>
  /\ request' = <<command, parameter1, parameter2, parameter3>>
  /\ UNCHANGED <<command, parameter1, parameter2, parameter3>>

(* Mutants of BadChecksum: all five bytes are discarded; the new byte is not *)
(* moved up.                                                                 *)
BadChecksumRestarts(data) ==
  /\ nbBytesPacket = PACKET_NB_BYTES /\ ~ChecksumOK(data)
  /\ nbBytesPacket' = 1
  /\ heard' = Append(heard, data)
  /\ UNCHANGED <<command, parameter1, parameter2, parameter3, pc, request>>
BadChecksumDropsByte(data) ==
  /\ nbBytesPacket = PACKET_NB_BYTES /\ ~ChecksumOK(data)
  /\ command' = parameter1
  /\ parameter1' = parameter2
  /\ parameter2' = parameter3
  /\ heard' = Append(heard, data)
  /\ UNCHANGED <<parameter3, nbBytesPacket, pc, request>>

(* SwitchPacket: the first byte is discarded, the others move up.            *)
BadChecksum(data) ==
  /\ nbBytesPacket = PACKET_NB_BYTES /\ ~ChecksumOK(data)
  /\ command' = parameter1
  /\ parameter1' = parameter2
  /\ parameter2' = parameter3
  /\ parameter3' = data
  /\ heard' = Append(heard, data)
  /\ UNCHANGED <<nbBytesPacket, pc, request>>

PacketGet ==
  /\ pc = "PacketGet" /\ HasData(rx)
  /\ rx' = Get(rx)
  /\ LET rxData == Oldest(rx)
     IN  FirstFour(rxData) \/ GoodChecksum(rxData) \/ BadChecksum(rxData)
  /\ UNCHANGED <<hardware, TIE, tx, line, sending>>

(* InChar finds RxFIFO empty and the loop comes round.                       *)
PacketGetEmpty == pc = "PacketGet" /\ ~HasData(rx) /\ UNCHANGED vars

-----------------------------------------------------------------------------
(* The command handlers.  They differ in the packet they answer with.        *)

Handling(code) == pc = "Handle" /\ command = CMD_DOR /\ parameter1 = code

(* PacketPut builds the packet and its checksum before the first OutChar.    *)
Answer(c, p1, p2, p3) ==
  /\ bytes' = <<c, p1, p2, p3, MakeChecksum(c, p1, p2, p3)>>
  /\ it' = 1 /\ success' = TRUE
  /\ pc' = "PacketPut"
  /\ UNCHANGED <<hardware, TIE, rx, tx, line, packet, history>>

HandleIDMTCharacteristic ==
  /\ Handling(IDMT)
  /\ \/ /\ parameter2 = N1
        /\ \E setting \in Settings : Answer(CMD_DOR, N0, N1, setting)
     \/ /\ parameter2 # N1
        /\ Answer(CMD_DOR, N0, N1, parameter3)

HandleFrequency ==
  /\ Handling(FREQUENCY)
  /\ \E frequency \in Readings : Answer(CMD_DOR, N1, frequency[1], frequency[2])

HandleCurrent ==
  /\ Handling(CURRENT)
  /\ \E current \in Readings : Answer(CMD_DOR_CURRENT, N2, current[1], current[2])

HandleNbTimeTripped ==
  /\ Handling(NB_TIME_TRIPPED)
  /\ \E count \in Readings : Answer(CMD_DOR, N3, count[1], count[2])

(* Another command, the fault type or an unknown parameter: no answer.       *)
NoHandler ==
  /\ pc = "Handle"
  /\ ~(command = CMD_DOR
       /\ parameter1 \in {IDMT, FREQUENCY, CURRENT, NB_TIME_TRIPPED})
  /\ pc' = "PacketGet"
  /\ UNCHANGED <<hardware, TIE, rx, tx, line, packet, sending, history>>

-----------------------------------------------------------------------------
(* PacketPut.                                                                *)

(* Mutant of OutChar: the answer of the FIFO is not looked at.               *)
OutCharUnchecked ==
  /\ pc = "PacketPut" /\ it <= PACKET_NB_BYTES /\ success
  /\ tx' = Put(tx, bytes[it])
  /\ it' = it + 1
  /\ UNCHANGED <<hardware, TIE, rx, line, packet, pc, bytes, success, history>>

(* One byte of the packet goes into TxFIFO, unless that is full.             *)
OutChar ==
  /\ pc = "PacketPut" /\ it <= PACKET_NB_BYTES /\ success
  /\ tx' = Put(tx, bytes[it])
  /\ success' = HasRoom(tx)
  /\ it' = it + 1
  /\ UNCHANGED <<hardware, TIE, rx, line, packet, pc, bytes, history>>

(* An earlier byte was refused: the rest of the packet is given up, and the  *)
(* transmitter is not armed.                                                 *)
GiveUp ==
  /\ pc = "PacketPut" /\ it <= PACKET_NB_BYTES /\ ~success
  /\ pc' = "PacketGet"
  /\ UNCHANGED <<hardware, TIE, rx, tx, line, packet, sending, history>>

(* Mutant of ArmOutput: the interrupt is not armed.                          *)
ArmOutputForgets ==
  /\ pc = "PacketPut" /\ it > PACKET_NB_BYTES
  /\ pc' = "PacketGet"
  /\ UNCHANGED <<hardware, TIE, rx, tx, line, packet, sending, history>>

(* All five calls have been made: the transmit interrupt is armed.           *)
ArmOutput ==
  /\ pc = "PacketPut" /\ it > PACKET_NB_BYTES
  /\ TIE' = TRUE
  /\ pc' = "PacketGet"
  /\ UNCHANGED <<hardware, rx, tx, line, packet, sending, history>>

-----------------------------------------------------------------------------
Handler == HandleIDMTCharacteristic \/ HandleFrequency \/ HandleCurrent
           \/ HandleNbTimeTripped \/ NoHandler

Main == PacketGet \/ Handler \/ OutChar \/ GiveUp \/ ArmOutput

Next == HostByte \/ ByteSent \/ UART_ISR \/ Main \/ PacketGetEmpty

Spec == Init /\ [][Next]_vars

(* The main loop never stops, pending interrupts are taken, and the UART     *)
(* shifts out what it is given.                                              *)
Fairness == WF_vars(Main) /\ WF_vars(UART_ISR) /\ WF_vars(ByteSent)

FairSpec == Spec /\ Fairness /\ WF_vars(HostByte)

-----------------------------------------------------------------------------
(* Invariants.                                                               *)

(* Both rings keep their indices and their count in step.                    *)
FifosOK == FifoOK(rx) /\ FifoOK(tx)

(* While the transmitter is not armed, TxFIFO holds nothing but bytes that   *)
(* the PacketPut in progress has put there.                                  *)
UnarmedIsOwn ==
  ~TIE => tx.NbBytes <= IF pc = "PacketPut" /\ success THEN it - 1 ELSE 0

(* No byte is left behind: outside PacketPut, a TxFIFO with data has its     *)
(* interrupt armed, although PacketPut returns without arming it when a byte *)
(* of the packet is refused.                                                 *)
NoStrandedBytes == pc # "PacketPut" /\ HasData(tx) => TIE

(* Everything put on the way to the PC so far, sent or still queued.         *)
Output == line \o Contents(tx)

(* A packet whose bytes were all accepted is contiguous on the line: the     *)
(* last bytes of the output are the bytes of the packet put so far, while    *)
(* the interrupt drains the queue under it.                                  *)
PacketContiguous ==
  pc = "PacketPut" /\ success =>
    /\ Len(Output) >= it - 1
    /\ SubSeq(Output, Len(Output) - it + 2, Len(Output)) = SubSeq(bytes, 1, it - 1)

(* No request is missed among the bytes decoded since the last one: no five  *)
(* consecutive ones of them cancel out.                                      *)
ValidAt(stream, i) ==
  MakeChecksum(stream[i], stream[i+1], stream[i+2], stream[i+3]) = stream[i+4]
NoMissedPacket == \A i \in 1..Len(heard) - 4 : ~ValidAt(heard, i)

-----------------------------------------------------------------------------
(* Refinements.                                                              *)

(* Each ring is a bounded queue of bytes, under the interrupt and the main   *)
(* loop together: no byte is overwritten, duplicated or reordered.           *)
RxQueue == INSTANCE ByteQueue WITH
  queue <- Contents(rx), Capacity <- FIFO_SIZE, Data <- Byte
TxQueue == INSTANCE ByteQueue WITH
  queue <- Contents(tx), Capacity <- FIFO_SIZE, Data <- Byte
RxIsQueue == RxQueue!Spec
TxIsQueue == TxQueue!Spec

(* The switch over nbBytesPacket and the shift of the packet fields are a    *)
(* window that slides over the received bytes.                               *)
Window ==
  SubSeq(<<command, parameter1, parameter2, parameter3>>, 1, nbBytesPacket - 1)
Decoder == INSTANCE PacketStream WITH window <- Window
DecodesStream == Decoder!Spec

-----------------------------------------------------------------------------
(* Liveness.                                                                 *)

(* When the PC falls silent, both queues drain, the transmit interrupt is    *)
(* disarmed and stays so: nothing waits for another request to get out.      *)
Drains == <>[](~HasData(rx) /\ ~HasData(tx) /\ ~TIE)
=============================================================================
