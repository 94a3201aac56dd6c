------------------------------ MODULE Firmware ------------------------------
(* The firmware as the PC sees it: the serial link, the curve setting kept   *)
(* in flash, and the measured current, composed.  The main loop waits for    *)
(* the flash controller within the handler that sets the curve, and loads    *)
(* the two bytes of the current one after the other, while UART_ISR fills    *)
(* RxFIFO and the timer interrupt replaces the current.                      *)
EXTENDS SerialLink, SequencesExt

CONSTANTS
  Scripts,      \* sequences of requests the PC may send
  None          \* not loaded; no address

VARIABLES
  script,       \* the requests the PC sends in this behaviour
  Current,      \* the measured current, as <<Lo, Hi>>
  argLo, argHi, \* HandleCurrent: the arguments loaded so far
  sector, CCIF, ERR, FCCOB, FlashSector0, setting, nBTrip, idmtSuccess,
  phrase, slope, flashPc, dirty   \* see FlashStore

Flash == INSTANCE FlashStore WITH
  pc <- flashPc, success <- idmtSuccess,
  Slopes <- Settings, Refusals <- FALSE,
  InitialSectors <- {[i \in 1..8 |-> 0..7]}

link == <<hardware, TIE, rx, tx, line, packet, pc, sending, history>>
loading == <<argLo, argHi>>
flash == <<sector, CCIF, ERR, FCCOB, FlashSector0, setting, nBTrip, idmtSuccess,
           phrase, slope, flashPc, dirty>>
firmware == <<link, script, Current, loading, flash>>

(* A request is its command and three parameters.                            *)
PacketOf(r) ==
  <<r[1], r[2], r[3], r[4], MakeChecksum(r[1], r[2], r[3], r[4])>>
BytesOf(requests) ==
  [i \in 1..PACKET_NB_BYTES * Len(requests) |->
     LET n == (i - 1) \div PACKET_NB_BYTES
     IN  PacketOf(requests[n + 1])[i - PACKET_NB_BYTES * n]]

ASSUME ScriptAssumption ==
  /\ Scripts \subseteq Seq([1..4 -> Byte])
  /\ HostStreams = {BytesOf(requests) : requests \in Scripts}
  /\ None \notin 0..7 /\ \A byte \in Byte : byte # None

(* The PC lets the interrupt read each byte, and asks no more at once than   *)
(* the rings hold.                                                           *)
ASSUME ConversationAssumption ==
  /\ ~Overruns
  /\ \A requests \in Scripts : PACKET_NB_BYTES * Len(requests) <= FIFO_SIZE

FirmwareInit ==
  /\ Init /\ Flash!Init
  /\ script \in Scripts /\ host = BytesOf(script)
  /\ Current \in Readings
  /\ argLo = None /\ argHi = None

-----------------------------------------------------------------------------
(* The static constructor of Idmt runs before anything else.                 *)
Construct == Flash!Construct /\ UNCHANGED <<link, script, Current, loading>>
Booted == flashPc # "Boot"

(* CallBack::PIT writes a new current, whatever the main loop is doing.      *)
Measured ==
  /\ Booted
  /\ Current' \in Readings
  /\ UNCHANGED <<link, script, loading, flash>>

(* What SerialLink does by itself.                                           *)
Linked(A) == Booted /\ A /\ UNCHANGED <<script, Current, loading, flash>>

(* HandleCurrent: the bytes are loaded in an order the compiler chooses.     *)
LoadLo ==
  /\ Handling(CURRENT) /\ argLo = None
  /\ argLo' = Current[1]
  /\ UNCHANGED <<link, script, Current, argHi, flash>>
LoadHi ==
  /\ Handling(CURRENT) /\ argHi = None
  /\ argHi' = Current[2]
  /\ UNCHANGED <<link, script, Current, argLo, flash>>
AnswerCurrent ==
  /\ Handling(CURRENT)
  /\ \E lo, hi \in Byte : /\ argLo = lo /\ argHi = hi
                          /\ Answer(CMD_DOR_CURRENT, N2, lo, hi)
  /\ argLo' = None /\ argHi' = None
  /\ UNCHANGED <<script, Current, flash>>

(* HandleIDMTCharacteristic with parameter2 one: GetSetting reads flash.     *)
GetSetting ==
  /\ Handling(IDMT) /\ parameter2 = N1 /\ idmtSuccess
  /\ Answer(CMD_DOR, N0, N1, sector[setting + 1])
  /\ UNCHANGED <<script, Current, loading, flash>>

(* With another parameter2: Set writes the phrase, then the answer is put.   *)
SetStarts ==
  /\ Handling(IDMT) /\ parameter2 # N1
  /\ Flash!Set /\ slope' = parameter3
  /\ UNCHANGED <<link, script, Current, loading>>
SetProgram == Flash!ProgramPhrase /\ UNCHANGED <<link, script, Current, loading>>
SetReturns ==
  /\ Flash!Return
  /\ Answer(CMD_DOR, N0, N1, parameter3)
  /\ UNCHANGED <<script, Current, loading>>

(* GetNbTrip reads flash.                                                    *)
GetNbTrip ==
  /\ Handling(NB_TIME_TRIPPED)
  /\ Answer(CMD_DOR, N3, sector[nBTrip + 1], sector[nBTrip + 2])
  /\ UNCHANGED <<script, Current, loading, flash>>

MainLoop ==
  \/ Linked(PacketGet \/ HandleFrequency \/ NoHandler \/ OutChar \/ GiveUp \/ ArmOutput)
  \/ LoadLo \/ LoadHi \/ AnswerCurrent
  \/ GetSetting \/ SetStarts \/ SetProgram \/ SetReturns \/ GetNbTrip

FlashDone == Flash!CommandDone /\ UNCHANGED <<link, script, Current, loading>>
Receives == Linked(HostByte)
Sends == Linked(ByteSent)
Serves == Linked(UART_ISR)

FirmwareNext ==
  Construct \/ Measured \/ MainLoop \/ FlashDone \/ Receives \/ Sends \/ Serves

(* The processor, the flash controller, the UART and the PC go on.           *)
FirmwareSpec ==
  /\ FirmwareInit /\ [][FirmwareNext]_firmware
  /\ WF_firmware(Construct) /\ WF_firmware(MainLoop) /\ WF_firmware(FlashDone)
  /\ WF_firmware(Receives) /\ WF_firmware(Sends) /\ WF_firmware(Serves)

-----------------------------------------------------------------------------
(* Properties.                                                               *)

(* The setting after the first n requests: the last one set, erased flash    *)
(* before.                                                                   *)
Sets(r) == r[1] = CMD_DOR /\ r[2] = IDMT /\ r[3] # N1
SettingAfter(n) ==
  LET set == {i \in 1..n : Sets(script[i])}
  IN  IF set = {} THEN 0..7 ELSE script[Max(set)][4]

(* The answers a request may get from a relay that serves one request after  *)
(* the other; without a write the count is erased flash.  Which bytes the    *)
(* current has is left to ReportedIsMeasured.                                *)
Replies(c, p, values) == {PacketOf(<<c, p, v[1], v[2]>>) : v \in values}
AnswersTo(r, held) ==
  IF r[1] # CMD_DOR THEN {} ELSE
  CASE r[2] = IDMT -> Replies(CMD_DOR, N0, {<<N1, held>>})
    [] r[2] = FREQUENCY -> Replies(CMD_DOR, N1, Readings)
    [] r[2] = CURRENT ->
         Replies(CMD_DOR_CURRENT, N2, {<<a[1], b[2]>> : a, b \in Readings})
    [] r[2] = NB_TIME_TRIPPED -> Replies(CMD_DOR, N3, {<<0..7, 0..7>>})
    [] OTHER -> {}
Answers(n) == AnswersTo(script[n], SettingAfter(n))

(* The requests that have an answer, and how many of them come before one.   *)
Answerable == {n \in 1..Len(script) : Answers(n) # {}}
AnswersBefore(n) == Cardinality({m \in Answerable : m < n})

(* What goes to the PC are the answers to its requests, in their order and   *)
(* whole, and a setting is answered as it was last set: through the ring     *)
(* that fills while flash is written, the decoder, the erased sector and the *)
(* phrase that is written back, and the transmitter that drains meanwhile.   *)
AnswersInOrder ==
  /\ Len(Output) <= PACKET_NB_BYTES * Cardinality(Answerable)
  /\ \A i \in 1..Len(Output) :
       LET k == (i - 1) \div PACKET_NB_BYTES
           sent == SubSeq(Output, PACKET_NB_BYTES * k + 1, i)
       IN  \E n \in Answerable :
             /\ AnswersBefore(n) = k
             /\ \E answer \in Answers(n) : IsPrefix(sent, answer)

(* And every request gets its answer, however long flash takes.              *)
EveryRequestAnswered == <>(Len(line) = PACKET_NB_BYTES * Cardinality(Answerable))

(* main.cpp:181, "Enter critical section": the two bytes of the answer       *)
(* belong to one current.                                                    *)
ReportedIsMeasured ==
  pc = "PacketPut" /\ bytes[1] = CMD_DOR_CURRENT => <<bytes[3], bytes[4]>> \in Readings
=============================================================================
