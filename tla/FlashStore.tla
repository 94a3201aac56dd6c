----------------------------- MODULE FlashStore -----------------------------
(* The flash module (Flash.cpp) under its only client, the curve setting of  *)
(* IDMT_t: allocation of the two variables at start-up, the write of the     *)
(* setting as a read-modify-write of the whole phrase, and the launching of  *)
(* the two flash commands, with power losses between any two steps.          *)
(*                                                                           *)
(* The sector is the sequence of its eight bytes; a byte is the set of its   *)
(* one bits, so that programming, which only clears bits, is intersection.   *)
EXTENDS Integers, Sequences, Bytes

CONSTANTS
  Slopes,          \* curve settings the PC may send
  InitialSectors,  \* what earlier runs may have left in flash
  Refusals,        \* TRUE if the controller may refuse a command
  None             \* no address

NB_BYTES == 8
Offset == 0..NB_BYTES-1
Sector == [1..NB_BYTES -> Byte]
ERASED == 0..7
Blank == [i \in 1..NB_BYTES |-> ERASED]

ASSUME FlashAssumption ==
  /\ Slopes \subseteq Byte /\ InitialSectors \subseteq Sector
  /\ Refusals \in BOOLEAN
  /\ None \notin Offset /\ \A byte \in Byte : byte # None

VARIABLES
  sector,         \* the flash sector
  CCIF, ERR,      \* controller: command complete; ACCERR or FPVIOL
  FCCOB,          \* controller: command, and data registers in address order
  FlashSector0,   \* offsets that are allocated
  setting, nBTrip,\* where the two variables are
  success,        \* IDMT: allocation and writes succeeded so far
  phrase, slope,  \* the write in progress: the phrase, and the new setting
  pc,             \* where the main loop is
  dirty           \* history: a refused command affects the current write

ram == <<FlashSector0, setting, nBTrip, success>>
write == <<phrase, slope>>
vars == <<sector, CCIF, ERR, FCCOB, ram, write, pc, dirty>>

TypeOK ==
  /\ sector \in Sector /\ phrase \in Sector
  /\ CCIF \in BOOLEAN /\ ERR \in BOOLEAN /\ dirty \in BOOLEAN
  /\ FCCOB \in [command : {"none", "erase", "program"}, data : Sector]
  /\ FlashSector0 \subseteq Offset
  /\ setting \in Offset \cup {None}
  /\ nBTrip \in {i \in Offset : i % 2 = 0} \cup {None}
  /\ success \in BOOLEAN
  /\ slope \in Byte
  /\ pc \in {"Boot", "Idle", "Erasing", "Programming"}

(* Power-on: RAM and controller are reset, the sector is as it was left.     *)
Init ==
  /\ sector \in InitialSectors
  /\ CCIF = TRUE /\ ERR = FALSE
  /\ FCCOB = [command |-> "none", data |-> Blank]
  /\ FlashSector0 = {} /\ setting = None /\ nBTrip = None /\ success = FALSE
  /\ phrase = Blank /\ slope = Zero
  /\ pc = "Boot" /\ dirty = FALSE

-----------------------------------------------------------------------------
(* AllocateVar.  The first free offset, an even one for two bytes.  With     *)
(* none left the function ends without a return statement, so its answer is  *)
(* either.                                                                   *)

(* Mutant of Room: two bytes may start anywhere.                             *)
RoomUnaligned(taken, size) == Offset \ taken

Room(taken, size) == {i \in Offset \ taken : size = 2 => i % 2 = 0}

Allocations(taken, size) ==
  LET room == Room(taken, size)
  IN  {[ok |-> TRUE, address |-> i, taken |-> taken \cup i..i+size-1] :
         i \in {i \in room : \A j \in room : i <= j}}
      \cup
      {[ok |-> ok, address |-> None, taken |-> taken] :
         ok \in IF room = {} THEN BOOLEAN ELSE {}}

(* IDMT_t::IDMT_t: what the second allocation answers is what counts.        *)
Construct ==
  /\ pc = "Boot" /\ ~success
  /\ \E byte \in Allocations(FlashSector0, 1) :
       \E half \in Allocations(byte.taken, 2) :
         /\ setting' = byte.address
         /\ nBTrip' = half.address
         /\ FlashSector0' = half.taken
         /\ success' = half.ok
  /\ pc' = "Idle"
  /\ UNCHANGED <<sector, CCIF, ERR, FCCOB, write, dirty>>

-----------------------------------------------------------------------------
(* Write8, Write16 and Write32: each completes its datum with what flash     *)
(* holds beside it and hands the wider one on; a is an offset.               *)

Held(a, n) == SubSeq(sector, a + 1, a + n)

Phrase32(a, word) ==
  IF a % 8 = 0 THEN word \o Held(a + 4, 4) ELSE Held(a - 4, 4) \o word

Phrase16(a, half) ==
  IF a % 4 = 0 THEN Phrase32(a, half \o Held(a + 2, 2))
               ELSE Phrase32(a - 2, Held(a - 2, 2) \o half)

(* Mutant of Phrase8: the two halves are swapped.                            *)
Phrase8Swapped(a, byte) ==
  IF a % 2 = 0 THEN Phrase16(a, Held(a + 1, 1) \o <<byte>>)
               ELSE Phrase16(a - 1, <<byte>> \o Held(a - 1, 1))

Phrase8(a, byte) ==
  IF a % 2 = 0 THEN Phrase16(a, <<byte>> \o Held(a + 1, 1))
               ELSE Phrase16(a - 1, Held(a - 1, 1) \o <<byte>>)

(* The data registers that WritePhrase and LaunchCommand fill from a phrase, *)
(* in the order of their addresses: FCCOB7, 6, 5, 4, B, A, 9, 8.             *)
Registers(p) == <<p[1], p[2], p[7], p[8], p[6], p[5], p[4], p[3]>>

(* Mutant of LaunchCommand: an old error is not cleared.                     *)
LaunchCommandNoClear(command, data) ==
  /\ CCIF /\ ~ERR
  /\ FCCOB' = [command |-> command, data |-> data]
  /\ CCIF' = FALSE
  /\ UNCHANGED ERR

(* LaunchCommand, up to its last loop.  With an old error set, the error is  *)
(* cleared and the command that was in the registers is launched again.      *)
LaunchCommand(command, data) ==
  /\ CCIF
  /\ FCCOB' = IF ERR THEN FCCOB ELSE [command |-> command, data |-> data]
  /\ ERR' = FALSE
  /\ CCIF' = FALSE

(* Mutant of Set: the sector is not erased first.                            *)
SetWithoutErase ==
  /\ pc = "Idle" /\ success
  /\ slope' \in Slopes
  /\ phrase' = Phrase8(setting, slope')
  /\ LaunchCommand("program", Registers(phrase'))
  /\ dirty' = ERR
  /\ pc' = "Programming"
  /\ UNCHANGED <<sector, ram>>

(* IDMT_t::Set down to the erase command of WritePhrase.                     *)
Set ==
  /\ pc = "Idle" /\ success
  /\ slope' \in Slopes
  /\ phrase' = Phrase8(setting, slope')
  /\ LaunchCommand("erase", FCCOB.data)
  /\ dirty' = ERR
  /\ pc' = "Erasing"
  /\ UNCHANGED <<sector, ram>>

(* EraseSector answers true whatever happened; the phrase is programmed.     *)
ProgramPhrase ==
  /\ pc = "Erasing"
  /\ LaunchCommand("program", Registers(phrase))
  /\ pc' = "Programming"
  /\ UNCHANGED <<sector, ram, write, dirty>>

(* The command is complete: WritePhrase, and so Write8, answer true.         *)
Return ==
  /\ pc = "Programming" /\ CCIF
  /\ success' = TRUE
  /\ pc' = "Idle"
  /\ UNCHANGED <<sector, CCIF, ERR, FCCOB, FlashSector0, setting, nBTrip,
                 write, dirty>>

-----------------------------------------------------------------------------
(* The flash controller, and the power.                                      *)

Executed ==
  CASE FCCOB.command = "erase"   -> Blank
    [] FCCOB.command = "program" ->
         [i \in 1..NB_BYTES |-> sector[i] \cap FCCOB.data[i]]
    [] OTHER -> sector

CommandDone ==
  /\ ~CCIF
  /\ sector' = Executed
  /\ CCIF' = TRUE
  /\ UNCHANGED <<ERR, FCCOB, ram, write, pc, dirty>>

CommandRefused ==
  /\ Refusals /\ ~CCIF
  /\ CCIF' = TRUE /\ ERR' = TRUE /\ dirty' = TRUE
  /\ UNCHANGED <<sector, FCCOB, ram, write, pc>>

(* A command in progress has taken effect or not.                            *)
PowerLoss ==
  /\ sector' \in {sector} \cup IF CCIF THEN {} ELSE {Executed}
  /\ CCIF' = TRUE /\ ERR' = FALSE
  /\ FCCOB' = [command |-> "none", data |-> Blank]
  /\ FlashSector0' = {} /\ setting' = None /\ nBTrip' = None /\ success' = FALSE
  /\ phrase' = Blank /\ slope' = Zero
  /\ pc' = "Boot" /\ dirty' = FALSE

Main == Construct \/ Set \/ ProgramPhrase \/ Return
Next == Main \/ CommandDone \/ CommandRefused \/ PowerLoss

Spec == Init /\ [][Next]_vars

(* The main loop goes on, and the controller completes its commands.         *)
FairSpec ==
  /\ Spec
  /\ WF_vars(Construct) /\ WF_vars(ProgramPhrase) /\ WF_vars(Return)
  /\ WF_vars(CommandDone)

-----------------------------------------------------------------------------
(* Properties.                                                               *)

(* A phrase is programmed only over erased flash, also when the power went   *)
(* in the middle of an earlier write; bits once cleared could not be set.    *)
ProgramsErased ==
  [][ ~CCIF /\ CCIF' /\ FCCOB.command = "program" /\ ~dirty => sector = Blank ]_vars

(* The setting is the first byte of the sector after every start, and it is  *)
(* a StoredSetting there: the allocation, the read-modify-write chain, the   *)
(* order of the registers and the two commands together write that byte and  *)
(* never leave it at anything but its old value, the erased one or the new.  *)
Cell == INSTANCE StoredSetting WITH
  Data <- Byte,
  value <- sector[1],
  asked <- IF pc \in {"Erasing", "Programming"} THEN slope ELSE None,
  sound <- ~dirty
SettingStored == Cell!Spec

(* A write returns, also after a refused command.                            *)
SetEnds == pc \in {"Erasing", "Programming"} ~> pc = "Idle"

(* Flash.h:70, "TRUE if the phrase was written successfully": WritePhrase    *)
(* answers true only when the sector holds the phrase.                       *)
PhraseWritten ==
  [][ pc = "Programming" /\ pc' = "Idle" => sector = phrase ]_vars
=============================================================================
