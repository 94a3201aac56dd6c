-------------------------- MODULE CriticalSections --------------------------
(* The main loop and UART_ISR, one instruction or statement after the other, *)
(* in what they share: the two FIFOs of FIFO.cpp, the arming of the          *)
(* transmitter, and the macros EnterCritical and ExitCritical (PE_Types.h)   *)
(* that class critical runs around each use of them.  The interrupt may come *)
(* between any two instructions of the main loop while FAULTMASK is clear,   *)
(* also in the middle of the macros, and then runs to its end.               *)
(*                                                                           *)
(* It shows what SerialLink takes for granted: each of these calls is one    *)
(* step.  What the main loop calls, and when, is left open.                  *)
EXTENDS Fifo

CONSTANT Data   \* the bytes that are received and sent
ASSUME DataAssumption == Data \subseteq Byte /\ Data # {}

Context == {"main", "UART_ISR"}
Ring == {"RxFIFO", "TxFIFO"}

VARIABLES
  FAULTMASK, SR_lock, SR_reg,
  pc, task, data, result,  \* of each context: label, call, its byte and answer
  SR_reg_local,            \* of each context
  fifo,                    \* both rings
  TIE,                     \* the transmit interrupt is armed
  committed                \* history: each ring as the last call on it left it

macro == <<FAULTMASK, SR_lock, SR_reg, SR_reg_local>>
call == <<task, data, result>>
vars == <<macro, pc, call, fifo, TIE, committed>>

(* The statements of Put and Get that change a ring.                         *)
Statement == {"count", "byte", "index", "reduce"}
Label == {"idle", "MRS", "CPSID", "lock", "save", "test", "unlock", "MSR", "return"}
         \cup Statement
Task == {"Put", "Get", "SetTIE"}

(* Within a call an index may have left the ring until it is reduced.        *)
TypeOK ==
  /\ FAULTMASK \in BOOLEAN /\ SR_reg \in BOOLEAN /\ SR_lock \in 0..1
  /\ pc \in [Context -> Label] /\ task \in [Context -> Task]
  /\ data \in [Context -> Byte] /\ result \in [Context -> BOOLEAN]
  /\ SR_reg_local \in [Context -> BOOLEAN]
  /\ fifo \in [Ring -> [Start : 0..FIFO_SIZE, End : 0..FIFO_SIZE,
                        NbBytes : 0..FIFO_SIZE, Buffer : [Index -> Byte]]]
  /\ TIE \in BOOLEAN
  /\ committed \in [Ring -> FifoType]

Init ==
  /\ FAULTMASK = FALSE /\ SR_lock = 0 /\ SR_reg = FALSE
  /\ pc = [c \in Context |-> "idle"]
  /\ task = [c \in Context |-> "Get"] /\ data = [c \in Context |-> Zero]
  /\ result = [c \in Context |-> FALSE]
  /\ SR_reg_local = [c \in Context |-> FALSE]
  /\ fifo = [f \in Ring |-> EmptyFifo] /\ committed = fifo
  /\ TIE = FALSE

-----------------------------------------------------------------------------
(* Context c goes from one label to the next.                                *)
Step(c, from, to) == pc[c] = from /\ pc' = [pc EXCEPT ![c] = to]

(* The ring that a task of c uses.                                           *)
Used(c) ==
  IF (c = "main") = (task[c] = "Put") THEN "TxFIFO" ELSE "RxFIFO"

(* A call begins with the constructor of class critical.                     *)
Call(c, from, t) ==
  /\ Step(c, from, "MRS")
  /\ task' = [task EXCEPT ![c] = t]
  /\ UNCHANGED <<macro, result, fifo, TIE, committed>>

(* EnterCritical.                                                            *)

ReadMask(c) ==
  /\ Step(c, "MRS", "CPSID")
  /\ SR_reg_local' = [SR_reg_local EXCEPT ![c] = FAULTMASK]
  /\ UNCHANGED <<FAULTMASK, SR_lock, SR_reg, call, fifo, TIE, committed>>

(* Mutant of Disable: the instruction is missing.                            *)
DisableForgets(c) ==
  /\ Step(c, "CPSID", "lock")
  /\ UNCHANGED <<macro, call, fifo, TIE, committed>>

Disable(c) ==
  /\ Step(c, "CPSID", "lock")
  /\ FAULTMASK' = TRUE
  /\ UNCHANGED <<SR_lock, SR_reg, SR_reg_local, call, fifo, TIE, committed>>

Lock(c) ==
  /\ SR_lock' = SR_lock + 1
  /\ Step(c, "lock", IF SR_lock' = 1 THEN "save" ELSE "test")
  /\ UNCHANGED <<FAULTMASK, SR_reg, SR_reg_local, call, fifo, TIE, committed>>

(* Mutant of SaveMask: the mask is saved as it is now.                       *)
SaveMaskLate(c) ==
  /\ Step(c, "save", "test")
  /\ SR_reg' = FAULTMASK
  /\ UNCHANGED <<FAULTMASK, SR_lock, SR_reg_local, call, fifo, TIE, committed>>

SaveMask(c) ==
  /\ Step(c, "save", "test")
  /\ SR_reg' = SR_reg_local[c]
  /\ UNCHANGED <<FAULTMASK, SR_lock, SR_reg_local, call, fifo, TIE, committed>>

(* ExitCritical.                                                             *)

(* Mutant of Unlock: the nesting depth stays.                                *)
UnlockForgets(c) ==
  /\ Step(c, "unlock", "return")
  /\ UNCHANGED <<macro, call, fifo, TIE, committed>>

Unlock(c) ==
  /\ SR_lock' = SR_lock - 1
  /\ Step(c, "unlock", IF SR_lock' = 0 THEN "MSR" ELSE "return")
  /\ UNCHANGED <<FAULTMASK, SR_reg, SR_reg_local, call, fifo, TIE, committed>>

RestoreMask(c) ==
  /\ Step(c, "MSR", "return")
  /\ FAULTMASK' = SR_reg
  /\ UNCHANGED <<SR_lock, SR_reg, SR_reg_local, call, fifo, TIE, committed>>

-----------------------------------------------------------------------------
(* The bodies of the three calls.                                            *)

Here(c) == fifo[Used(c)]
Accepts(c) == IF task[c] = "Put" THEN HasRoom(Here(c)) ELSE HasData(Here(c))

(* The condition of Put and of Get.                                          *)
Test(c) ==
  /\ task[c] \in {"Put", "Get"}
  /\ Step(c, "test", IF Accepts(c) THEN "count" ELSE "unlock")
  /\ result' = [result EXCEPT ![c] = Accepts(c)]
  /\ UNCHANGED <<macro, task, data, fifo, TIE, committed>>

(* UART2_C2 |= TIE in the main loop, &= ~TIE in the interrupt.               *)
SetTIE(c) ==
  /\ task[c] = "SetTIE"
  /\ Step(c, "test", "unlock")
  /\ TIE' = (c = "main")
  /\ UNCHANGED <<macro, call, fifo, committed>>

(* One statement of Put or Get on the ring.                                  *)
Becomes(c, ring) ==
  /\ fifo' = [fifo EXCEPT ![Used(c)] = ring]
  /\ UNCHANGED <<macro, call, TIE>>

Count(c) ==
  /\ Step(c, "count", "byte")
  /\ Becomes(c, [Here(c) EXCEPT !.NbBytes = IF task[c] = "Put" THEN @ + 1 ELSE @ - 1])
  /\ UNCHANGED committed

PutByte(c) ==
  /\ task[c] = "Put"
  /\ Step(c, "byte", "index")
  /\ Becomes(c, [Here(c) EXCEPT !.Buffer = [@ EXCEPT ![Here(c).End] = data[c]]])
  /\ UNCHANGED committed

GetByte(c) ==
  /\ task[c] = "Get"
  /\ Step(c, "byte", "index")
  /\ data' = [data EXCEPT ![c] = Oldest(Here(c))]
  /\ UNCHANGED <<macro, task, result, fifo, TIE, committed>>

(* The index of Put is End, that of Get is Start.                            *)
Advance(c) ==
  /\ Step(c, "index", "reduce")
  /\ Becomes(c, IF task[c] = "Put" THEN [Here(c) EXCEPT !.End = (@ + 1) % 256]
                                   ELSE [Here(c) EXCEPT !.Start = (@ + 1) % 256])
  /\ UNCHANGED committed

Reduce(c) ==
  /\ Step(c, "reduce", "unlock")
  /\ Becomes(c, IF task[c] = "Put" THEN [Here(c) EXCEPT !.End = @ % FIFO_SIZE]
                                   ELSE [Here(c) EXCEPT !.Start = @ % FIFO_SIZE])
  /\ committed' = [committed EXCEPT ![Used(c)] = fifo'[Used(c)]]

-----------------------------------------------------------------------------
(* The main loop calls Put on TxFIFO, Get on RxFIFO and arms the transmitter. *)
MainCalls ==
  \/ /\ Call("main", "idle", "Put")
     /\ \E d \in Data : data' = [data EXCEPT !["main"] = d]
  \/ /\ \E t \in {"Get", "SetTIE"} : Call("main", "idle", t)
     /\ UNCHANGED data

(* The locals of a call end with it.                                         *)
Forget(c) ==
  /\ task' = [task EXCEPT ![c] = "Get"] /\ data' = [data EXCEPT ![c] = Zero]
  /\ result' = [result EXCEPT ![c] = FALSE]
  /\ SR_reg_local' = [SR_reg_local EXCEPT ![c] = FALSE]

MainReturns ==
  /\ Step("main", "return", "idle")
  /\ Forget("main")
  /\ UNCHANGED <<FAULTMASK, SR_lock, SR_reg, fifo, TIE, committed>>

(* UART_ISR is entered for a received byte, or for an armed transmitter.     *)
Interrupt ==
  /\ ~FAULTMASK
  /\ \/ /\ Call("UART_ISR", "idle", "Put")
        /\ \E d \in Data : data' = [data EXCEPT !["UART_ISR"] = d]
     \/ /\ TIE
        /\ Call("UART_ISR", "idle", "Get")
        /\ UNCHANGED data

(* After the received byte the transmit half follows when it is armed and    *)
(* the transmitter is ready; when TxFIFO is empty, it is disarmed.           *)
ISRContinues ==
  /\ \/ task["UART_ISR"] = "Put" /\ TIE /\ Call("UART_ISR", "return", "Get")
     \/ /\ task["UART_ISR"] = "Get" /\ ~result["UART_ISR"]
        /\ Call("UART_ISR", "return", "SetTIE")
  /\ UNCHANGED data

(* The processor clears FAULTMASK at the end of every handler.               *)
ISRReturns ==
  /\ task["UART_ISR"] = "Get" => result["UART_ISR"]
  /\ Step("UART_ISR", "return", "idle")
  /\ FAULTMASK' = FALSE
  /\ Forget("UART_ISR")
  /\ UNCHANGED <<SR_lock, SR_reg, fifo, TIE, committed>>

Proceed(c) ==
  \/ ReadMask(c) \/ Disable(c) \/ Lock(c) \/ SaveMask(c)
  \/ Test(c) \/ SetTIE(c) \/ Count(c) \/ PutByte(c) \/ GetByte(c)
  \/ Advance(c) \/ Reduce(c)
  \/ Unlock(c) \/ RestoreMask(c)

(* The main loop stands still while the interrupt runs.                      *)
Main == pc["UART_ISR"] = "idle" /\ (MainCalls \/ Proceed("main") \/ MainReturns)
ISR == Proceed("UART_ISR") \/ ISRContinues \/ ISRReturns

Next == Main \/ ISR \/ Interrupt
Spec == Init /\ [][Next]_vars

(* The processor never stops.                                                *)
FairSpec == Spec /\ WF_vars(Main \/ ISR)

-----------------------------------------------------------------------------
(* Properties.                                                               *)

(* Context c has masked the interrupts and not yet restored them.            *)
Inside(c) == pc[c] \in {"lock", "save", "test", "unlock", "MSR"} \cup Statement

(* Never are two contexts inside their critical sections, although the       *)
(* interrupt may come between the reading of the mask and its setting, and   *)
(* then runs the same macros over the same SR_lock and SR_reg.               *)
MutualExclusion == ~(Inside("main") /\ Inside("UART_ISR"))

(* Interrupts are masked exactly while a context is inside: no sequence of   *)
(* interrupted calls leaves them masked, or unmasks them too early.          *)
MaskedInside == FAULTMASK <=> \E c \in Context : Inside(c)

(* A FIFO call does to the ring the last call left what the operators of     *)
(* Fifo do, refusals included, and Get returns the oldest byte.              *)
CallsAreAtomic ==
  [][ \A c \in Context :
        LET before == committed[Used(c)]
            after == fifo'[Used(c)]
        IN  pc[c] \in {"test", "reduce"} /\ pc'[c] = "unlock" =>
              CASE task[c] = "Put" -> after = Put(before, data[c])
                [] task[c] = "Get" -> /\ after = Get(before)
                                      /\ result'[c] => data[c] = Oldest(before)
                [] OTHER -> TRUE ]_vars

(* Each ring is a bounded queue; a call takes effect at its last statement.  *)
Queue(f) == Contents(committed[f])
Rx == INSTANCE ByteQueue WITH
  queue <- Queue("RxFIFO"), Capacity <- FIFO_SIZE, Data <- Data
Tx == INSTANCE ByteQueue WITH
  queue <- Queue("TxFIFO"), Capacity <- FIFO_SIZE, Data <- Data
RxIsQueue == Rx!Spec
TxIsQueue == Tx!Spec

(* Masked interrupts are enabled again.                                      *)
Reenabled == FAULTMASK ~> ~FAULTMASK
=============================================================================
