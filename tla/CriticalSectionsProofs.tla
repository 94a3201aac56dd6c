----------------------- MODULE CriticalSectionsProofs -----------------------
(* Proofs about CriticalSections, for every ring size from 1 to 256 and      *)
(* every set of bytes: the two contexts exclude each other, interrupts are   *)
(* masked no longer than a context is inside, and each FIFO call, taken      *)
(* statement by statement, is the one operator that Fifo has for it.         *)
EXTENDS CriticalSections, FifoProofs

-----------------------------------------------------------------------------
(* The macros.  The saved mask is always FALSE, because whoever reads the    *)
(* mask does so outside; the depth counts the one context between its        *)
(* increment and its decrement; and the main loop is never inside while the  *)
(* interrupt runs.                                                           *)

Locked(c) == pc[c] \in {"save", "test", "unlock"} \cup Statement

LockInv ==
  /\ pc \in [Context -> Label]
  /\ FAULTMASK \in BOOLEAN /\ SR_reg = FALSE
  /\ SR_reg_local \in [Context -> BOOLEAN]
  /\ \A c \in Context : pc[c] \in {"CPSID", "lock", "save"} => SR_reg_local[c] = FALSE
  /\ SR_lock = IF Locked("main") \/ Locked("UART_ISR") THEN 1 ELSE 0
  /\ FAULTMASK = (Inside("main") \/ Inside("UART_ISR"))
  /\ pc["UART_ISR"] # "idle" => ~Inside("main")

(* A step of the next-state relation is one of these, by a context that may  *)
(* run.                                                                      *)
Running(c) == c = "main" => pc["UART_ISR"] = "idle"

LEMMA Contexts == /\ "main" \in Context /\ "UART_ISR" \in Context
                  /\ \A c \in Context : c = "main" \/ c = "UART_ISR"
BY DEF Context

LEMMA LockInit == Init => LockInv
BY DEF Init, LockInv, Locked, Inside, Context, Label, Statement

(* The common shape of a step of one context.                                *)
LEMMA LockProceed ==
  ASSUME LockInv, NEW c \in Context, Running(c), Proceed(c)
  PROVE  LockInv'
<1> USE Contexts DEF LockInv, Locked, Inside, Label, Statement, Running, Step
<1>1. CASE ReadMask(c)
  BY <1>1 DEF ReadMask, call
<1>2. CASE Disable(c)
  BY <1>2 DEF Disable, call
<1>3. CASE Lock(c)
  BY <1>3 DEF Lock, call
<1>4. CASE SaveMask(c)
  BY <1>4 DEF SaveMask, call
<1>5. CASE Test(c)
  BY <1>5 DEF Test, macro
<1>6. CASE SetTIE(c)
  BY <1>6 DEF SetTIE, macro
<1>7. CASE Count(c)
  BY <1>7 DEF Count, Becomes, macro
<1>8. CASE PutByte(c)
  BY <1>8 DEF PutByte, Becomes, macro
<1>9. CASE GetByte(c)
  BY <1>9 DEF GetByte, macro
<1>10. CASE Advance(c)
  BY <1>10 DEF Advance, Becomes, macro
<1>11. CASE Reduce(c)
  BY <1>11 DEF Reduce, Becomes, macro
<1>12. CASE Unlock(c)
  BY <1>12 DEF Unlock, call
<1>13. CASE RestoreMask(c)
  BY <1>13 DEF RestoreMask, call
<1> QED BY <1>1, <1>2, <1>3, <1>4, <1>5, <1>6, <1>7, <1>8, <1>9, <1>10, <1>11,
           <1>12, <1>13 DEF Proceed

LEMMA LockStep ==
  ASSUME LockInv, [Next]_vars
  PROVE  LockInv'
<1> USE Contexts DEF LockInv, Locked, Inside, Label, Statement, Step, Call
<1>1. CASE Main
  <2>1. CASE MainCalls
    BY <2>1 DEF MainCalls, macro
  <2>2. CASE MainReturns
    BY <2>2 DEF MainReturns, Forget
  <2>3. CASE pc["UART_ISR"] = "idle" /\ Proceed("main")
    BY <2>3, LockProceed DEF Running
  <2> QED BY <1>1, <2>1, <2>2, <2>3 DEF Main
<1>2. CASE ISR
  <2>1. CASE ISRContinues
    BY <2>1 DEF ISRContinues, macro
  <2>2. CASE ISRReturns
    BY <2>2 DEF ISRReturns, Forget
  <2>3. CASE Proceed("UART_ISR")
    BY <2>3, LockProceed DEF Running
  <2> QED BY <1>2, <2>1, <2>2, <2>3 DEF ISR
<1>3. CASE Interrupt
  BY <1>3 DEF Interrupt, macro
<1>4. CASE UNCHANGED vars
  BY <1>4 DEF vars, macro
<1> QED BY <1>1, <1>2, <1>3, <1>4 DEF Next

THEOREM LockInvariant == Spec => []LockInv
<1>1. Init => LockInv
  BY LockInit
<1>2. LockInv /\ [Next]_vars => LockInv'
  BY LockStep
<1> QED BY <1>1, <1>2, PTL DEF Spec

(* The two contexts are never inside together, whatever they call: class     *)
(* critical excludes the interrupt from the FIFO calls of the main loop.     *)
THEOREM Exclusive == Spec => []MutualExclusion
<1>1. LockInv => MutualExclusion
  BY DEF LockInv, MutualExclusion, Inside, Statement
<1> QED BY <1>1, LockInvariant, PTL

(* Interrupts are masked exactly as long as one of them is inside.           *)
THEOREM MaskExact == Spec => []MaskedInside
<1>1. LockInv => MaskedInside
  BY Contexts DEF LockInv, MaskedInside
<1> QED BY <1>1, LockInvariant, PTL

-----------------------------------------------------------------------------
(* The rings.  A ring nobody is working on is as the last call left it; in   *)
(* the middle of a call it differs from that by the statements done so far.  *)

Midway(c) ==
  LET b == committed[Used(c)]
      counted == pc[c] \in {"byte", "index", "reduce"}
      moved == pc[c] \in {"index", "reduce"}
  IN  \/ /\ task[c] = "Put" /\ HasRoom(b)
         /\ Here(c) = [Start   |-> b.Start,
                       End     |-> IF pc[c] = "reduce" THEN (b.End + 1) % 256 ELSE b.End,
                       NbBytes |-> IF counted THEN b.NbBytes + 1 ELSE b.NbBytes,
                       Buffer  |-> IF moved THEN [b.Buffer EXCEPT ![b.End] = data[c]]
                                            ELSE b.Buffer]
      \/ /\ task[c] = "Get" /\ HasData(b)
         /\ Here(c) = [Start   |-> IF pc[c] = "reduce" THEN (b.Start + 1) % 256 ELSE b.Start,
                       End     |-> b.End,
                       NbBytes |-> IF counted THEN b.NbBytes - 1 ELSE b.NbBytes,
                       Buffer  |-> b.Buffer]
         /\ moved => data[c] = Oldest(b)

Works(c, f) == pc[c] \in Statement /\ Used(c) = f

RingInv ==
  /\ task \in [Context -> Task] /\ data \in [Context -> Byte]
  /\ result = [c \in Context |-> result[c]]
  /\ \A c \in Context : task[c] = "Put" => data[c] \in Data
  /\ fifo = [f \in Ring |-> fifo[f]] /\ committed = [f \in Ring |-> committed[f]]
  /\ \A f \in Ring : FifoOK(committed[f])
  /\ \A c \in Context : pc[c] \in Statement => Midway(c)
  /\ \A f \in Ring : (\A c \in Context : ~Works(c, f)) => fifo[f] = committed[f]

LEMMA UsedRing == ASSUME NEW c PROVE Used(c) \in Ring
BY DEF Used, Ring

LEMMA RingInit == Init => RingInv
<1>1. Zero \in Byte
  BY DEF Zero, Byte
<1> QED BY <1>1, EmptyFifoOK
        DEF Init, RingInv, Works, Statement, Context, Task

(* While one context is inside, the other is at none of the statements.      *)
LEMMA Alone ==
  ASSUME LockInv, NEW c \in Context, Running(c), Inside(c),
         NEW d \in Context, d # c
  PROVE  pc[d] \notin Statement
BY DEF LockInv, Running, Inside, Statement, Context

(* The last statement of a call: the ring is what Put or Get makes of it.    *)
LEMMA ReduceCompletes ==
  ASSUME RingInv, NEW c \in Context, Reduce(c)
  PROVE  /\ \/ /\ task[c] = "Put" /\ HasRoom(committed[Used(c)])
               /\ fifo'[Used(c)] = Put(committed[Used(c)], data[c])
            \/ /\ task[c] = "Get" /\ HasData(committed[Used(c)])
               /\ fifo'[Used(c)] = Get(committed[Used(c)])
               /\ data[c] = Oldest(committed[Used(c)])
         /\ FifoOK(fifo'[Used(c)])
<1> DEFINE f == Used(c)
           b == committed[f]
<1>1. f \in Ring /\ FifoOK(b) /\ data[c] \in Byte
  BY UsedRing DEF RingInv
<1>2. pc[c] = "reduce" /\ Midway(c)
  BY DEF Reduce, Step, RingInv, Statement
<1>3. fifo'[f] = IF task[c] = "Put" THEN [Here(c) EXCEPT !.End = @ % FIFO_SIZE]
                                    ELSE [Here(c) EXCEPT !.Start = @ % FIFO_SIZE]
  <2>1. fifo = [g \in Ring |-> fifo[g]]
    BY DEF RingInv
  <2> QED BY <1>1, <2>1 DEF Reduce, Becomes
<1>4. CASE task[c] = "Put"
  <2>1. /\ HasRoom(b)
        /\ Here(c) = [Start |-> b.Start, End |-> (b.End + 1) % 256,
                      NbBytes |-> b.NbBytes + 1,
                      Buffer |-> [b.Buffer EXCEPT ![b.End] = data[c]]]
    BY <1>2, <1>4 DEF Midway
  <2>2. fifo'[f] = Put(b, data[c])
    BY <1>3, <1>4, <2>1 DEF Put, Succ
  <2> QED BY <1>1, <1>4, <2>1, <2>2, PutOK
<1>5. CASE task[c] # "Put"
  <2>1. /\ task[c] = "Get" /\ HasData(b) /\ data[c] = Oldest(b)
        /\ Here(c) = [Start |-> (b.Start + 1) % 256, End |-> b.End,
                      NbBytes |-> b.NbBytes - 1, Buffer |-> b.Buffer]
    BY <1>2, <1>5 DEF Midway
  <2>2. fifo'[f] = Get(b)
    BY <1>3, <1>5, <2>1 DEF Get, Succ
  <2> QED BY <1>1, <2>1, <2>2, GetOK
<1> QED BY <1>4, <1>5

(* A step that leaves both rings, and stays out of the statements.           *)
LEMMA RingElsewhere ==
  ASSUME RingInv, NEW c \in Context, pc[c] \notin Statement, pc'[c] \notin Statement,
         UNCHANGED <<fifo, committed>>,
         \A d \in Context \ {c} :
           pc'[d] = pc[d] /\ task'[d] = task[d] /\ data'[d] = data[d],
         task' \in [Context -> Task], data' \in [Context -> Byte],
         result' = [d \in Context |-> result'[d]],
         task'[c] = "Put" => data'[c] \in Data
  PROVE  RingInv'
<1>1. \A d \in Context : pc'[d] \in Statement =>
         d # c /\ pc'[d] = pc[d] /\ Used(d)' = Used(d) /\ (Midway(d) => Midway(d)')
  <2>1. SUFFICES ASSUME NEW d \in Context, pc'[d] \in Statement
                 PROVE  d # c /\ pc'[d] = pc[d] /\ Used(d)' = Used(d)
                        /\ (Midway(d) => Midway(d)')
    OBVIOUS
  <2>2. d # c /\ pc'[d] = pc[d] /\ task'[d] = task[d] /\ data'[d] = data[d]
    BY <2>1
  <2> QED BY <2>2 DEF Used, Midway, Here
<1>2. \A d \in Context : pc'[d] \in Statement => Midway(d)'
  <2>1. SUFFICES ASSUME NEW d \in Context, pc'[d] \in Statement
                 PROVE  Midway(d)'
    OBVIOUS
  <2>2. pc[d] \in Statement /\ Midway(d)
    BY <1>1, <2>1 DEF RingInv
  <2> QED BY <1>1, <2>1, <2>2
<1>3. \A f \in Ring : (\A d \in Context : ~Works(d, f)') => fifo'[f] = committed'[f]
  <2>1. SUFFICES ASSUME NEW f \in Ring, \A d \in Context : ~Works(d, f)'
                 PROVE  fifo'[f] = committed'[f]
    OBVIOUS
  <2>2. ASSUME NEW d \in Context PROVE ~Works(d, f)
    <3>1. CASE d = c
      BY <3>1 DEF Works
    <3>2. CASE d # c
      <4>1. pc'[d] = pc[d] /\ Used(d)' = Used(d)
        BY <3>2 DEF Used
      <4> QED BY <2>1, <4>1 DEF Works
    <3> QED BY <3>1, <3>2
  <2> QED BY <2>2 DEF RingInv
<1>4. \A d \in Context : task'[d] = "Put" => data'[d] \in Data
  BY DEF RingInv
<1> QED BY <1>2, <1>3, <1>4 DEF RingInv

LEMMA RingTest ==
  ASSUME LockInv, RingInv, NEW c \in Context, Running(c), Test(c)
  PROVE  RingInv'
<1>1. pc[c] = "test" /\ \A d \in Context \ {c} : pc[d] \notin Statement
  BY Alone DEF Test, Step, Inside
<1>2. fifo = committed
  <2>1. \A d \in Context, f \in Ring : ~Works(d, f)
    BY <1>1 DEF Works, Statement
  <2>2. \A f \in Ring : fifo[f] = committed[f]
    BY <2>1 DEF RingInv
  <2> QED BY <2>2 DEF RingInv
<1>3. /\ \A d \in Context \ {c} : pc'[d] \notin Statement
      /\ pc'[c] \in {"count", "unlock"} /\ UNCHANGED <<task, data, fifo, committed>>
      /\ pc'[c] = "count" => Accepts(c)
      /\ task[c] \in {"Put", "Get"}
  BY <1>1 DEF Test, Step, LockInv
<1>4. pc'[c] = "count" => Midway(c)'
  <2>1. SUFFICES ASSUME pc'[c] = "count" PROVE Midway(c)'
    OBVIOUS
  <2>2. Used(c)' = Used(c) /\ Used(c) \in Ring
    BY <1>3, UsedRing DEF Used
  <2> DEFINE b == committed[Used(c)]
  <2>3. b = [Start |-> b.Start, End |-> b.End, NbBytes |-> b.NbBytes, Buffer |-> b.Buffer]
    BY <2>2 DEF RingInv, FifoOK, FifoType
  <2> HIDE DEF b
  <2>4. Here(c)' = b /\ committed'[Used(c)'] = b
    BY <1>2, <1>3, <2>2 DEF Here, b
  <2>5. IF task[c] = "Put" THEN HasRoom(b) ELSE HasData(b)
    BY <1>2, <1>3, <2>1 DEF Accepts, Here, b
  <2> QED BY <1>3, <2>1, <2>3, <2>4, <2>5 DEF Midway
<1>5. result' = [d \in Context |-> result'[d]]
  BY DEF Test, RingInv
<1>6. \A d \in Context : pc'[d] \in Statement => Midway(d)'
  BY <1>3, <1>4 DEF Statement
<1> QED BY <1>2, <1>3, <1>5, <1>6 DEF RingInv

(* A statement of Put or Get but the last.                                   *)
LEMMA RingStatement ==
  ASSUME LockInv, RingInv, NEW c \in Context, Running(c),
         Count(c) \/ PutByte(c) \/ GetByte(c) \/ Advance(c)
  PROVE  RingInv'
<1> DEFINE f == Used(c)
           b == committed[f]
<1>1. /\ pc[c] \in {"count", "byte", "index"}
      /\ pc'[c] \in {"byte", "index", "reduce"}
      /\ pc' = [pc EXCEPT ![c] = pc'[c]]
      /\ UNCHANGED <<task, result, committed>>
      /\ data' = [data EXCEPT ![c] = data'[c]]
  BY DEF Count, PutByte, GetByte, Advance, Becomes, Step, call, LockInv, RingInv
<1>2. /\ Midway(c) /\ f \in Ring /\ FifoOK(b) /\ f' = f /\ b' = b
      /\ \A d \in Context \ {c} : pc[d] \notin Statement /\ pc'[d] \notin Statement
  <2>1. Midway(c) /\ f \in Ring /\ FifoOK(b)
    BY <1>1, UsedRing DEF RingInv, Statement
  <2>2. f' = f
    BY <1>1 DEF Used
  <2>3. Inside(c)
    BY <1>1 DEF Inside, Statement
  <2>4. \A d \in Context \ {c} : pc[d] \notin Statement
    BY <2>3, Alone
  <2>5. \A d \in Context \ {c} : pc'[d] = pc[d]
    BY <1>1 DEF LockInv
  <2> QED BY <1>1, <2>1, <2>2, <2>4, <2>5
<1>3. /\ fifo' = [g \in Ring |-> fifo'[g]]
      /\ \A g \in Ring \ {f} : fifo'[g] = fifo[g]
  BY <1>2 DEF Count, PutByte, GetByte, Advance, Becomes, RingInv
<1>4. Midway(c)' /\ data'[c] \in Byte /\ (task[c] = "Put" => data'[c] = data[c])
  <2>1. CASE Count(c)
    <3>1. /\ fifo'[f] = [Here(c) EXCEPT !.NbBytes = IF task[c] = "Put" THEN @ + 1 ELSE @ - 1]
          /\ data' = data /\ pc[c] = "count" /\ pc'[c] = "byte"
      BY <1>2, <2>1 DEF Count, Becomes, Step, call, RingInv, LockInv
    <3> QED BY <1>1, <1>2, <3>1 DEF Midway, Here, RingInv
  <2>2. CASE PutByte(c)
    <3>1. /\ fifo'[f] = [Here(c) EXCEPT !.Buffer = [@ EXCEPT ![Here(c).End] = data[c]]]
          /\ task[c] = "Put" /\ data' = data /\ pc[c] = "byte" /\ pc'[c] = "index"
      BY <1>2, <2>2 DEF PutByte, Becomes, Step, call, RingInv, LockInv
    <3> QED BY <1>1, <1>2, <3>1 DEF Midway, Here, RingInv
  <2>3. CASE GetByte(c)
    <3>1. /\ fifo' = fifo /\ data'[c] = Oldest(Here(c))
          /\ task[c] = "Get" /\ pc[c] = "byte" /\ pc'[c] = "index"
      BY <2>3 DEF GetByte, Step, RingInv, LockInv
    <3>2. /\ HasData(b)
          /\ Here(c) = [Start |-> b.Start, End |-> b.End,
                        NbBytes |-> b.NbBytes - 1, Buffer |-> b.Buffer]
      BY <1>2, <3>1 DEF Midway
    <3>3. Oldest(Here(c)) = Oldest(b) /\ Oldest(b) \in Byte
      BY <1>2, <3>2, OldestType DEF Oldest
    <3> QED BY <1>1, <1>2, <3>1, <3>2, <3>3 DEF Midway, Here
  <2>4. CASE Advance(c)
    <3>1. /\ fifo'[f] = IF task[c] = "Put" THEN [Here(c) EXCEPT !.End = (@ + 1) % 256]
                                           ELSE [Here(c) EXCEPT !.Start = (@ + 1) % 256]
          /\ data' = data /\ pc[c] = "index" /\ pc'[c] = "reduce"
      BY <1>2, <2>4 DEF Advance, Becomes, Step, call, RingInv, LockInv
    <3> QED BY <1>1, <1>2, <3>1 DEF Midway, Here, RingInv
  <2> QED BY <2>1, <2>2, <2>3, <2>4
<1>5. \A d \in Context : pc'[d] \in Statement => Midway(d)'
  BY <1>2, <1>4
<1>6. \A g \in Ring : (\A d \in Context : ~Works(d, g)') => fifo'[g] = committed'[g]
  <2>1. SUFFICES ASSUME NEW g \in Ring, \A d \in Context : ~Works(d, g)'
                 PROVE  fifo'[g] = committed'[g]
    OBVIOUS
  <2>2. g # f
    BY <1>1, <1>2, <2>1 DEF Works, Statement
  <2>3. \A d \in Context : ~Works(d, g)
    BY <1>2, <2>2 DEF Works
  <2> QED BY <1>1, <1>3, <2>2, <2>3 DEF RingInv
<1> QED BY <1>1, <1>2, <1>3, <1>4, <1>5, <1>6 DEF RingInv

LEMMA RingProceed ==
  ASSUME LockInv, RingInv, NEW c \in Context, Running(c), Proceed(c)
  PROVE  RingInv'
<1> USE DEF Statement, Step
<1>1. ASSUME \/ ReadMask(c) \/ Disable(c) \/ Lock(c) \/ SaveMask(c) \/ SetTIE(c)
             \/ Unlock(c) \/ RestoreMask(c)
      PROVE  RingInv'
  <2>1. /\ UNCHANGED <<fifo, committed, task, data, result>>
        /\ pc[c] \notin Statement /\ pc'[c] \notin Statement
        /\ \A d \in Context \ {c} : pc'[d] = pc[d]
    BY <1>1 DEF ReadMask, Disable, Lock, SaveMask, SetTIE, Unlock, RestoreMask,
                call, LockInv
  <2> QED BY <2>1, RingElsewhere DEF RingInv
<1>2. ASSUME Reduce(c) PROVE RingInv'
  <2> DEFINE f == Used(c)
  <2>0. f \in Ring /\ FifoOK(fifo'[f])
    BY <1>2, UsedRing, ReduceCompletes
  <2>5. UNCHANGED <<task, data, result>>
    BY <1>2 DEF Reduce, Becomes, call
  <2>6. f' = f
    BY <2>5 DEF Used
  <2>7. \E ring : fifo' = [fifo EXCEPT ![f] = ring]
    BY <1>2 DEF Reduce, Becomes
  <2>8. committed' = [committed EXCEPT ![f] = fifo'[f]]
    BY <1>2 DEF Reduce
  <2>9. fifo = [g \in Ring |-> fifo[g]] /\ committed = [g \in Ring |-> committed[g]]
    BY DEF RingInv
  <2> HIDE DEF f
  <2>1. /\ f \in Ring /\ f' = f /\ FifoOK(fifo'[f])
        /\ UNCHANGED <<task, data, result>>
        /\ fifo' = [g \in Ring |-> fifo'[g]] /\ committed' = [g \in Ring |-> committed'[g]]
        /\ committed'[f] = fifo'[f]
        /\ \A g \in Ring \ {f} : fifo'[g] = fifo[g] /\ committed'[g] = committed[g]
    BY <2>0, <2>5, <2>6, <2>7, <2>8, <2>9
  <2> USE DEF f
  <2>2. \A d \in Context : pc'[d] \notin Statement
    BY <1>2, Alone DEF Reduce, Inside, LockInv
  <2>3. \A g \in Ring : FifoOK(committed'[g])
    BY <2>1 DEF RingInv
  <2>4. \A g \in Ring : fifo'[g] = committed'[g]
    <3>1. SUFFICES ASSUME NEW g \in Ring, g # f PROVE fifo'[g] = committed'[g]
      BY <2>1
    <3>2. pc[c] = "reduce" /\ \A d \in Context \ {c} : pc[d] \notin Statement
      BY <1>2, Alone DEF Reduce, Inside
    <3>3. \A d \in Context : ~Works(d, g)
      BY <3>1, <3>2 DEF Works
    <3> QED BY <2>1, <3>1, <3>3 DEF RingInv
  <2> QED BY <2>1, <2>2, <2>3, <2>4 DEF RingInv
<1> QED BY <1>1, <1>2, RingTest, RingStatement DEF Proceed

(* A call begins, or its locals are forgotten.                               *)
BetweenCalls(c) ==
  /\ UNCHANGED <<fifo, committed>>
  /\ pc[c] \in {"idle", "return"}
  /\ \E label \in {"MRS", "idle"}, t \in Task, d \in Byte :
       /\ pc' = [pc EXCEPT ![c] = label]
       /\ task' = [task EXCEPT ![c] = t] /\ (t = "Put" => d \in Data)
       /\ data' = [data EXCEPT ![c] = d] \/ (data' = data /\ t # "Put")
  /\ result' = [result EXCEPT ![c] = FALSE] \/ result' = result

LEMMA RingCalls ==
  ASSUME LockInv, RingInv,
         \/ MainCalls \/ MainReturns \/ Interrupt \/ ISRContinues \/ ISRReturns
  PROVE  RingInv'
<1>1. Data \subseteq Byte /\ Zero \in Byte
  BY DataAssumption DEF Zero, Byte
<1>2. \E c \in Context : BetweenCalls(c)
  <2> USE Contexts, <1>1 DEF BetweenCalls, Step, Call, Forget, Task
  <2>1. CASE MainCalls
    BY <2>1 DEF MainCalls
  <2>2. CASE MainReturns
    BY <2>2 DEF MainReturns
  <2>3. CASE Interrupt
    BY <2>3 DEF Interrupt
  <2>4. CASE ISRContinues
    BY <2>4 DEF ISRContinues
  <2>5. CASE ISRReturns
    BY <2>5 DEF ISRReturns
  <2> QED BY <2>1, <2>2, <2>3, <2>4, <2>5
<1>3. PICK c \in Context : BetweenCalls(c)
  BY <1>2
<1>4. /\ pc \in [Context -> Label] /\ task \in [Context -> Task]
      /\ data \in [Context -> Byte] /\ result = [d \in Context |-> result[d]]
  BY DEF LockInv, RingInv
<1>5. pc[c] \notin Statement /\ pc'[c] \notin Statement
  BY <1>3, <1>4 DEF Statement, BetweenCalls
<1>6. /\ \A d \in Context \ {c} :
           pc'[d] = pc[d] /\ task'[d] = task[d] /\ data'[d] = data[d]
      /\ task' \in [Context -> Task] /\ data' \in [Context -> Byte]
      /\ task'[c] = "Put" => data'[c] \in Data
  BY <1>3, <1>4 DEF BetweenCalls
<1>7. result' = [d \in Context |-> result'[d]]
  BY <1>3, <1>4 DEF BetweenCalls
<1> QED BY <1>3, <1>5, <1>6, <1>7, RingElsewhere DEF BetweenCalls

LEMMA RingStep ==
  ASSUME LockInv, RingInv, [Next]_vars
  PROVE  RingInv'
<1>1. CASE MainCalls \/ MainReturns \/ Interrupt \/ ISRContinues \/ ISRReturns
  BY <1>1, RingCalls
<1>2. CASE pc["UART_ISR"] = "idle" /\ Proceed("main")
  BY <1>2, RingProceed, Contexts DEF Running
<1>3. CASE Proceed("UART_ISR")
  BY <1>3, RingProceed, Contexts DEF Running
<1>4. CASE UNCHANGED vars
  <2>1. UNCHANGED <<pc, task, data, result, fifo, committed>>
    BY <1>4 DEF vars, call
  <2>2. \A c \in Context : Midway(c) => Midway(c)'
    BY <2>1 DEF Midway, Here, Used
  <2>3. \A c \in Context, f \in Ring : Works(c, f) => Works(c, f)'
    BY <2>1 DEF Works, Used
  <2> QED BY <2>1, <2>2, <2>3 DEF RingInv
<1> QED BY <1>1, <1>2, <1>3, <1>4 DEF Next, Main, ISR

THEOREM RingInvariant == Spec => []RingInv
<1>1. Init => RingInv
  BY RingInit
<1>2. LockInv /\ RingInv /\ [Next]_vars => RingInv'
  BY RingStep
<1> QED BY <1>1, <1>2, LockInvariant, PTL DEF Spec

-----------------------------------------------------------------------------
(* What a step does to the rings the last calls left.                        *)

(* Only the last statement of a call changes them.                           *)
LEMMA OnlyReduceCommits ==
  ASSUME [Next]_vars, ~Reduce("main") \/ pc["UART_ISR"] # "idle", ~Reduce("UART_ISR")
  PROVE  UNCHANGED committed
BY DEF Next, Main, ISR, Interrupt, MainCalls, MainReturns, ISRContinues, ISRReturns,
       Call, Proceed, ReadMask, Disable, Lock, SaveMask, Test, SetTIE, Count, PutByte,
       GetByte, Advance, Unlock, RestoreMask, vars

(* A step to "unlock" from the condition or from the last statement is Test, *)
(* SetTIE or Reduce of that context.                                         *)
LEMMA EndsOfBody ==
  ASSUME LockInv, [Next]_vars, NEW c \in Context,
         pc[c] \in {"test", "reduce"}, pc'[c] = "unlock"
  PROVE  Running(c) /\ (Test(c) \/ SetTIE(c) \/ Reduce(c))
<1>1. pc \in [Context -> Label] /\ pc'[c] # pc[c]
  BY DEF LockInv
<1> USE Contexts DEF Step, Call
<1>2. CASE MainCalls \/ MainReturns
  BY <1>1, <1>2 DEF MainCalls, MainReturns
<1>3. CASE Interrupt \/ ISRContinues \/ ISRReturns
  BY <1>1, <1>3 DEF Interrupt, ISRContinues, ISRReturns
<1>4. ASSUME NEW d \in Context, Running(d), Proceed(d)
      PROVE  Running(c) /\ (Test(c) \/ SetTIE(c) \/ Reduce(c))
  <2>1. d = c
    BY <1>1, <1>4 DEF Proceed, ReadMask, Disable, Lock, SaveMask, Test, SetTIE, Count,
       PutByte, GetByte, Advance, Reduce, Unlock, RestoreMask
  <2> QED
    BY <1>1, <1>4, <2>1 DEF Proceed, ReadMask, Disable, Lock, SaveMask, Count,
       PutByte, GetByte, Advance, Unlock, RestoreMask
<1>5. CASE UNCHANGED vars
  BY <1>1, <1>5 DEF vars
<1> QED BY <1>2, <1>3, <1>4, <1>5 DEF Next, Main, ISR, Running

(* Before the first statement a ring is as the last call left it.            *)
LEMMA Untouched ==
  ASSUME LockInv, RingInv, NEW c \in Context, Running(c), pc[c] = "test"
  PROVE  Here(c) = committed[Used(c)]
<1>1. \A d \in Context \ {c} : pc[d] \notin Statement
  BY Alone DEF Inside
<1>2. \A d \in Context : ~Works(d, Used(c))
  BY <1>1 DEF Works, Statement
<1> QED BY <1>2, UsedRing DEF RingInv, Here

(* Each call is the one operator of Fifo: the statements of Put and Get, and *)
(* what the interrupt does between them, are never seen by the other side.   *)
THEOREM CallsAtomic == Spec => CallsAreAtomic
<1> DEFINE Atomic(c) ==
       pc[c] \in {"test", "reduce"} /\ pc'[c] = "unlock" =>
         CASE task[c] = "Put" -> fifo'[Used(c)] = Put(committed[Used(c)], data[c])
           [] task[c] = "Get" ->
                /\ fifo'[Used(c)] = Get(committed[Used(c)])
                /\ result'[c] => data[c] = Oldest(committed[Used(c)])
           [] OTHER -> TRUE
<1>1. ASSUME LockInv, RingInv, [Next]_vars, NEW c \in Context PROVE Atomic(c)
  <2>1. SUFFICES ASSUME pc[c] \in {"test", "reduce"}, pc'[c] = "unlock"
                 PROVE  Atomic(c)
    OBVIOUS
  <2>2. Running(c) /\ (Test(c) \/ SetTIE(c) \/ Reduce(c))
    BY <1>1, <2>1, EndsOfBody
  <2>3. CASE Test(c)
    <3>1. Here(c) = committed[Used(c)] /\ fifo' = fifo /\ ~Accepts(c) /\ ~result'[c]
      BY <1>1, <2>1, <2>2, <2>3, Untouched DEF Test, Step, LockInv, RingInv
    <3> QED BY <3>1 DEF Here, Accepts, Put, Get
  <2>4. CASE SetTIE(c)
    BY <2>4 DEF SetTIE
  <2>5. CASE Reduce(c)
    BY <1>1, <2>5, ReduceCompletes
  <2> QED BY <2>2, <2>3, <2>4, <2>5
<1>2. LockInv /\ RingInv /\ [Next]_vars => [\A c \in Context : Atomic(c)]_vars
  BY <1>1
<1> QED BY <1>2, LockInvariant, RingInvariant, PTL DEF Spec, CallsAreAtomic

-----------------------------------------------------------------------------
(* The rings are queues.                                                     *)

(* What a step makes of a committed ring.                                    *)
LEMMA CommitSteps ==
  ASSUME LockInv, RingInv, [Next]_vars, NEW f \in Ring
  PROVE  LET b == committed[f] IN
         \/ committed'[f] = b
         \/ HasRoom(b) /\ \E d \in Data : committed'[f] = Put(b, d)
         \/ HasData(b) /\ committed'[f] = Get(b)
<1> DEFINE b == committed[f]
<1>1. ASSUME NEW c \in Context, Reduce(c)
      PROVE  \/ committed'[f] = b
             \/ HasRoom(b) /\ \E d \in Data : committed'[f] = Put(b, d)
             \/ HasData(b) /\ committed'[f] = Get(b)
  <2>1. committed = [g \in Ring |-> committed[g]]
    BY DEF RingInv
  <2>2. committed' = [committed EXCEPT ![Used(c)] = fifo'[Used(c)]]
    BY <1>1 DEF Reduce
  <2>3. CASE Used(c) # f
    BY <2>1, <2>2, <2>3
  <2>4. CASE Used(c) = f
    <3>1. committed'[f] = fifo'[f]
      BY <2>1, <2>2, <2>4
    <3>2. task[c] = "Put" => data[c] \in Data
      BY DEF RingInv
    <3> QED BY <1>1, <2>4, <3>1, <3>2, ReduceCompletes
  <2> QED BY <2>3, <2>4
<1>2. CASE committed' = committed
  BY <1>2
<1> QED BY <1>1, <1>2, OnlyReduceCommits, Contexts

LEMMA QueueSteps ==
  ASSUME LockInv, RingInv, [Next]_vars, NEW f \in Ring
  PROVE  \/ Queue(f)' = Queue(f)
         \/ /\ Len(Queue(f)) < FIFO_SIZE
            /\ \E d \in Data : Queue(f)' = Append(Queue(f), d)
         \/ Queue(f) # <<>> /\ Queue(f)' = Tail(Queue(f))
<1> DEFINE b == committed[f]
<1>1. FifoOK(b) /\ Queue(f)' = Contents(committed'[f]) /\ Queue(f) = Contents(b)
  BY DEF RingInv, Queue, Contents
<1>2. CASE committed'[f] = b
  BY <1>1, <1>2
<1>3. ASSUME HasRoom(b), NEW d \in Data, committed'[f] = Put(b, d)
      PROVE  Len(Queue(f)) < FIFO_SIZE /\ Queue(f)' = Append(Queue(f), d)
  <2>1. d \in Byte
    BY DataAssumption
  <2>2. Len(Queue(f)) = b.NbBytes
    BY <1>1, ContentsType
  <2> QED BY <1>1, <1>3, <2>1, <2>2, PutAppends DEF HasRoom
<1>4. CASE HasData(b) /\ committed'[f] = Get(b)
  BY <1>1, <1>4, GetRemoves
<1> QED BY <1>2, <1>3, <1>4, CommitSteps

LEMMA QueuesEmpty == ASSUME Init, NEW f \in Ring PROVE Queue(f) = <<>>
BY EmptyContents DEF Init, Queue

(* RxFIFO, used statement by statement by both sides, is a bounded queue.    *)
THEOREM RxRingIsQueue == Spec => RxIsQueue
<1>1. Init => Rx!Init
  BY QueuesEmpty DEF Rx!Init, Ring
<1>2. LockInv /\ RingInv /\ [Next]_vars => [Rx!Next]_(Queue("RxFIFO"))
  BY QueueSteps DEF Ring, Rx!Next, Rx!Enqueue, Rx!Dequeue
<1> QED BY <1>1, <1>2, LockInvariant, RingInvariant, PTL DEF Spec, RxIsQueue, Rx!Spec

(* And so is TxFIFO.                                                         *)
THEOREM TxRingIsQueue == Spec => TxIsQueue
<1>1. Init => Tx!Init
  BY QueuesEmpty DEF Tx!Init, Ring
<1>2. LockInv /\ RingInv /\ [Next]_vars => [Tx!Next]_(Queue("TxFIFO"))
  BY QueueSteps DEF Ring, Tx!Next, Tx!Enqueue, Tx!Dequeue
<1> QED BY <1>1, <1>2, LockInvariant, RingInvariant, PTL DEF Spec, TxIsQueue, Tx!Spec

-----------------------------------------------------------------------------
(* Types.                                                                    *)

AnswersType == result \in [Context -> BOOLEAN] /\ TIE \in BOOLEAN

LEMMA AcceptsType ==
  ASSUME NEW c
  PROVE  Accepts(c) = TRUE \/ Accepts(c) = FALSE
<1>1. CASE task[c] = "Put"
  <2>1. Accepts(c) = HasRoom(Here(c))
    BY <1>1, Zenon DEF Accepts
  <2>2. HasRoom(Here(c)) = TRUE \/ HasRoom(Here(c)) = FALSE
    BY SMT DEF HasRoom
  <2> QED BY <2>1, <2>2, Zenon
<1>2. CASE task[c] # "Put"
  <2>1. Accepts(c) = HasData(Here(c))
    BY <1>2, Zenon DEF Accepts
  <2> QED BY <2>1, Zenon DEF HasData
<1> QED BY <1>1, <1>2, Zenon

LEMMA AnswersStep ==
  ASSUME AnswersType, [Next]_vars
  PROVE  AnswersType'
<1> USE DEF AnswersType
<1>1. ASSUME NEW c \in Context, Test(c)
      PROVE  AnswersType'
  <2>1. result' = [result EXCEPT ![c] = Accepts(c)] /\ TIE' = TIE
    BY <1>1 DEF Test
  <2>2. CASE Accepts(c) = TRUE
    <3>1. result' = [result EXCEPT ![c] = TRUE]
      BY <2>1, <2>2, Zenon
    <3> QED BY <2>1, <3>1
  <2>3. CASE Accepts(c) = FALSE
    <3>1. result' = [result EXCEPT ![c] = FALSE]
      BY <2>1, <2>3, Zenon
    <3> QED BY <2>1, <3>1
  <2> QED BY <2>2, <2>3, AcceptsType
<1>2. ASSUME NEW c \in Context, SetTIE(c)
      PROVE  AnswersType'
  <2>1. TIE' = (c = "main") /\ result' = result
    BY <1>2 DEF SetTIE, call
  <2>2. TIE' \in BOOLEAN
    BY <2>1, Zenon
  <2> QED BY <2>1, <2>2
<1>3. ASSUME NEW c \in Context, Proceed(c), ~Test(c), ~SetTIE(c)
      PROVE  UNCHANGED <<result, TIE>>
  BY <1>3 DEF Proceed, ReadMask, Disable, Lock, SaveMask, Count, PutByte, GetByte,
              Advance, Reduce, Becomes, Unlock, RestoreMask, call
<1>4. CASE \E c \in Context : Proceed(c)
  BY <1>1, <1>2, <1>3, <1>4
<1>5. CASE MainCalls \/ MainReturns \/ Interrupt \/ ISRContinues \/ ISRReturns
  BY <1>5 DEF MainCalls, MainReturns, Interrupt, ISRContinues, ISRReturns, Call, Forget
<1>6. CASE UNCHANGED vars
  BY <1>6 DEF vars, call
<1> QED BY <1>4, <1>5, <1>6, Contexts DEF Next, Main, ISR

(* The ring in the middle of a call: its index has left the ring by at most  *)
(* one, and its count stays within the size.                                 *)
LEMMA MidwayType ==
  ASSUME NEW c \in Context, Midway(c), FifoOK(committed[Used(c)]), data[c] \in Byte
  PROVE  Here(c) \in [Start : 0..FIFO_SIZE, End : 0..FIFO_SIZE,
                      NbBytes : 0..FIFO_SIZE, Buffer : [Index -> Byte]]
<1> DEFINE b == committed[Used(c)]
           ring == Here(c)
<1>1. FIFO_SIZE \in Nat /\ 1 <= FIFO_SIZE /\ FIFO_SIZE <= 256
  BY FifoAssumption
<1>2. /\ b.Start \in 0..FIFO_SIZE-1 /\ b.End \in 0..FIFO_SIZE-1
      /\ b.NbBytes \in 0..FIFO_SIZE /\ b.Buffer \in [Index -> Byte]
  BY DEF FifoOK, FifoType, Index
<1>3. ASSUME NEW i \in 0..FIFO_SIZE-1
      PROVE  (i + 1) % 256 \in 0..FIFO_SIZE
  <2>1. CASE i + 1 = 256
    BY <1>1, <2>1
  <2>2. CASE i + 1 < 256
    <3>1. (i + 1) % 256 = i + 1
      BY <1>1, <2>2
    <3> QED BY <1>1, <3>1
  <2> QED BY <1>1, <2>1, <2>2
<1>4. [b.Buffer EXCEPT ![b.End] = data[c]] \in [Index -> Byte]
  BY <1>2
<1>5. \E start \in 0..FIFO_SIZE, end \in 0..FIFO_SIZE, n \in 0..FIFO_SIZE,
         buffer \in [Index -> Byte] :
        ring = [Start |-> start, End |-> end, NbBytes |-> n, Buffer |-> buffer]
  <2> HIDE DEF b, ring
  <2> DEFINE next(i) == (i + 1) % 256
             stored == [b.Buffer EXCEPT ![b.End] = data[c]]
  <2>1. /\ next(b.Start) \in 0..FIFO_SIZE /\ next(b.End) \in 0..FIFO_SIZE
        /\ b.Start \in 0..FIFO_SIZE /\ b.End \in 0..FIFO_SIZE
        /\ stored \in [Index -> Byte]
    BY <1>1, <1>2, <1>3, <1>4
  <2> HIDE DEF next, stored
  <2>2. CASE task[c] = "Put"
    <3>1. /\ HasRoom(b)
          /\ ring = [Start   |-> b.Start,
                     End     |-> IF pc[c] = "reduce" THEN next(b.End) ELSE b.End,
                     NbBytes |-> IF pc[c] \in {"byte", "index", "reduce"}
                                   THEN b.NbBytes + 1 ELSE b.NbBytes,
                     Buffer  |-> IF pc[c] \in {"index", "reduce"} THEN stored
                                                                  ELSE b.Buffer]
      BY <2>2 DEF Midway, b, ring, next, stored
    <3>2. b.NbBytes + 1 \in 0..FIFO_SIZE
      BY <1>1, <1>2, <3>1 DEF HasRoom
    <3> QED BY <1>2, <2>1, <3>1, <3>2
  <2>3. CASE task[c] = "Get"
    <3>1. /\ HasData(b)
          /\ ring = [Start   |-> IF pc[c] = "reduce" THEN next(b.Start) ELSE b.Start,
                     End     |-> b.End,
                     NbBytes |-> IF pc[c] \in {"byte", "index", "reduce"}
                                   THEN b.NbBytes - 1 ELSE b.NbBytes,
                     Buffer  |-> b.Buffer]
      BY <2>3 DEF Midway, b, ring, next
    <3>2. b.NbBytes - 1 \in 0..FIFO_SIZE
      BY <1>1, <1>2, <3>1 DEF HasData
    <3> QED BY <1>2, <2>1, <3>1, <3>2
  <2> QED BY <2>2, <2>3 DEF Midway
<1> HIDE DEF ring
<1>6. ring \in [Start : 0..FIFO_SIZE, End : 0..FIFO_SIZE,
                NbBytes : 0..FIFO_SIZE, Buffer : [Index -> Byte]]
  BY <1>5
<1> QED BY <1>6 DEF ring

LEMMA InvariantTypes ==
  ASSUME LockInv, RingInv, AnswersType
  PROVE  TypeOK
<1> DEFINE Rings == [Start : 0..FIFO_SIZE, End : 0..FIFO_SIZE,
                     NbBytes : 0..FIFO_SIZE, Buffer : [Index -> Byte]]
<1>1. \A f \in Ring : FifoOK(committed[f]) /\ committed[f] \in FifoType
  BY DEF RingInv, FifoOK
<1>2. FifoType \subseteq Rings
  BY FifoAssumption DEF FifoType, Index
<1>3. ASSUME NEW f \in Ring
      PROVE  fifo[f] \in Rings
  <2> HIDE DEF Rings
  <2>1. CASE \A c \in Context : ~Works(c, f)
    <3>1. fifo[f] = committed[f]
      BY <2>1 DEF RingInv
    <3> QED BY <1>1, <1>2, <3>1
  <2>2. ASSUME NEW c \in Context, Works(c, f)
        PROVE  fifo[f] \in Rings
    <3>1. Midway(c) /\ Used(c) = f /\ data[c] \in Byte
      BY <2>2 DEF Works, RingInv
    <3>2. Here(c) \in Rings
      BY <1>1, <3>1, MidwayType DEF Rings
    <3> QED BY <3>1, <3>2 DEF Here
  <2> QED BY <2>1, <2>2
<1> HIDE DEF Rings
<1>4. fifo \in [Ring -> Rings] /\ committed \in [Ring -> FifoType]
  BY <1>1, <1>3 DEF RingInv
<1>5. SR_lock \in 0..1 /\ SR_reg \in BOOLEAN
  <2>1. SR_lock = 1 \/ SR_lock = 0
    BY DEF LockInv
  <2>2. SR_reg = FALSE
    BY DEF LockInv
  <2>3. SR_reg \in BOOLEAN
    BY <2>2, Zenon
  <2>4. SR_lock \in 0..1
    BY <2>1, SMT
  <2> QED BY <2>3, <2>4, Zenon
<1> QED BY <1>4, <1>5 DEF LockInv, RingInv, AnswersType, TypeOK, Rings

(* Type correctness: also in the middle of a call the count of a ring stays  *)
(* within its size and its indices leave it by at most one.                  *)
THEOREM SectionsTypeCorrect == Spec => []TypeOK
<1>1. Init => AnswersType
  BY DEF Init, AnswersType
<1>2. AnswersType /\ [Next]_vars => AnswersType'
  BY AnswersStep
<1>3. LockInv /\ RingInv /\ AnswersType => TypeOK
  BY InvariantTypes
<1> QED BY <1>1, <1>2, <1>3, LockInvariant, RingInvariant, PTL DEF Spec
=============================================================================
