---------------------------- MODULE RelayProofs ----------------------------
(* Proofs about Relay for every set of currents, every threshold, every      *)
(* family of curves and every scale of the arithmetic.                       *)
EXTENDS Relay, TLAPS

-----------------------------------------------------------------------------
(* Arithmetic.                                                               *)

(* The quotient of a natural number below d * m is below m.                  *)
LEMMA DivBelow ==
  ASSUME NEW x \in Nat, NEW d \in Nat \ {0}, NEW m \in Nat, x < d * m
  PROVE  x \div d \in 0..m-1
<1>1. x \div d \in Nat /\ d * (x \div d) <= x
  OBVIOUS
<1>2. x \div d < m
  <2>1. SUFFICES ASSUME x \div d >= m PROVE FALSE
    BY <1>1
  <2>2. d * (x \div d) >= d * m
    BY <1>1, <2>1
  <2> QED BY <1>1, <2>2
<1> QED BY <1>1, <1>2

(* A remainder lies below a positive modulus.                                *)
LEMMA ModBelow ==
  ASSUME NEW x \in Int, NEW m \in Nat \ {0}
  PROVE  x % m \in 0..m-1
OBVIOUS

LEMMA ScaleTypes ==
  /\ ONE \in Nat \ {0} /\ MS \in Nat \ {0} /\ MS < ONE
  /\ WORD \in Nat \ {0}
BY ScaleAssumption DEF WORD

(* InMs yields a count that a word holds.                                    *)
LEMMA InMsType ==
  ASSUME NEW time \in Nat
  PROVE  InMs(time) \in 0..WORD-1
<1>1. (time * MS) % WORD \in 0..WORD-1
  BY ScaleTypes, ModBelow
<1>2. WORD <= ONE * WORD
  BY ScaleTypes
<1> QED BY <1>1, <1>2, ScaleTypes, DivBelow DEF InMs

(* The recomputed countdown fits a word: the code cuts its time in seconds   *)
(* to the fraction bits, so that less than a second is left of it.           *)
LEMMA InverTimeType ==
  ASSUME Time \in Nat, NEW counter \in Nat, NEW tripTime \in Nat
  PROVE  GetInverTime(counter, tripTime) \in 0..MS-1
<1> DEFINE TimeR   == ((counter * ONE) \div MS) % WORD
           shift   == IF Time = 0 THEN 0 ELSE BITS \div Time
           percent == (TimeR * 2^shift) % WORD
           newTime == ((percent * tripTime) % WORD) \div ONE
<1>1. TimeR \in Nat
  <2>1. (counter * ONE) \div MS \in Nat
    BY ScaleTypes
  <2> QED BY <2>1, ScaleTypes, ModBelow
<1>2. shift \in 0..BITS
  <2>1. CASE Time = 0
    BY <2>1, ScaleAssumption
  <2>2. CASE Time # 0
    <3>1. BITS \in Nat /\ Time \in Nat \ {0}
      BY <2>2, ScaleAssumption
    <3>2. BITS \div Time \in Nat /\ Time * (BITS \div Time) <= BITS
      BY <3>1
    <3>3. BITS \div Time <= Time * (BITS \div Time)
      BY <3>1, <3>2
    <3> QED BY <2>2, <3>1, <3>2, <3>3
  <2> QED BY <2>1, <2>2
<1>3. 2^shift \in Nat
  BY <1>2, ScaleAssumption
<1>4. percent \in Nat
  <2> HIDE DEF TimeR, shift
  <2>1. TimeR * 2^shift \in Nat
    BY <1>1, <1>3
  <2> QED BY <2>1, ScaleTypes, ModBelow
<1>5. newTime \in 0..ONE-1
  <2> HIDE DEF percent
  <2>1. percent * tripTime \in Nat
    BY <1>4
  <2>2. (percent * tripTime) % WORD \in 0..WORD-1
    BY <2>1, ScaleTypes, ModBelow
  <2> QED BY <2>2, ScaleTypes, DivBelow DEF WORD
<1>6. (newTime * MS) \div ONE \in 0..MS-1
  <2> HIDE DEF newTime
  <2>1. newTime * MS \in Nat /\ newTime * MS < ONE * MS
    BY <1>5, ScaleTypes
  <2> QED BY <2>1, ScaleTypes, DivBelow
<1> QED BY <1>6 DEF GetInverTime

(* The decremented counter still fits a word; it is unsigned and wraps.      *)
LEMMA ElapsedType ==
  ASSUME TypeOK
  PROVE  Elapsed \in 0..WORD-1
BY ScaleTypes, ModBelow DEF Elapsed, TypeOK

LEMMA TripTimeType ==
  ASSUME NEW current \in Currents
  PROVE  GetTripTime(current) \in 0..WORD-1
<1>1. Curve \in [Curves -> [Currents -> 0..WORD-1]]
  BY CurveAssumption
<1>2. \A curve \in Curves : Curve[curve][current] \in 0..WORD-1
  BY <1>1
<1> QED BY <1>2 DEF GetTripTime, Curves

(* An output that is put keeps the two outputs at one of the two levels.     *)
LEMMA PutType ==
  ASSUME NEW outputs \in [{1, 2} -> Volts], NEW value \in Volts,
         NEW channel \in {1, 2}, NEW ok
  PROVE  PutSample(outputs, value, channel, ok) \in [{1, 2} -> Volts]
BY DEF PutSample

LEMMA TrippedType ==
  ASSUME TypeOK, NEW ok \in BOOLEAN
  PROVE  Tripped(ok) \in [{1, 2} -> Volts]
BY PutType DEF Tripped, TypeOK, Volts

LEMMA HiType ==
  ASSUME NEW current \in Currents
  PROVE  Hi(current) \in Byte
<1>1. current \in Nat /\ current < 256 * 256
  BY CurrentAssumption
<1> QED BY <1>1, DivBelow DEF Hi, Byte

-----------------------------------------------------------------------------
(* Type correctness.                                                         *)

LEMMA InitTypeOK ==
  ASSUME Init
  PROVE  TypeOK
<1>1. 0 \in 0..WORD-1 /\ 0 \in 0..NB_Sample /\ 0 \in Currents /\ 0 \in Byte
  BY ScaleTypes, CurrentAssumption, DriverAssumption DEF Byte
<1>2. dac \in [{1, 2} -> Volts]
  BY DEF Init, Volts
<1> QED BY <1>1, <1>2 DEF Init, TypeOK

LEMMA SampleType ==
  ASSUME TypeOK, Sample
  PROVE  samples' \in 0..NB_Sample /\ Current' \in Currents
BY DriverAssumption DEF TypeOK, Sample

LEMMA PreviousType ==
  ASSUME TypeOK, Current' \in Currents
  PROVE  Previous \in Byte
BY HiType DEF Previous, TypeOK

LEMMA PITTypeOK ==
  ASSUME TypeOK, PIT
  PROVE  TypeOK'
<1>1. PICK tripOk \in BOOLEAN, timingOk \in BOOLEAN, clearOk \in BOOLEAN :
        PITWith(tripOk, timingOk, clearOk)
  BY DriverAssumption DEF PIT
<1>2. samples' \in 0..NB_Sample /\ Current' \in Currents
  BY <1>1, SampleType DEF PITWith
<1>3. setting' \in Slopes \cup {ERASED} /\ pending' \in Slopes \cup {None}
      /\ success' \in BOOLEAN
  BY <1>1 DEF PITWith, TypeOK
<1>4. Previous \in Byte /\ Hi(Current') \in Byte
  BY <1>2, PreviousType, HiType
<1>5. Tripped(tripOk) \in [{1, 2} -> Volts] /\ TripFlag(tripOk) \in BOOLEAN
  BY TrippedType DEF TripFlag, TypeOK
<1>6. /\ Elapsed \in 0..WORD-1 /\ Elapsed \in Nat
      /\ Time \in 0..WORD-1 /\ Time \in Nat
  BY ElapsedType DEF TypeOK
<1>7. GetTripTime(Current') \in 0..WORD-1 /\ GetTripTime(Current') \in Nat
  BY <1>2, TripTimeType
<1>8. CASE LevelChanged(tripOk, timingOk)
  <2>1. Counter' \in 0..WORD-1
    <3>1. GetInverTime(Elapsed, GetTripTime(Current')) \in 0..MS-1
      BY <1>6, <1>7, InverTimeType
    <3>2. MS <= WORD
      BY ScaleTypes DEF WORD
    <3> QED BY <1>6, <1>8, <3>1, <3>2, ScaleTypes DEF LevelChanged
  <2>2. dac' \in [{1, 2} -> Volts]
    BY <1>5, <1>8, PutType DEF LevelChanged, Volts
  <2> QED BY <1>2, <1>3, <1>4, <1>6, <1>8, <2>1, <2>2 DEF LevelChanged, TypeOK
<1>9. CASE LevelSteady(tripOk, timingOk)
  <2>1. Time' \in 0..WORD-1 /\ Counter' \in 0..WORD-1 /\ Flag_Trip' \in BOOLEAN
    <3>1. InMs(GetTripTime(Current')) \in 0..WORD-1
      BY <1>7, InMsType
    <3>2. CASE Elapsed = 0
      BY <1>7, <1>9, <3>1, <3>2 DEF LevelSteady
    <3>3. CASE Elapsed # 0
      BY <1>5, <1>6, <1>9, <3>3 DEF LevelSteady
    <3> QED BY <3>2, <3>3
  <2>2. dac' \in [{1, 2} -> Volts]
    BY <1>5, <1>9, PutType DEF LevelSteady, Volts
  <2> QED BY <1>2, <1>3, <1>4, <1>9, <2>1, <2>2 DEF LevelSteady, TypeOK
<1>10. CASE NoOverload(tripOk, timingOk, clearOk)
  <2>1. dac' \in [{1, 2} -> Volts]
    <3>1. PutSample(Tripped(tripOk), 0, 1, timingOk) \in [{1, 2} -> Volts]
      BY <1>5, PutType DEF Volts
    <3> QED BY <1>10, <3>1, PutType DEF NoOverload, Volts
  <2>2. Time' \in 0..WORD-1
    BY <1>10, ScaleTypes DEF NoOverload
  <2> QED BY <1>2, <1>3, <1>4, <1>5, <1>6, <1>10, <2>1, <2>2 DEF NoOverload, TypeOK
<1> QED BY <1>1, <1>8, <1>9, <1>10 DEF PITWith

LEMMA SettingTypeOK ==
  ASSUME TypeOK, EraseSetting \/ ProgramSetting
  PROVE  TypeOK'
<1>1. CASE EraseSetting
  BY <1>1 DEF EraseSetting, TypeOK, timing
<1>2. CASE ProgramSetting
  BY <1>2 DEF ProgramSetting, TypeOK, timing
<1> QED BY <1>1, <1>2

(* The state of the relay stays within the widths the code declares: the     *)
(* countdown never leaves a word, the level never leaves a byte and the      *)
(* sample window never overflows.                                            *)
THEOREM TypeCorrect == Spec => []TypeOK
<1>1. TypeOK /\ UNCHANGED vars => TypeOK'
  BY DEF TypeOK, vars
<1>2. TypeOK /\ [Next]_vars => TypeOK'
  BY <1>1, PITTypeOK, SettingTypeOK DEF Next
<1>3. Init => TypeOK
  BY InitTypeOK
<1> QED BY <1>2, <1>3, PTL DEF Spec

-----------------------------------------------------------------------------
(* The inductive invariant.  Its three parts after typing are inductive      *)
(* together: the fate of Flag_Trip hangs on a countdown being disarmed.      *)

RelayInv ==
  /\ TypeOK
  /\ CountdownOnlyInOverload
  /\ CountdownFollowsCurrent
  /\ FlagOnlyAfterOverload

(* At power-on nothing is measured, so nothing is an overload.               *)
LEMMA InitRelayInv ==
  ASSUME Init
  PROVE  RelayInv
<1>1. TypeOK
  BY InitTypeOK
<1>2. ~Overload(Current)
  BY CurrentAssumption DEF Init, Overload
<1> QED BY <1>1, <1>2 DEF Init, RelayInv, CountdownOnlyInOverload,
          CountdownFollowsCurrent, FlagOnlyAfterOverload

(* Once the countdown is over a set flag has nothing left to hide: with the  *)
(* invariant, a due trip signal is always sent.                              *)
LEMMA DueIsSent ==
  ASSUME FlagOnlyAfterOverload
  PROVE  GuardNeverSuppresses
BY DEF FlagOnlyAfterOverload, GuardNeverSuppresses, TripDue

LEMMA PITRelayInv ==
  ASSUME RelayInv, PIT
  PROVE  RelayInv'
<1>1. PICK tripOk \in BOOLEAN, timingOk \in BOOLEAN, clearOk \in BOOLEAN :
        PITWith(tripOk, timingOk, clearOk)
  BY DriverAssumption DEF PIT
<1>2. TypeOK'
  BY PITTypeOK DEF RelayInv
<1>3. CASE LevelChanged(tripOk, timingOk)
  <2>1. Overload(Current') /\ PrevCurrent' = Hi(Current') /\ Flag_Trip' = FALSE
    BY <1>3 DEF LevelChanged
  <2> QED BY <1>2, <2>1 DEF RelayInv, CountdownOnlyInOverload,
            CountdownFollowsCurrent, FlagOnlyAfterOverload, Overload, Hi
<1>4. CASE LevelSteady(tripOk, timingOk)
  <2>1. Overload(Current') /\ PrevCurrent' = Hi(Current')
    BY <1>4 DEF LevelSteady
  <2>2. Flag_Trip' = FALSE
    <3>1. CASE Elapsed = 0
      BY <1>4, <3>1 DEF LevelSteady
    <3>2. CASE Elapsed # 0
      <4>1. ~Flag_Trip
        BY <3>2 DEF RelayInv, FlagOnlyAfterOverload, Elapsed
      <4>2. Flag_Trip' = Flag_Trip
        BY <1>4, <3>2 DEF LevelSteady, TripFlag, TripDue
      <4> QED BY <4>1, <4>2 DEF RelayInv, TypeOK
    <3> QED BY <3>1, <3>2
  <2> QED BY <1>2, <2>1, <2>2 DEF RelayInv, CountdownOnlyInOverload,
            CountdownFollowsCurrent, FlagOnlyAfterOverload, Overload, Hi
<1>5. CASE NoOverload(tripOk, timingOk, clearOk)
  <2>1. ~Overload(Current') /\ Time' = 0 /\ Counter' = Elapsed
    BY <1>5 DEF NoOverload
  <2>2. Flag_Trip' => Counter' = 0
    <3>1. CASE TripDue
      BY <2>1, <3>1 DEF TripDue
    <3>2. CASE ~TripDue
      <4>1. Flag_Trip' = Flag_Trip
        BY <1>5, <3>2 DEF NoOverload, TripFlag
      <4>2. Flag_Trip => Elapsed = 0
        BY DEF RelayInv, FlagOnlyAfterOverload, Elapsed
      <4> QED BY <2>1, <4>1, <4>2
    <3> QED BY <3>1, <3>2
  <2> QED BY <1>2, <2>1, <2>2 DEF RelayInv, CountdownOnlyInOverload,
            CountdownFollowsCurrent, FlagOnlyAfterOverload, Overload
<1> QED BY <1>1, <1>3, <1>4, <1>5 DEF PITWith

LEMMA SettingRelayInv ==
  ASSUME RelayInv, EraseSetting \/ ProgramSetting
  PROVE  RelayInv'
<1>1. TypeOK'
  BY SettingTypeOK DEF RelayInv
<1>2. UNCHANGED <<Time, Counter, PrevCurrent, Flag_Trip, Current>>
  BY DEF EraseSetting, ProgramSetting, timing
<1> QED BY <1>1, <1>2 DEF RelayInv, CountdownOnlyInOverload,
          CountdownFollowsCurrent, FlagOnlyAfterOverload, Overload, Hi

LEMMA StutterRelayInv ==
  ASSUME RelayInv, UNCHANGED vars
  PROVE  RelayInv'
BY DEF RelayInv, TypeOK, CountdownOnlyInOverload, CountdownFollowsCurrent,
       FlagOnlyAfterOverload, Overload, Hi, vars

THEOREM RelayInvariant == Spec => []RelayInv
<1>1. Init => RelayInv
  BY InitRelayInv
<1>2. RelayInv /\ [Next]_vars => RelayInv'
  BY PITRelayInv, SettingRelayInv, StutterRelayInv DEF Next
<1> QED BY <1>1, <1>2, PTL DEF Spec

(* Leaving Counter alone when the overload goes away is safe: no countdown   *)
(* runs outside an overload.                                                 *)
THEOREM CountdownSafe == Spec => []CountdownOnlyInOverload
<1>1. RelayInv => CountdownOnlyInOverload
  BY DEF RelayInv
<1> QED BY <1>1, RelayInvariant, PTL

(* No change of level escapes the handler's comparison.                      *)
THEOREM LevelTracked == Spec => []CountdownFollowsCurrent
<1>1. RelayInv => CountdownFollowsCurrent
  BY DEF RelayInv
<1> QED BY <1>1, RelayInvariant, PTL

(* Flag_Trip survives a tick only when nothing is left to count.             *)
THEOREM FlagHarmless == Spec => []FlagOnlyAfterOverload
<1>1. RelayInv => FlagOnlyAfterOverload
  BY DEF RelayInv
<1> QED BY <1>1, RelayInvariant, PTL

(* The guard on Flag_Trip never suppresses a trip that is due.               *)
THEOREM TripNeverSuppressed == Spec => []GuardNeverSuppresses
<1>1. RelayInv => GuardNeverSuppresses
  BY DueIsSent DEF RelayInv
<1> QED BY <1>1, RelayInvariant, PTL

-----------------------------------------------------------------------------
(* What a run of the handler does to the outputs.                            *)

(* The trip output after a run: raised by a due trip signal, lowered only    *)
(* together with the timing output and without an overload.                  *)
LEMMA TripOutput ==
  ASSUME RelayInv, PIT
  PROVE  /\ dac[2] = 0 /\ dac'[2] = 5 => TripDue
         /\ dac[2] = 5 /\ dac'[2] = 0 => ~Overload(Current') /\ dac'[1] = 0
         /\ dac'[2] \in {dac[2], 0, 5}
<1>1. PICK tripOk \in BOOLEAN, timingOk \in BOOLEAN, clearOk \in BOOLEAN :
        PITWith(tripOk, timingOk, clearOk)
  BY DriverAssumption DEF PIT
<1> DEFINE sent == Tripped(tripOk)
<1>2. sent \in [{1, 2} -> Volts]
  BY TrippedType DEF RelayInv
<1>3. sent[2] = dac[2] \/ (TripDue /\ sent[2] = 5)
  BY DEF Tripped, PutSample, RelayInv, TypeOK
<1>4. sent[2] = 5 \/ sent[2] = dac[2]
  BY <1>3
<1>5. CASE LevelChanged(tripOk, timingOk) \/ LevelSteady(tripOk, timingOk)
  <2>1. dac' = PutSample(sent, 5, 1, timingOk)
    BY <1>5 DEF LevelChanged, LevelSteady
  <2> HIDE DEF sent
  <2>2. dac'[2] = sent[2]
    BY <1>2, <2>1 DEF PutSample
  <2> QED BY <1>3, <2>2
<1>6. CASE NoOverload(tripOk, timingOk, clearOk)
  <2>1. /\ ~Overload(Current')
        /\ dac' = PutSample(PutSample(sent, 0, 1, timingOk), 0, 2, timingOk /\ clearOk)
    BY <1>6 DEF NoOverload
  <2> HIDE DEF sent
  <2>2. CASE timingOk /\ clearOk
    BY <1>2, <2>1, <2>2 DEF PutSample
  <2>3. CASE ~(timingOk /\ clearOk)
    <3>1. dac'[2] = sent[2]
      BY <1>2, <2>1, <2>3 DEF PutSample
    <3> QED BY <1>3, <3>1
  <2> QED BY <2>2, <2>3
<1> QED BY <1>1, <1>5, <1>6 DEF PITWith

(* The main loop's rewriting of the curve touches neither outputs nor        *)
(* countdown.                                                                *)
LEMMA SettingLeavesRelay ==
  ASSUME EraseSetting \/ ProgramSetting \/ UNCHANGED vars
  PROVE  UNCHANGED <<Time, Counter, PrevCurrent, Current, dac>>
BY DEF EraseSetting, ProgramSetting, timing, vars

(* The trip output rises only at the end of a countdown that ran for an      *)
(* overload.                                                                 *)
THEOREM NoSpuriousTrip == Spec => TripNeedsCountdown
<1>1. RelayInv /\ [Next]_vars =>
        [dac[2] = 0 /\ dac'[2] = 5
           => Time # 0 /\ Elapsed = 0 /\ Overload(Current)]_vars
  <2>1. SUFFICES ASSUME RelayInv, Next, dac[2] = 0, dac'[2] = 5
                 PROVE  Time # 0 /\ Elapsed = 0 /\ Overload(Current)
    BY DEF vars
  <2>2. PIT
    BY <2>1, SettingLeavesRelay DEF Next
  <2> QED BY <2>1, <2>2, TripOutput DEF TripDue, RelayInv, CountdownOnlyInOverload
<1> QED BY <1>1, RelayInvariant, PTL DEF Spec, TripNeedsCountdown

(* The trip output is never taken back while the overload lasts, nor before  *)
(* the timing output.                                                        *)
THEOREM TripHeld == Spec => TripHeldUntilClear
<1>1. RelayInv /\ [Next]_vars =>
        [dac[2] = 5 /\ dac'[2] = 0 => ~Overload(Current') /\ dac'[1] = 0]_vars
  <2>1. SUFFICES ASSUME RelayInv, Next, dac[2] = 5, dac'[2] = 0
                 PROVE  ~Overload(Current') /\ dac'[1] = 0
    BY DEF vars
  <2>2. PIT
    BY <2>1, SettingLeavesRelay DEF Next
  <2> QED BY <2>1, <2>2, TripOutput
<1> QED BY <1>1, RelayInvariant, PTL DEF Spec, TripHeldUntilClear

-----------------------------------------------------------------------------
(* Refinement of the promise.                                                *)

(* The initial state has no fault, is not armed and has not tripped.         *)
LEMMA InitPromise ==
  ASSUME Init
  PROVE  Promise!Init
BY InitRelayInv, CurrentAssumption DEF Init, Promise!Init, Overload

(* A run of the handler guards or releases; everything else stutters.        *)
LEMMA PITPromise ==
  ASSUME RelayInv, PIT
  PROVE  Promise!Next
<1>1. RelayInv'
  BY PITRelayInv
<1>2. /\ dac[2] \in {0, 5} /\ dac'[2] \in {0, 5}
      /\ (dac'[2] = 5 => dac[2] = 5 \/ Time # 0)
      /\ (Overload(Current') => dac[2] # 5 \/ dac'[2] = 5)
  <2>1. dac[2] \in {0, 5} /\ dac'[2] \in {0, 5}
    BY <1>1 DEF RelayInv, TypeOK, Volts
  <2> QED BY <2>1, TripOutput DEF TripDue
<1>3. CASE Overload(Current')
  <2>1. (dac'[2] = 5) \in {dac[2] = 5, (dac[2] = 5) \/ Time # 0}
    BY <1>2, <1>3
  <2>2. Overload(Current') = TRUE /\ (Time' # 0) \in BOOLEAN
    BY <1>3 DEF Overload
  <2> QED BY <2>1, <2>2, Zenon DEF Promise!Next, Promise!Guard, Overload
<1>4. CASE ~Overload(Current')
  <2>1. Time' = 0
    BY <1>1, <1>4 DEF RelayInv, CountdownOnlyInOverload
  <2>2. (dac'[2] = 5) \in {FALSE, dac[2] = 5, (dac[2] = 5) \/ Time # 0}
    BY <1>2
  <2>3. Overload(Current') = FALSE /\ (Time' # 0) = FALSE
    BY <1>4, <2>1 DEF Overload
  <2> QED BY <2>2, <2>3, Zenon DEF Promise!Next, Promise!Release, Overload
<1> QED BY <1>3, <1>4

(* The relay implements its promise, for all constants.                      *)
THEOREM Refinement == Spec => PromiseKept
<1>1. Init => Promise!Init
  BY InitPromise
<1>2. RelayInv /\ [Next]_vars => [Promise!Next]_(Promise!relay)
  <2>1. CASE PIT
    BY <2>1, PITPromise
  <2>2. CASE EraseSetting \/ ProgramSetting \/ UNCHANGED vars
    BY <2>2, SettingLeavesRelay DEF Promise!relay, Overload
  <2> QED BY <2>1, <2>2 DEF Next
<1> QED BY <1>1, <1>2, RelayInvariant, PTL DEF Spec, PromiseKept, Promise!Spec

=============================================================================
