------------------------------- MODULE Relay -------------------------------
(* The protection loop of the overcurrent relay: CallBack::PIT of main.cpp,  *)
(* which the periodic interrupt runs once per millisecond, together with the *)
(* curve setting that the main loop rewrites in flash underneath it.         *)
(*                                                                           *)
(* The interrupt handler cannot be preempted (every interrupt has the same   *)
(* priority), so one run of it is one action.  Times are fixed point: ONE is *)
(* 1.0 (65536 in the code), MS the milliseconds in a second (1000), and      *)
(* unsigned words wrap at WORD = ONE * ONE (2^32).                           *)
EXTENDS Integers

CONSTANTS
  Currents,      \* values of the measured RMS current, unsigned 16Q11
  OVERLOAD,      \* the pick-up threshold (2109)
  BITS, ONE, MS, \* fraction bits, 2^BITS, and milliseconds per second
  Slopes,        \* curve settings the main loop may write
  Curve,         \* trip time of each curve at each current, in units of 1/ONE s
  NB_Sample,     \* samples in the RMS window
  PutResults,    \* what the converter driver may answer: BOOLEAN or {TRUE}
  None           \* no slope is being written

WORD == ONE * ONE
Byte == 0..255
ERASED == 255    \* a byte of erased flash
Curves == {"Inverse", "VeryInverse", "ExtremelyInverse"}

ASSUME ScaleAssumption ==
  /\ BITS \in Nat /\ ONE \in Nat \ {0} /\ MS \in Nat \ {0} /\ MS < ONE
  /\ ONE = 2^BITS
  /\ \A n \in 0..BITS : 2^n \in Nat
ASSUME CurrentAssumption ==
  /\ \A current \in Currents : current \in Nat /\ current < 65536
  /\ 0 \in Currents /\ OVERLOAD \in Nat
ASSUME CurveAssumption ==
  /\ Slopes \subseteq Byte
  /\ Curve \in [Curves -> [Currents -> 0..WORD-1]]
ASSUME DriverAssumption ==
  /\ NB_Sample \in Nat /\ PutResults \subseteq BOOLEAN /\ TRUE \in PutResults

VARIABLES
  Time,          \* trip time of the countdown in progress, 0 when none
  Counter,       \* milliseconds left of the countdown
  Current,       \* last measured current
  PrevCurrent,   \* high byte of the current the countdown was computed for
  success,       \* PrevCurrent has been initialised
  Flag_Trip,     \* the trip signal has been sent
  samples,       \* number of samples in inputSignal
  dac,           \* level of the timing (1) and trip (2) outputs, in volts
  setting,       \* the curve setting byte in flash
  pending        \* the slope the main loop is writing, or None

timing == <<Time, Counter, PrevCurrent, success, Flag_Trip>>
vars == <<Time, Counter, Current, PrevCurrent, success, Flag_Trip,
          samples, dac, setting, pending>>

Hi(current) == current \div 256
Overload(current) == current > OVERLOAD
Volts == {0, 5}

TypeOK ==
  /\ Time \in 0..WORD-1 /\ Counter \in 0..WORD-1
  /\ Current \in Currents /\ PrevCurrent \in Byte
  /\ success \in BOOLEAN /\ Flag_Trip \in BOOLEAN
  /\ samples \in 0..NB_Sample
  /\ dac \in [{1, 2} -> Volts]
  /\ setting \in Slopes \cup {ERASED}
  /\ pending \in Slopes \cup {None}

(* Statics start at zero, the converter's outputs at 0 V; flash holds        *)
(* whatever an earlier run left in it.                                       *)
Init ==
  /\ Time = 0 /\ Counter = 0 /\ Current = 0 /\ PrevCurrent = 0
  /\ success = FALSE /\ Flag_Trip = FALSE
  /\ samples = 0
  /\ dac = [channel \in {1, 2} |-> 0]
  /\ setting \in Slopes \cup {ERASED}
  /\ pending = None

-----------------------------------------------------------------------------
(* Arithmetic of the countdown, with the widths of the code.                 *)

(* IDMT_t::GetTripTime: an unknown setting selects the inverse curve.        *)
GetTripTime(current) ==
  LET curve == CASE setting = 1 -> "VeryInverse"
                 [] setting = 2 -> "ExtremelyInverse"
                 [] OTHER       -> "Inverse"
  IN  Curve[curve][current]

(* Time * 1000 / 65536 in 32-bit unsigned arithmetic.                        *)
InMs(time) == ((time * MS) % WORD) \div ONE

(* GetInverTime.  The shift binds the quotient 16 / Time, and that division  *)
(* by zero yields 0 on this processor; the product and its high half wrap.   *)
GetInverTime(counter, tripTime) ==
  LET TimeR   == ((counter * ONE) \div MS) % WORD
      shift   == IF Time = 0 THEN 0 ELSE BITS \div Time
      percent == (TimeR * 2^shift) % WORD
      newTime == ((percent * tripTime) % WORD) \div ONE
  IN  (newTime * MS) \div ONE

-----------------------------------------------------------------------------
(* The parts of one run of CallBack::PIT, in its order.                      *)

(* Mutant of Elapsed: a signed counter.                                      *)
ElapsedSigned == IF Time # 0 THEN Counter - 1 ELSE Counter

(* Counter after the decrement of a countdown in progress.                   *)
Elapsed == IF Time # 0 THEN (Counter - 1) % WORD ELSE Counter

(* Mutants of TripDue: the test for zero stands outside the test of Time, or *)
(* comes before the decrement.                                               *)
TripDueAnyTime == Elapsed = 0 /\ ~Flag_Trip
TripDueBeforeDecrement == Time # 0 /\ Counter = 0 /\ ~Flag_Trip

(* The countdown has just ended and its signal has not been sent.            *)
TripDue == Time # 0 /\ Elapsed = 0 /\ ~Flag_Trip

(* PutSample: a refused sample leaves the output as it was.                  *)
PutSample(outputs, value, channel, ok) ==
  IF ok THEN [outputs EXCEPT ![channel] = value] ELSE outputs

(* Outputs and Flag_Trip once the trip signal has been sent, if it is due.   *)
Tripped(ok) == IF TripDue THEN PutSample(dac, 5, 2, ok) ELSE dac
TripFlag(ok) == IF TripDue THEN ok ELSE Flag_Trip

(* GetSignal and GetCurrent: the converter has no sample, or the window      *)
(* grows, or it is full and a new RMS value is computed and the window       *)
(* emptied.                                                                  *)
Sample ==
  \/ UNCHANGED <<samples, Current>>
  \/ /\ samples < NB_Sample
     /\ samples' = samples + 1
     /\ UNCHANGED Current
  \/ /\ samples = NB_Sample
     /\ samples' = 0
     /\ Current' \in Currents

Previous == IF success THEN PrevCurrent ELSE Hi(Current')

(* Mutant of LevelChanged: the new level is not remembered.                  *)
LevelChangedForgets(tripOk, timingOk) ==
  /\ Overload(Current') /\ Hi(Current') # Previous
  /\ Counter' = IF Elapsed # 0
                  THEN GetInverTime(Elapsed, GetTripTime(Current'))
                  ELSE Elapsed
  /\ PrevCurrent' = Previous
  /\ Flag_Trip' = FALSE
  /\ dac' = PutSample(Tripped(tripOk), 5, 1, timingOk)
  /\ UNCHANGED Time

(* Overload at a level whose high byte changed: the rest of the countdown is *)
(* recomputed.                                                               *)
LevelChanged(tripOk, timingOk) ==
  /\ Overload(Current') /\ Hi(Current') # Previous
  /\ Counter' = IF Elapsed # 0
                  THEN GetInverTime(Elapsed, GetTripTime(Current'))
                  ELSE Elapsed
  /\ PrevCurrent' = Hi(Current')
  /\ Flag_Trip' = FALSE
  /\ dac' = PutSample(Tripped(tripOk), 5, 1, timingOk)
  /\ UNCHANGED Time

(* Mutant of LevelSteady: a new countdown does not reset the flag.           *)
LevelSteadyKeepsFlag(tripOk, timingOk) ==
  /\ Overload(Current') /\ Hi(Current') = Previous
  /\ IF Elapsed = 0
       THEN Time' = GetTripTime(Current') /\ Counter' = InMs(Time')
       ELSE Counter' = Elapsed /\ UNCHANGED Time
  /\ Flag_Trip' = TripFlag(tripOk)
  /\ PrevCurrent' = Previous
  /\ dac' = PutSample(Tripped(tripOk), 5, 1, timingOk)

(* Mutant of LevelSteady: the trip time of the last countdown is used again. *)
LevelSteadyReusesTime(tripOk, timingOk) ==
  /\ Overload(Current') /\ Hi(Current') = Previous
  /\ IF Elapsed = 0
       THEN /\ Time' = IF Time = 0 THEN GetTripTime(Current') ELSE Time
            /\ Counter' = InMs(Time')
            /\ Flag_Trip' = FALSE
       ELSE /\ Counter' = Elapsed
            /\ Flag_Trip' = TripFlag(tripOk)
            /\ UNCHANGED Time
  /\ PrevCurrent' = Previous
  /\ dac' = PutSample(Tripped(tripOk), 5, 1, timingOk)

(* Overload at the same level: a countdown starts when none is left.         *)
LevelSteady(tripOk, timingOk) ==
  /\ Overload(Current') /\ Hi(Current') = Previous
  /\ IF Elapsed = 0
       THEN /\ Time' = GetTripTime(Current')
            /\ Counter' = InMs(Time')
            /\ Flag_Trip' = FALSE
       ELSE /\ Counter' = Elapsed
            /\ Flag_Trip' = TripFlag(tripOk)
            /\ UNCHANGED Time
  /\ PrevCurrent' = Previous
  /\ dac' = PutSample(Tripped(tripOk), 5, 1, timingOk)

(* Mutants of NoOverload: the trip time is kept; the trip output is lowered  *)
(* on its own; the trip output is not lowered.                               *)
NoOverloadKeepsTime(tripOk, timingOk, clearOk) ==
  /\ ~Overload(Current')
  /\ Counter' = Elapsed /\ UNCHANGED Time
  /\ PrevCurrent' = Previous
  /\ Flag_Trip' = TripFlag(tripOk)
  /\ dac' = PutSample(PutSample(Tripped(tripOk), 0, 1, timingOk),
                      0, 2, timingOk /\ clearOk)
NoOverloadClearsAlone(tripOk, timingOk, clearOk) ==
  /\ ~Overload(Current')
  /\ Time' = 0 /\ Counter' = Elapsed
  /\ PrevCurrent' = Previous
  /\ Flag_Trip' = TripFlag(tripOk)
  /\ dac' = PutSample(PutSample(Tripped(tripOk), 0, 1, timingOk), 0, 2, clearOk)
NoOverloadKeepsTrip(tripOk, timingOk, clearOk) ==
  /\ ~Overload(Current')
  /\ Time' = 0 /\ Counter' = Elapsed
  /\ PrevCurrent' = Previous
  /\ Flag_Trip' = TripFlag(tripOk)
  /\ dac' = PutSample(Tripped(tripOk), 0, 1, timingOk)

(* No overload: the trip time is dropped (the counter is not), and the trip  *)
(* output is lowered only once the timing output has been.                   *)
NoOverload(tripOk, timingOk, clearOk) ==
  /\ ~Overload(Current')
  /\ Time' = 0 /\ Counter' = Elapsed
  /\ PrevCurrent' = Previous
  /\ Flag_Trip' = TripFlag(tripOk)
  /\ dac' = PutSample(PutSample(Tripped(tripOk), 0, 1, timingOk),
                      0, 2, timingOk /\ clearOk)

PITWith(tripOk, timingOk, clearOk) ==
  /\ Sample
  /\ success' = TRUE
  /\ \/ LevelChanged(tripOk, timingOk)
     \/ LevelSteady(tripOk, timingOk)
     \/ NoOverload(tripOk, timingOk, clearOk)
  /\ UNCHANGED <<setting, pending>>

PIT == \E tripOk, timingOk, clearOk \in PutResults :
         PITWith(tripOk, timingOk, clearOk)

-----------------------------------------------------------------------------
(* IDMT_t::Set from the main loop: Flash::WritePhrase erases the sector,     *)
(* then programs it, and the interrupt may run between the two.              *)

EraseSetting ==
  /\ pending = None
  /\ pending' \in Slopes
  /\ setting' = ERASED
  /\ UNCHANGED <<timing, Current, samples, dac>>

ProgramSetting ==
  /\ pending # None
  /\ setting' = pending
  /\ pending' = None
  /\ UNCHANGED <<timing, Current, samples, dac>>

Next == PIT \/ EraseSetting \/ ProgramSetting

Spec == Init /\ [][Next]_vars

(* The timer interrupt keeps coming, the converter driver keeps accepting     *)
(* samples, it does not refuse the trip signal for ever, and a flash command *)
(* ends.                                                                     *)
Accepted == PITWith(TRUE, TRUE, TRUE)
Fairness ==
  /\ WF_vars(Accepted)
  /\ SF_vars(TripDue /\ Accepted)
  /\ WF_vars(ProgramSetting)

FairSpec == Spec /\ Fairness

-----------------------------------------------------------------------------
(* Invariants.                                                               *)

(* A countdown runs only while the measured current is an overload: dropping *)
(* Time in the no-overload branch is enough to disarm the relay, although    *)
(* Counter is left alone there.                                              *)
CountdownOnlyInOverload == Time # 0 => Overload(Current)

(* While the current is an overload, PrevCurrent is the level it was         *)
(* compared with last: no change of level escapes the comparison, whatever   *)
(* happened before the overload.                                             *)
CountdownFollowsCurrent == Overload(Current) => PrevCurrent = Hi(Current)

(* Flag_Trip is still set after a run of the handler only when the overload  *)
(* went away at the very tick the signal was sent; then nothing is left of   *)
(* the countdown.                                                            *)
FlagOnlyAfterOverload ==
  Flag_Trip => Time = 0 /\ Counter = 0 /\ ~Overload(Current)

(* The test of Flag_Trip never keeps a trip signal that is due from being    *)
(* sent: a countdown that reaches zero always trips.                         *)
GuardNeverSuppresses == Time # 0 /\ Elapsed = 0 => TripDue

-----------------------------------------------------------------------------
(* Action properties.                                                        *)

(* The trip output rises only at the end of a countdown that was running for *)
(* an overload measured before this tick: no single sample window, change of *)
(* setting or leftover counter can raise it.                                 *)
TripNeedsCountdown ==
  [][dac[2] = 0 /\ dac'[2] = 5 => Time # 0 /\ Elapsed = 0 /\ Overload(Current)]_vars

(* The trip output falls only after the overload is gone, and the timing     *)
(* output has been lowered by then.                                          *)
TripHeldUntilClear ==
  [][dac[2] = 5 /\ dac'[2] = 0 => ~Overload(Current') /\ dac'[1] = 0]_vars

-----------------------------------------------------------------------------
(* Liveness.                                                                 *)

(* A countdown that runs while the current stays at one level raises the     *)
(* trip output, even when the driver refuses some of the requests.           *)
TimedOverloadTrips ==
  \A c \in Currents :
    <>[](Current = c /\ Time # 0) => <>[](dac[2] = 5)

(* Once the overload is gone for good, both outputs are lowered for good.    *)
ClearedOutputsFall ==
  <>[](~Overload(Current)) => <>[](dac = [channel \in {1, 2} |-> 0])

(* A trip time read while the setting is being rewritten, on a curve nobody  *)
(* selected, or for an earlier level, lasts for one countdown at most: once  *)
(* no write is in progress any more and the current stays, the trip time in  *)
(* force is for good that of the setting last chosen, at this current.       *)
SettingTakesEffect ==
  \A c \in Currents :
    <>[](pending = None /\ Current = c /\ Time # 0)
      => <>[](Time = GetTripTime(c))

-----------------------------------------------------------------------------
(* The relay implements the promise of ProtectionRelay: fault, arming and    *)
(* trip are read off the measured current, the trip time and the second      *)
(* converter channel.                                                        *)
Promise == INSTANCE ProtectionRelay WITH
  fault <- Overload(Current), armed <- Time # 0, tripped <- dac[2] = 5

(* Every run of the handler is a step the promise allows, whatever the       *)
(* current, the driver's answers and the curve in flash do.                  *)
PromiseKept == Promise!Spec

-----------------------------------------------------------------------------
(* What the README says, and the code does not do.                           *)

(* README.md:2, "initiates the tripping of a circuit breaker in the event of *)
(* a fault": an overload that stays at one level for ever trips in the end.  *)
SustainedOverloadTrips ==
  \A c \in Currents :
    <>[](Current = c /\ Overload(c)) => <>(dac[2] = 5)

=============================================================================
