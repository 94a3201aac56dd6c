---------------------------- MODULE Measurement ----------------------------
(* The measurement of current and frequency: Analog_t::GetSignal with the    *)
(* zero crossing detector and the period counter of Analog.cpp, and the      *)
(* current that CallBack::PIT computes from each full window of samples.     *)
(* The converter and the alternating signal it samples are the environment.  *)
EXTENDS FixPoint

CONSTANTS
  Levels,        \* amplitudes of the signal, in steps of the converter
  Waveform,      \* one period of the signal of amplitude PEAK
  PERIOD_WORD,   \* the period counter wraps here (65536)
  OVERLOAD       \* the pick-up threshold (2109)

(* The range of the converter, and the amplitude Waveform is drawn with.      *)
LOWEST == -32768
HIGHEST == 32767
PEAK == 1000

Phase == 1..Len(Waveform)
TwoPeriods == 2 * Len(Waveform)

ASSUME SignalAssumption ==
  /\ Levels \subseteq 0..HIGHEST /\ 0 \in Levels
  /\ Waveform \in Seq(-PEAK..PEAK) /\ Len(Waveform) > 0
  /\ PERIOD_WORD \in Nat \ {0}
  /\ OVERLOAD \in Nat

VARIABLES
  level, phase,  \* the signal: its amplitude, and where the next sample falls
  inputSignal,   \* the window of samples, 32Q16 volts
  prevSample,    \* the sample the detector compares with
  zeroPoint, period,
  frequency,     \* what the frequency request answers
  Current,       \* the measured current, 16Q11
  steady         \* history: samples since the signal came up, to two periods

signal == <<level, phase, steady>>
detector == <<prevSample, zeroPoint, period, frequency>>
vars == <<signal, detector, inputSignal, Current>>

TypeOK ==
  /\ level \in Levels /\ phase \in Phase /\ steady \in 0..TwoPeriods
  /\ inputSignal \in Seq(Int) /\ Len(inputSignal) <= NB_Sample
  /\ prevSample \in LOWEST..HIGHEST
  /\ zeroPoint \in 0..1 /\ period \in 0..PERIOD_WORD-1
  /\ frequency \in 0..ONE-1
  /\ Current \in 0..ONE-1

Init ==
  /\ level = 0 /\ phase = 1 /\ steady = 0
  /\ inputSignal = <<>>
  /\ prevSample = 0 /\ zeroPoint = 0 /\ period = 0 /\ frequency = 0
  /\ Current = 0

-----------------------------------------------------------------------------
(* What the converter reads now.                                             *)
adcReading == (level * Waveform[phase]) \div PEAK

(* Time goes on; the signal may change between two windows.  Silence has no  *)
(* phase.                                                                    *)
NextPhase ==
  /\ phase' = IF level = 0 THEN 1 ELSE (phase % Len(Waveform)) + 1
  /\ level' \in IF inputSignal' = <<>> THEN Levels ELSE {level}
  /\ steady' = IF level = 0 THEN 0
               ELSE IF steady < TwoPeriods THEN steady + 1 ELSE steady

(* ZeroCrossDetector: a product of opposite signs is a crossing, and leaves  *)
(* the sample it was compared with in place.                                 *)
Crossing == prevSample * adcReading < 0

(* GetFrequency: the period times sixteen wraps, and a division by zero      *)
(* yields zero on this processor.  16000 over that product is 1000 over the  *)
(* period, hertz already; the code shifts it by four bits once more.         *)
GetFrequency(samples) ==
  LET sixteenths == (samples * 16) % PERIOD_WORD
  IN  IF sixteenths = 0 THEN 0 ELSE (16000 \div sixteenths) \div 16

(* The frequency half of GetSignal: the period is counted up to the second   *)
(* crossing.                                                                 *)
Detect ==
  LET crossings == zeroPoint + IF Crossing THEN 1 ELSE 0
  IN  /\ prevSample' = IF Crossing THEN prevSample ELSE adcReading
      /\ \/ /\ crossings < 2
            /\ zeroPoint' = crossings
            /\ period' = (period + 1) % PERIOD_WORD
            /\ UNCHANGED frequency
         \/ /\ crossings = 2
            /\ zeroPoint' = 0 /\ period' = 0
            /\ frequency' = GetFrequency(period)

(* Mutant of Measure: the test for a full window is off by one.              *)
MeasureOneMore ==
  \/ /\ Len(inputSignal) <= NB_Sample
     /\ inputSignal' = Append(inputSignal, adcReading * 20)
     /\ UNCHANGED Current
  \/ /\ Len(inputSignal) > NB_Sample
     /\ Current' = GetCurrent(inputSignal)
     /\ inputSignal' = <<>>

(* The window half, and its use in CallBack::PIT: a sample that finds the    *)
(* window full is dropped, the current is computed and the window emptied.   *)
Measure ==
  \/ /\ Len(inputSignal) < NB_Sample
     /\ inputSignal' = Append(inputSignal, adcReading * 20)
     /\ UNCHANGED Current
  \/ /\ Len(inputSignal) = NB_Sample
     /\ Current' = GetCurrent(inputSignal)
     /\ inputSignal' = <<>>

(* GetSignal.  When the converter has no sample, nothing changes.            *)
GetSignal ==
  /\ Measure
  /\ Detect
  /\ NextPhase

Spec == Init /\ [][GetSignal]_vars

-----------------------------------------------------------------------------
(* Properties.                                                               *)

Abs(n) == IF n < 0 THEN -n ELSE n

(* Mean squares compared within five percent, which is 2.5 percent of the    *)
(* current: a window in units of 16 converter steps, against a 16Q11 current *)
(* (25/14 of the converter steps).                                           *)
MeanSquares == FoldLeft(LAMBDA sum, s : sum + (s \div 320) * (s \div 320), 0, inputSignal)
ReadsTrue(current) ==
  LET seen == (((current \div 4) * (current \div 4)) \div 1000) * 392
  IN  20 * Abs(seen - MeanSquares) <= MeanSquares

(* The weakest signal the accuracy is claimed for is 10 percent below the    *)
(* pick-up.                                                                  *)
Relevant == MeanSquares >= 70000

(* The sum of the squares, were it wide enough, is below the limit of the    *)
(* 16-bit one: 25.6 square volts on average, a current of 14.4.              *)
Fits == FoldLeft(LAMBDA sum, s : sum + Square(s), 0, inputSignal) < ONE

(* Whatever part of a period a window starts at, the current computed from   *)
(* it is the root mean square of its samples: the quantisation of the        *)
(* squares, the six Newton steps from a guess of half the base and the       *)
(* division by the ratio stay within 2.5 percent.                            *)
TrueRmsInRange ==
  [][Current' # Current /\ Relevant /\ Fits => ReadsTrue(Current')]_vars

(* The trip times above the pick-up, up to the strongest current that fits;  *)
(* zero stands for none, when the divisor of the curve is not positive.      *)
StrongestCurrent == 29700
TripTimes ==
  [curve \in Curves |->
     [current \in OVERLOAD+1..StrongestCurrent |->
        IF Divisor(curve, current) > 0 THEN TripTime(curve, current) ELSE 0]]

(* Where a stronger current would wait longer, or no trip time is left.      *)
Anomalies ==
  {current \in OVERLOAD+1..StrongestCurrent-1 :
     \E curve \in Curves :
       ~ /\ 0 < TripTimes[curve][current + 1]
         /\ TripTimes[curve][current + 1] <= TripTimes[curve][current]}

(* When an overload rises, the trip time falls on every curve at each        *)
(* current passed over: six rounded square roots neither reach one near the  *)
(* pick-up nor turn the curve around.                                        *)
TripTimeFalls ==
  [][OVERLOAD < Current /\ Current < Current' /\ Current' <= StrongestCurrent =>
       \A current \in Anomalies : current \notin Current..Current'-1]_vars

(* FixPoint32.h:28, "To calculate true rms of input signal": also when the   *)
(* signal is strong.                                                         *)
TrueRms == [][Current' # Current /\ Relevant => ReadsTrue(Current')]_vars

(* Analog.cpp:106, "in Hz": every frequency reported of an alternating       *)
(* signal that has been there for two periods is its frequency, within a     *)
(* fifth.  Neither the period that is counted nor its conversion is right.   *)
FrequencyInHz ==
  [][frequency' # frequency /\ steady = TwoPeriods =>
       frequency' * Len(Waveform) \in 800..1200]_vars
=============================================================================
