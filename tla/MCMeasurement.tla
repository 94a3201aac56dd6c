--------------------------- MODULE MCMeasurement ---------------------------
(* A 50 Hz sine wave sampled each millisecond, from silence over a current   *)
(* just above the pick-up (amplitude 1692) to the full converter range;      *)
(* the squares stop fitting between 23400 and 23500.                         *)
EXTENDS Measurement

HalfWave == <<156, 454, 707, 891, 988, 988, 891, 707, 454, 156>>
Sine == HalfWave \o [i \in 1..10 |-> -HalfWave[i]]
MCLevels == {0, 1692, 9000, 23400, 32767}
=============================================================================
