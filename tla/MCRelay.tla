------------------------------ MODULE MCRelay ------------------------------
(* A scaled instance of Relay for TLC.  One second is 16 units and four      *)
(* ticks, a word is 8 bits: every product of the code's arithmetic still     *)
(* wraps where the real one does, at a trip time above a quarter of the word *)
(* range.  The currents keep their real values around the real threshold.    *)
EXTENDS Relay

MCCurrents == {0, 2100, 2200, 2400}

(* Trip times fall with the current and grow towards the threshold, where    *)
(* the conversion to milliseconds wraps (72 * 4 > 255).                      *)
MCCurve ==
  [curve \in Curves |-> [current \in MCCurrents |->
    CASE ~Overload(current) -> 0
      [] curve = "Inverse"     /\ current = 2200 -> 24
      [] curve = "Inverse"     /\ current = 2400 -> 12
      [] curve = "VeryInverse" /\ current = 2200 -> 72
      [] curve = "VeryInverse" /\ current = 2400 -> 16
      [] current = 2200 -> 44
      [] OTHER          -> 8 ]]

(* From power-on, an overload that comes once and stays at its level trips   *)
(* the breaker, whichever of the three curves is set, even when the curve is *)
(* rewritten under the running relay.                                        *)
SteadyOverloadTrips ==
  \A c \in Currents :
    /\ Overload(c)
    /\ [](Current = 0 \/ [](Current = c))
    => [](Current = c => <>(dac[2] = 5))

=============================================================================
