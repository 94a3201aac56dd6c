-------------------------- MODULE ProtectionRelay --------------------------
(* What the overcurrent relay promises about its trip output, without times, *)
(* levels or counters: it is armed by a fault only, it trips only after      *)
(* having been armed while the fault was present, and it stays tripped until *)
(* the fault is gone.                                                        *)

VARIABLES
  fault,    \* the measured current is an overload
  armed,    \* a countdown to the trip is running
  tripped   \* the trip output is up

relay == <<fault, armed, tripped>>

Init == fault = FALSE /\ armed = FALSE /\ tripped = FALSE

(* The fault is present: the relay may arm or disarm; it may trip only if it *)
(* was armed, and does not fall back.                                        *)
Guard ==
  /\ fault' = TRUE
  /\ armed' \in BOOLEAN
  /\ tripped' \in {tripped, tripped \/ armed}

(* The fault is gone: the relay disarms, and may release the breaker at      *)
(* once, later, or never; a countdown that ends just now may still trip.     *)
Release ==
  /\ fault' = FALSE
  /\ armed' = FALSE
  /\ tripped' \in {FALSE, tripped, tripped \/ armed}

Next == Guard \/ Release

Spec == Init /\ [][Next]_relay

=============================================================================
