--------------------------- MODULE StoredSetting ---------------------------
(* What a byte kept in flash promises to the one who writes it: it holds its *)
(* old value until the write erases it, then the new one, and the write      *)
(* returns only when the new one is there.  A power loss ends the write at   *)
(* any of these points.  All this is promised unless the flash controller    *)
(* has refused a command.                                                    *)

CONSTANTS Data, ERASED, None

VARIABLES
  value,   \* the byte
  asked,   \* the value being written, or None
  sound    \* no refused command stands in the way of this write

cell == <<value, asked, sound>>

Init == value \in Data /\ asked = None /\ sound = TRUE

Ask ==
  /\ asked = None
  /\ \E new \in Data : asked' = new
  /\ sound' \in {TRUE, sound}
  /\ UNCHANGED value

Erase == asked # None /\ value' = ERASED /\ UNCHANGED <<asked, sound>>
Store == asked # None /\ value' = asked /\ UNCHANGED <<asked, sound>>
Refuse == asked # None /\ sound' = FALSE /\ UNCHANGED <<value, asked>>
Stray == asked # None /\ ~sound /\ value' \in Data /\ UNCHANGED <<asked, sound>>

Return ==
  /\ asked # None /\ (sound => value = asked)
  /\ asked' = None
  /\ UNCHANGED <<value, sound>>

PowerLoss ==
  /\ asked' = None
  /\ sound' = TRUE
  /\ value' \in {value} \cup IF asked = None THEN {}
                             ELSE IF sound THEN {ERASED, asked}
                             ELSE Data

Next == Ask \/ Erase \/ Store \/ Refuse \/ Stray \/ Return \/ PowerLoss
Spec == Init /\ [][Next]_cell
=============================================================================
