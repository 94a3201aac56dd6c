----------------------------- MODULE MCRelayMs -----------------------------
(* The relay of MCRelay beside the countdown that the comments of main.cpp   *)
(* describe: the trip time in milliseconds and, when the level changes, the  *)
(* same percentage of the new trip time.  The two variables added here are   *)
(* history: they follow the relay and influence nothing in it.               *)
EXTENDS MCRelay

VARIABLES
  whole,         \* trip time at the present level in ms, 0 without a countdown
  due            \* milliseconds of it left before the trip is due

msVars == <<vars, whole, due>>

(* Two levels close above the threshold, where the trip time of each curve   *)
(* is above a quarter of the word range, as all the real ones are there: its *)
(* product with MS wraps.                                                    *)
MsCurrents == {0, 2200, 2320}
MsCurve ==
  [curve \in Curves |-> [current \in MsCurrents |->
    CASE ~Overload(current) -> 0
      [] curve = "Inverse"     -> IF current = 2200 THEN 188 ELSE 125
      [] curve = "VeryInverse" -> IF current = 2200 THEN 190 ELSE 126
      [] OTHER                 -> IF current = 2200 THEN 252 ELSE 189 ]]

(* A trip time in milliseconds, in numbers without a width.                  *)
FullMs(time) == (time * MS) \div ONE

(* A tick takes a millisecond off a countdown in progress.                   *)
Left == IF due = 0 THEN 0 ELSE due - 1

(* main.cpp:268: a new countdown is due after its trip time in ms.           *)
FollowsStart ==
  /\ Overload(Current') /\ Hi(Current') = Previous /\ Elapsed = 0
  /\ whole' = FullMs(Time')
  /\ due' = whole'

(* main.cpp:197-202 and 256: the percentage that is left of the trip time at *)
(* the old level is left of the one at the new level.                        *)
FollowsLevel ==
  /\ Time # 0 /\ Overload(Current') /\ Hi(Current') # Previous
  /\ whole' = FullMs(GetTripTime(Current'))
  /\ due' = (Left * whole') \div whole

FollowsSteady ==
  /\ Time # 0 /\ Overload(Current') /\ Hi(Current') = Previous /\ Elapsed # 0
  /\ due' = Left
  /\ UNCHANGED whole

FollowsNone ==
  /\ Time' = 0
  /\ whole' = 0 /\ due' = 0

MsInit == Init /\ whole = 0 /\ due = 0

MsNext ==
  \/ PIT /\ (FollowsStart \/ FollowsLevel \/ FollowsSteady \/ FollowsNone)
  \/ (EraseSetting \/ ProgramSetting) /\ UNCHANGED <<whole, due>>

MsSpec == MsInit /\ [][MsNext]_msVars

(* main.cpp:268, "triptime in ms", and main.cpp:256, "Calculate new trip     *)
(* time based on new current", in ms by main.cpp:189: the relay does not     *)
(* trip before the trip time is over that its comments say it counts.        *)
TripsWhenDue == [][dac[2] = 0 /\ dac'[2] = 5 => due <= 1]_msVars
=============================================================================
