--------------------------- MODULE MCFlashStore ---------------------------
(* Three curves, and a sector that is blank or has been written before.      *)
EXTENDS FlashStore

MCSlopes == {{}, {0}, {1}}
Used == [Blank EXCEPT ![1] = {0}, ![3] = {0, 1}, ![4] = {}]
MCSectors == {Blank, Used}
=============================================================================
