---------------------------- MODULE PacketStream ----------------------------
(* What the packet decoder promises about the bytes it is given: it looks at *)
(* them through a window of five; a window whose bytes cancel out is handed  *)
(* over as a request and the window restarts empty, any other full window    *)
(* slides by one byte.                                                       *)
EXTENDS Sequences, Bytes

VARIABLES window,   \* the bytes waiting for a fifth, at most four
          request   \* the last request handed over

stream == <<window, request>>

Init == window = <<>> /\ request = <<>>

Fill(b) ==
  /\ Len(window) < 4
  /\ window' = Append(window, b)
  /\ UNCHANGED request

Valid(b) == MakeChecksum(window[1], window[2], window[3], window[4]) = b

HandOver(b) ==
  /\ Len(window) = 4 /\ Valid(b)
  /\ request' = window
  /\ window' = <<>>

Slide(b) ==
  /\ Len(window) = 4 /\ ~Valid(b)
  /\ window' = Append(Tail(window), b)
  /\ UNCHANGED request

Next == \E b \in Byte : Fill(b) \/ HandOver(b) \/ Slide(b)
Spec == Init /\ [][Next]_stream
=============================================================================
