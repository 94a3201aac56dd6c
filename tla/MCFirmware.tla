----------------------------- MODULE MCFirmware -----------------------------
(* Conversations of up to four requests, which fit into RxFIFO, that set and *)
(* read the curve around the other requests.                                 *)
EXTENDS Firmware

SetTo(curve) == <<CMD_DOR, IDMT, N0, curve>>
Ask(code, p2) == <<CMD_DOR, code, p2, N0>>
MCScripts ==
  { <<SetTo(N2), Ask(IDMT, N1), Ask(CURRENT, N0)>>,
    <<SetTo(N1), Ask(IDMT, N1), SetTo(N2), Ask(IDMT, N1)>>,
    <<Ask(IDMT, N1), SetTo(N1), Ask(NB_TIME_TRIPPED, N0)>>,
    <<Ask({2}, N0), Ask(FREQUENCY, N0)>> }
MCHostStreams == {BytesOf(requests) : requests \in MCScripts}
MCSettings == {N1, N2}
MCReadings == {<<N1, N2>>, <<N3, N1>>}
=============================================================================
