---------------------------- MODULE MCSerialLink ----------------------------
(* Instances of SerialLink for TLC: what the PC sends, and the values the    *)
(* handlers read.                                                            *)
EXTENDS SerialLink

(* Requests with their checksum byte, and one with a damaged parameter.      *)
Request(p1, p2, p3) ==
  <<CMD_DOR, p1, p2, p3, MakeChecksum(CMD_DOR, p1, p2, p3)>>
GetCurrent   == Request(CURRENT, N0, N0)
GetFrequency == Request(FREQUENCY, N0, N0)
GetCount     == Request(NB_TIME_TRIPPED, N0, N0)
GetSetting   == Request(IDMT, N1, N0)
SetSetting   == Request(IDMT, N0, N2)
GetFault     == Request({2}, N0, N0)
Damaged      == [GetCurrent EXCEPT ![3] = N1]

(* Back-to-back requests, a damaged one, line noise in front of one, and     *)
(* one that has no answer.                                                   *)
Conversations ==
  { GetCurrent \o SetSetting, Damaged \o GetFrequency,
    <<N1, N0>> \o GetSetting, GetFault \o GetCount }

(* Every stream of seven bytes over two bytes that form packets.             *)
Noise == [1..7 -> {N0, CMD_DOR}]
MCHostStreams == Conversations \cup Noise

MCSettings == {N1}
MCReadings == {<<N1, N2>>}
=============================================================================
