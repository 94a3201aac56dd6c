------------------------------- MODULE Bytes -------------------------------
(* Eight-bit bytes as the sets of their one bits, which makes exclusive or   *)
(* the symmetric difference.                                                 *)
EXTENDS Naturals

Byte == SUBSET (0..7)
Zero == {}
Xor(x, y) == (x \ y) \cup (y \ x)

(* Packet_t::MakeChecksum over four bytes.                                   *)
MakeChecksum(b1, b2, b3, b4) == Xor(Xor(Xor(b1, b2), b3), b4)
=============================================================================
