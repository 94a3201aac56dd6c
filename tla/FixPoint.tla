------------------------------ MODULE FixPoint ------------------------------
(* The fixed-point arithmetic of FixPoint32.cpp and of the curves of         *)
(* IDMT.cpp, with the widths of the code.  A 32Q16 number counts units of    *)
(* 1/ONE.  All operands are far enough below 2^31 that only the 16-bit sum   *)
(* of squares wraps, given an overload; the shifts of 64-bit intermediate    *)
(* products are cut into steps that stay within 32 bits.                     *)
EXTENDS Integers, SequencesExt

ONE == 65536
NB_ITERATIONS == 6
ratio == 22938        \* 0.35 V of signal for a current of one
NB_Sample == 20

(* (a << 16) / b, four bits of the quotient after the other.                *)
Quotient(a, b) ==
  LET step[n \in 0..4] ==
        IF n = 0 THEN [q |-> a \div b, r |-> a % b]
        ELSE LET s == step[n - 1]
             IN  [q |-> 16 * s.q + (16 * s.r) \div b, r |-> (16 * s.r) % b]
  IN  step[4].q

(* (a * b) >> 16, one byte of b after the other.                             *)
Product(a, b) ==
  LET low    == (a * (b % 256)) \div 256
      middle == (a * ((b \div 256) % 256) + low) \div 256
  IN  a * (b \div ONE) + middle

(* FixPoint::SquareRoot: a fixed number of Newton steps from half the base.  *)
(* Only a base of zero (an empty signal) makes a guess zero.                 *)
SquareRoot(base) ==
  LET result[i \in 0..NB_ITERATIONS] ==
        IF i = 0 THEN base \div 2
        ELSE LET guess == result[i - 1]
             IN  IF guess = 0 THEN 0 ELSE (Quotient(base, guess) + guess) \div 2
  IN  result[NB_ITERATIONS]

(* FixPoint::Exp: as many square roots as exp can be halved before it is     *)
(* zero.                                                                     *)
Exp(base, exp) ==
  LET temp[e \in 0..exp] == IF e = 0 THEN base ELSE SquareRoot(temp[e \div 2])
  IN  temp[exp]

(* A sample squared, 16Q7.                                                   *)
Square(sample) == ((sample \div 512) * (sample \div 512)) \div 128

(* Mutant of SumOfSquares: the high bits of the sample are lost before it is *)
(* squared, as in a narrower variable.                                       *)
SumOfSquaresNarrow(signal) ==
  LET sum[n \in 0..Len(signal)] ==
        IF n = 0 THEN 0 ELSE (sum[n - 1] + Square(signal[n] % 524288)) % ONE
  IN  sum[Len(signal)]

(* The sum of the squares is a 16-bit variable.                              *)
SumOfSquares(signal) ==
  LET sum[n \in 0..Len(signal)] ==
        IF n = 0 THEN 0 ELSE (sum[n - 1] + Square(signal[n])) % ONE
  IN  sum[Len(signal)]

(* FixPoint::GetVoltageRMS, without the clearing of the window.              *)
GetVoltageRMS(signal) ==
  SquareRoot((SumOfSquares(signal) * 512) \div Len(signal))

(* FixPoint::GetCurrentRMS, and its truncation to 16Q11 in IDMT_t::GetCurrent *)
GetCurrent(signal) ==
  (Quotient(GetVoltageRMS(signal), ratio) \div 32) % ONE

-----------------------------------------------------------------------------
(* The curves of IDMT_t.  The measured current, 16Q11, becomes 32Q16.        *)

Curves == {"Inverse", "VeryInverse", "ExtremelyInverse"}
RMS(current) == current * 32

(* K / (Power - 1) is the trip time: 0.14, 13.5 and 80 as 32Q16.             *)
K(curve) ==
  CASE curve = "Inverse"          -> 9175
    [] curve = "VeryInverse"      -> 884736
    [] curve = "ExtremelyInverse" -> 5242880

(* Mutant of Power: the square is taken in 32 bits.                          *)
PowerNarrow(curve, current) ==
  CASE curve = "Inverse"          -> Exp(RMS(current), 50)
    [] curve = "VeryInverse"      -> RMS(current)
    [] curve = "ExtremelyInverse" -> Product(RMS(current), RMS(current)) % ONE

Power(curve, current) ==
  CASE curve = "Inverse"          -> Exp(RMS(current), 50)
    [] curve = "VeryInverse"      -> RMS(current)
    [] curve = "ExtremelyInverse" -> Product(RMS(current), RMS(current))

(* The divisor must be positive: it is an unsigned difference.               *)
Divisor(curve, current) == Power(curve, current) - ONE
TripTime(curve, current) == Quotient(K(curve), Divisor(curve, current))
=============================================================================
