---------------------------- MODULE PacketProofs ----------------------------
(* Proofs about the packets of SerialLink: the decoder misses no request and *)
(* is a sliding window over what it takes from RxFIFO, and an answer whose   *)
(* bytes were all accepted is contiguous on the line.  They hold for every   *)
(* ring size, everything the PC may send and all values the handlers read.   *)
EXTENDS SerialLinkProofs

-----------------------------------------------------------------------------
(* What a step does to the decoder's fields: only PacketGet touches them.    *)
LEMMA DecoderSteps ==
  ASSUME [Next]_vars
  PROVE  \/ UNCHANGED <<packet, history>>
         \/ PacketGet /\ FirstFour(Oldest(rx))
         \/ PacketGet /\ GoodChecksum(Oldest(rx))
         \/ PacketGet /\ BadChecksum(Oldest(rx))
<1>1. CASE PacketGet
  BY <1>1 DEF PacketGet
<1>2. CASE HostByte \/ ByteSent \/ UART_ISR \/ Handler \/ OutChar \/ GiveUp
           \/ ArmOutput \/ UNCHANGED vars
  BY <1>2 DEF HostByte, ByteSent, UART_ISR, OutChar, GiveUp, ArmOutput, vars,
              Handler, HandleIDMTCharacteristic, HandleFrequency, HandleCurrent,
              HandleNbTimeTripped, NoHandler, Answer
<1> QED BY <1>1, <1>2 DEF Next, Main, PacketGetEmpty

-----------------------------------------------------------------------------
(* No request is missed.                                                     *)

(* The packet fields are the last bytes heard: as many of them as the switch *)
(* over nbBytesPacket has filled, which is all of them unless the decoder    *)
(* still waits for its fifth byte for the first time.                        *)
FieldsAreLast ==
  LET n == Len(heard)
      k == nbBytesPacket - 1
  IN  /\ IF nbBytesPacket < PACKET_NB_BYTES THEN n = k ELSE n >= k
      /\ k >= 1 => heard[n - k + 1] = command
      /\ k >= 2 => heard[n - k + 2] = parameter1
      /\ k >= 3 => heard[n - k + 3] = parameter2
      /\ k >= 4 => heard[n - k + 4] = parameter3

DecoderInv == FieldsAreLast /\ NoMissedPacket

LEMMA HeardAppend ==
  ASSUME heard \in Seq(Byte), NEW data \in Byte, heard' = Append(heard, data)
  PROVE  /\ Len(heard) \in Nat /\ Len(heard') = Len(heard) + 1
         /\ \A i \in 1..Len(heard) : heard'[i] = heard[i]
         /\ heard'[Len(heard) + 1] = data
BY AppendProperties, LenProperties

LEMMA FirstFourHears ==
  ASSUME LinkInv, DecoderInv, NEW data \in Byte, FirstFour(data)
  PROVE  DecoderInv'
<1> DEFINE n == Len(heard)
<1>1. /\ nbBytesPacket \in 1..4 /\ nbBytesPacket' = nbBytesPacket + 1
      /\ command'    = IF nbBytesPacket = 1 THEN data ELSE command
      /\ parameter1' = IF nbBytesPacket = 2 THEN data ELSE parameter1
      /\ parameter2' = IF nbBytesPacket = 3 THEN data ELSE parameter2
      /\ parameter3' = IF nbBytesPacket = 4 THEN data ELSE parameter3
  BY DEF FirstFour, LinkInv, TypeOK, PACKET_NB_BYTES
<1>2. /\ n \in Nat /\ Len(heard') = n + 1
      /\ \A i \in 1..n : heard'[i] = heard[i]
      /\ heard'[n + 1] = data
  BY HeardAppend DEF FirstFour, LinkInv, TypeOK
<1>3. /\ n = nbBytesPacket - 1
      /\ nbBytesPacket >= 2 => heard[1] = command
      /\ nbBytesPacket >= 3 => heard[2] = parameter1
      /\ nbBytesPacket >= 4 => heard[3] = parameter2
  BY <1>1, <1>2 DEF DecoderInv, FieldsAreLast, PACKET_NB_BYTES
<1> HIDE DEF n
<1>4. FieldsAreLast'
  <2>1. CASE nbBytesPacket = 1
    BY <1>1, <1>2, <1>3, <2>1 DEF FieldsAreLast, PACKET_NB_BYTES
  <2>2. CASE nbBytesPacket = 2
    BY <1>1, <1>2, <1>3, <2>2 DEF FieldsAreLast, PACKET_NB_BYTES
  <2>3. CASE nbBytesPacket = 3
    BY <1>1, <1>2, <1>3, <2>3 DEF FieldsAreLast, PACKET_NB_BYTES
  <2>4. CASE nbBytesPacket = 4
    BY <1>1, <1>2, <1>3, <2>4 DEF FieldsAreLast, PACKET_NB_BYTES
  <2> QED BY <1>1, <2>1, <2>2, <2>3, <2>4
<1>5. NoMissedPacket'
  BY <1>1, <1>2, <1>3 DEF NoMissedPacket
<1> QED BY <1>4, <1>5 DEF DecoderInv

LEMMA GoodChecksumHears ==
  ASSUME NEW data \in Byte, GoodChecksum(data)
  PROVE  DecoderInv'
<1>1. nbBytesPacket' = 1 /\ heard' = <<>> /\ Len(heard') = 0
  BY EmptySeq DEF GoodChecksum
<1> QED BY <1>1 DEF DecoderInv, FieldsAreLast, NoMissedPacket, PACKET_NB_BYTES

(* SwitchPacket drops the oldest byte of the window only: the next five      *)
(* bytes that could cancel out are still all there.                          *)
LEMMA BadChecksumHears ==
  ASSUME LinkInv, DecoderInv, NEW data \in Byte, BadChecksum(data)
  PROVE  DecoderInv'
<1> DEFINE n == Len(heard)
<1>1. /\ nbBytesPacket = 5 /\ nbBytesPacket' = 5
      /\ data # MakeChecksum(command, parameter1, parameter2, parameter3)
      /\ command' = parameter1 /\ parameter1' = parameter2
      /\ parameter2' = parameter3 /\ parameter3' = data
  BY DEF BadChecksum, ChecksumOK, PACKET_NB_BYTES
<1>2. /\ n \in Nat /\ Len(heard') = n + 1
      /\ \A i \in 1..n : heard'[i] = heard[i]
      /\ heard'[n + 1] = data
  BY HeardAppend DEF BadChecksum, LinkInv, TypeOK
<1>3. /\ n >= 4
      /\ heard[n-3] = command /\ heard[n-2] = parameter1
      /\ heard[n-1] = parameter2 /\ heard[n] = parameter3
  <2>1. n - 4 + 1 = n - 3 /\ n - 4 + 2 = n - 2 /\ n - 4 + 3 = n - 1 /\ n - 4 + 4 = n
    BY <1>2
  <2> QED BY <1>1, <1>2, <2>1 DEF DecoderInv, FieldsAreLast, PACKET_NB_BYTES
<1>4. \A i \in 1..n-4 : ~ValidAt(heard, i)
  BY DEF DecoderInv, NoMissedPacket
<1> HIDE DEF n
<1>5. FieldsAreLast'
  <2>1. /\ (n + 1) - 4 + 1 = n - 2 /\ (n + 1) - 4 + 2 = n - 1
        /\ (n + 1) - 4 + 3 = n /\ (n + 1) - 4 + 4 = n + 1
        /\ n - 2 \in 1..n /\ n - 1 \in 1..n /\ n \in 1..n
    BY <1>2, <1>3
  <2>2. /\ heard'[n-2] = command' /\ heard'[n-1] = parameter1'
        /\ heard'[n] = parameter2' /\ heard'[n+1] = parameter3'
    BY <1>1, <1>2, <1>3, <2>1
  <2>3. nbBytesPacket' - 1 = 4 /\ n + 1 >= 4
    BY <1>1, <1>2, <1>3
  <2> QED BY <1>1, <1>2, <2>1, <2>2, <2>3 DEF FieldsAreLast, PACKET_NB_BYTES
<1>6. \A i \in 1..n-3 : ~ValidAt(heard', i)
  <2>1. SUFFICES ASSUME NEW i \in 1..n-3
                 PROVE  ~ValidAt(heard', i)
    OBVIOUS
  <2>2. CASE i = n - 3
    <3>1. i \in 1..n /\ i+1 = n-2 /\ i+2 = n-1 /\ i+3 = n /\ i+4 = n+1
      BY <1>2, <1>3, <2>2
    <3>2. i+1 \in 1..n /\ i+2 \in 1..n /\ i+3 \in 1..n
      BY <1>2, <1>3, <2>2
    <3>3. /\ heard'[i] = command /\ heard'[i+1] = parameter1
          /\ heard'[i+2] = parameter2 /\ heard'[i+3] = parameter3
          /\ heard'[i+4] = data
      BY <1>2, <1>3, <2>2, <3>1, <3>2
    <3> QED BY <1>1, <3>3 DEF ValidAt
  <2>3. CASE i # n - 3
    <3>1. /\ i \in 1..n-4 /\ i \in 1..n /\ i+1 \in 1..n /\ i+2 \in 1..n
          /\ i+3 \in 1..n /\ i+4 \in 1..n
      BY <1>2, <1>3, <2>1, <2>3
    <3>2. /\ heard'[i] = heard[i] /\ heard'[i+1] = heard[i+1]
          /\ heard'[i+2] = heard[i+2] /\ heard'[i+3] = heard[i+3]
          /\ heard'[i+4] = heard[i+4]
      BY <1>2, <3>1
    <3>3. ~ValidAt(heard, i)
      BY <1>4, <3>1
    <3> QED BY <3>2, <3>3 DEF ValidAt
  <2> QED BY <2>2, <2>3
<1>7. NoMissedPacket'
  <2>1. Len(heard') - 4 = n - 3
    BY <1>2
  <2>2. NoMissedPacket' <=> \A i \in 1..Len(heard')-4 : ~ValidAt(heard', i)
    BY DEF NoMissedPacket, ValidAt
  <2> QED BY <1>6, <2>1, <2>2
<1> QED BY <1>5, <1>7 DEF DecoderInv

THEOREM DecoderInvariant == Spec => []DecoderInv
<1>1. Init => DecoderInv
  BY EmptySeq DEF Init, DecoderInv, FieldsAreLast, NoMissedPacket, PACKET_NB_BYTES
<1>2. LinkInv /\ DecoderInv /\ [Next]_vars => DecoderInv'
  <2>1. SUFFICES ASSUME LinkInv, DecoderInv, [Next]_vars
                 PROVE  DecoderInv'
    OBVIOUS
  <2>2. Oldest(rx) \in Byte
    BY <2>1, OldestType DEF LinkInv, FifosOK
  <2>3. CASE UNCHANGED <<packet, history>>
    BY <2>1, <2>3 DEF DecoderInv, FieldsAreLast, NoMissedPacket, ValidAt,
                      packet, history
  <2> QED BY <2>1, <2>2, <2>3, DecoderSteps, FirstFourHears, GoodChecksumHears,
             BadChecksumHears
<1> QED BY <1>1, <1>2, LinkInvariant, PTL DEF Spec

(* Whatever stream the PC sends, no five consecutive bytes that cancel out   *)
(* go by without being handed to the handlers.                               *)
THEOREM NoneMissed == Spec => []NoMissedPacket
<1>1. DecoderInv => NoMissedPacket
  BY DEF DecoderInv
<1> QED BY <1>1, DecoderInvariant, PTL

-----------------------------------------------------------------------------
(* The decoder is a window.                                                  *)

(* The abstract decoder reads bytes and checksums as the program does.       *)
LEMMA StreamBytes ==
  /\ Decoder!Byte = Byte
  /\ \A a, b, c, d : Decoder!MakeChecksum(a, b, c, d) = MakeChecksum(a, b, c, d)
BY DEF Decoder!Byte, Byte, Decoder!MakeChecksum, MakeChecksum, Decoder!Xor, Xor

(* The window holds the fields that are filled.                              *)
LEMMA WindowFields ==
  ASSUME NEW n \in 1..5,
         NEW c \in Byte, NEW p1 \in Byte, NEW p2 \in Byte, NEW p3 \in Byte
  PROVE  /\ SubSeq(<<c, p1, p2, p3>>, 1, n - 1) \in Seq(Byte)
         /\ Len(SubSeq(<<c, p1, p2, p3>>, 1, n - 1)) = n - 1
         /\ \A i \in 1..n-1 :
              SubSeq(<<c, p1, p2, p3>>, 1, n - 1)[i] = <<c, p1, p2, p3>>[i]
<1> DEFINE fields == <<c, p1, p2, p3>>
<1>1. \A i \in 1 .. n-1 : fields[i] \in Byte
  <2>1. \A i \in 1..4 : fields[i] \in Byte
    OBVIOUS
  <2> QED BY <2>1
<1> HIDE DEF fields
<1>2. /\ SubSeq(fields, 1, n - 1) \in Seq(Byte)
      /\ Len(SubSeq(fields, 1, n - 1)) = IF 1 <= n - 1 THEN (n - 1) - 1 + 1 ELSE 0
      /\ \A i \in 1 .. (n - 1) - 1 + 1 :
           SubSeq(fields, 1, n - 1)[i] = fields[1 + i - 1]
  BY <1>1, SubSeqProperties
<1>3. /\ (n - 1) - 1 + 1 = n - 1
      /\ Len(SubSeq(fields, 1, n - 1)) = n - 1
      /\ \A i \in 1 .. n - 1 : 1 + i - 1 = i
  BY <1>2
<1> QED BY <1>2, <1>3 DEF fields

(* The window after a step, from the fields after it.                        *)
LEMMA WindowNow ==
  ASSUME LinkInv
  PROVE  /\ Window \in Seq(Byte) /\ Len(Window) = nbBytesPacket - 1
         /\ nbBytesPacket >= 2 => Window[1] = command
         /\ nbBytesPacket >= 3 => Window[2] = parameter1
         /\ nbBytesPacket >= 4 => Window[3] = parameter2
         /\ nbBytesPacket >= 5 => Window[4] = parameter3
<1>1. /\ nbBytesPacket \in 1..5
      /\ command \in Byte /\ parameter1 \in Byte
      /\ parameter2 \in Byte /\ parameter3 \in Byte
  BY DEF LinkInv, TypeOK, PACKET_NB_BYTES
<1>2. /\ Window \in Seq(Byte) /\ Len(Window) = nbBytesPacket - 1
      /\ \A i \in 1..nbBytesPacket - 1 :
           Window[i] = <<command, parameter1, parameter2, parameter3>>[i]
  BY <1>1, WindowFields DEF Window
<1> QED BY <1>1, <1>2

LEMMA WindowNext ==
  ASSUME LinkInv'
  PROVE  /\ Window' \in Seq(Byte) /\ Len(Window') = nbBytesPacket' - 1
         /\ nbBytesPacket' >= 2 => Window'[1] = command'
         /\ nbBytesPacket' >= 3 => Window'[2] = parameter1'
         /\ nbBytesPacket' >= 4 => Window'[3] = parameter2'
         /\ nbBytesPacket' >= 5 => Window'[4] = parameter3'
<1>1. /\ nbBytesPacket' \in 1..5
      /\ command' \in Byte /\ parameter1' \in Byte
      /\ parameter2' \in Byte /\ parameter3' \in Byte
  BY DEF LinkInv, TypeOK, PACKET_NB_BYTES
<1> DEFINE n == nbBytesPacket'
           c == command'
           p1 == parameter1'
           p2 == parameter2'
           p3 == parameter3'
           t == Window'
<1>2. t = SubSeq(<<c, p1, p2, p3>>, 1, n - 1)
  BY DEF Window
<1>3. n \in 1..5 /\ c \in Byte /\ p1 \in Byte /\ p2 \in Byte /\ p3 \in Byte
  BY <1>1
<1> HIDE DEF n, c, p1, p2, p3, t
<1>4. /\ t \in Seq(Byte) /\ Len(t) = n - 1
      /\ \A i \in 1..n-1 : t[i] = <<c, p1, p2, p3>>[i]
  BY <1>2, <1>3, WindowFields
<1>5. /\ n >= 2 => t[1] = c
      /\ n >= 3 => t[2] = p1
      /\ n >= 4 => t[3] = p2
      /\ n >= 5 => t[4] = p3
  BY <1>3, <1>4
<1> QED BY <1>4, <1>5 DEF n, c, p1, p2, p3, t

(* A sequence one longer than another, that agrees with it and ends in b.    *)
LEMMA IsAppend ==
  ASSUME NEW s \in Seq(Byte), NEW t \in Seq(Byte), NEW b \in Byte,
         Len(t) = Len(s) + 1, \A i \in 1..Len(s) : t[i] = s[i],
         t[Len(s) + 1] = b
  PROVE  t = Append(s, b)
<1>1. /\ Append(s, b) \in Seq(Byte) /\ Len(Append(s, b)) = Len(s) + 1
      /\ \A i \in 1..Len(s) : Append(s, b)[i] = s[i]
      /\ Append(s, b)[Len(s) + 1] = b
  BY AppendProperties
<1>2. Len(s) \in Nat
  BY LenProperties
<1>3. \A i \in 1..Len(t) : t[i] = Append(s, b)[i]
  BY <1>1, <1>2
<1> QED BY <1>1, <1>3, SeqEqual

(* A window of four after the oldest byte made room for b.                   *)
LEMMA IsShift ==
  ASSUME NEW s \in Seq(Byte), NEW t \in Seq(Byte), NEW b \in Byte,
         Len(s) = 4, Len(t) = 4,
         t[1] = s[2], t[2] = s[3], t[3] = s[4], t[4] = b
  PROVE  t = Append(Tail(s), b)
<1>1. s # <<>>
  BY EmptySeq
<1>2. /\ Tail(s) \in Seq(Byte) /\ Len(Tail(s)) = Len(s) - 1
      /\ \A i \in 1..Len(Tail(s)) : Tail(s)[i] = s[i+1]
  BY <1>1, HeadTailProperties
<1>3. Len(Tail(s)) = 3 /\ \A i \in 1..3 : Tail(s)[i] = s[i+1]
  BY <1>2
<1> DEFINE u == Tail(s)
<1>4. u \in Seq(Byte) /\ Len(u) = 3 /\ u[1] = s[2] /\ u[2] = s[3] /\ u[3] = s[4]
  BY <1>2, <1>3
<1> HIDE DEF u
<1>5. \A i \in 1..3 : t[i] = u[i]
  BY <1>4
<1>6. /\ Len(t) = Len(u) + 1 /\ t[Len(u) + 1] = b
      /\ \A i \in 1..Len(u) : t[i] = u[i]
  <2>1. Len(u) + 1 = 4
    BY <1>4
  <2> QED BY <1>4, <1>5, <2>1
<1>7. t = Append(u, b)
  BY <1>4, <1>6, IsAppend
<1> QED BY <1>7 DEF u

LEMMA FirstFourFills ==
  ASSUME LinkInv, LinkInv', NEW data \in Byte, FirstFour(data)
  PROVE  Decoder!Fill(data)
<1>1. /\ nbBytesPacket \in 1..4 /\ nbBytesPacket' = nbBytesPacket + 1
      /\ command'    = IF nbBytesPacket = 1 THEN data ELSE command
      /\ parameter1' = IF nbBytesPacket = 2 THEN data ELSE parameter1
      /\ parameter2' = IF nbBytesPacket = 3 THEN data ELSE parameter2
      /\ parameter3' = IF nbBytesPacket = 4 THEN data ELSE parameter3
      /\ request' = request
  BY DEF FirstFour, LinkInv, TypeOK, PACKET_NB_BYTES
<1> DEFINE s == Window
           t == Window'
<1>2. /\ s \in Seq(Byte) /\ Len(s) = nbBytesPacket - 1
      /\ nbBytesPacket >= 2 => s[1] = command
      /\ nbBytesPacket >= 3 => s[2] = parameter1
      /\ nbBytesPacket >= 4 => s[3] = parameter2
  BY WindowNow
<1>3. /\ t \in Seq(Byte) /\ Len(t) = nbBytesPacket' - 1
      /\ nbBytesPacket' >= 2 => t[1] = command'
      /\ nbBytesPacket' >= 3 => t[2] = parameter1'
      /\ nbBytesPacket' >= 4 => t[3] = parameter2'
      /\ nbBytesPacket' >= 5 => t[4] = parameter3'
  BY WindowNext
<1> HIDE DEF s, t
<1>4. Len(t) = Len(s) + 1
  BY <1>1, <1>2, <1>3
<1>5. \A i \in 1..Len(s) : t[i] = s[i]
  <2>1. SUFFICES ASSUME NEW i \in 1..Len(s)
                 PROVE  t[i] = s[i]
    OBVIOUS
  <2>2. CASE i = 1
    BY <1>1, <1>2, <1>3, <2>1, <2>2
  <2>3. CASE i = 2
    BY <1>1, <1>2, <1>3, <2>1, <2>3
  <2>4. CASE i = 3
    BY <1>1, <1>2, <1>3, <2>1, <2>4
  <2> QED BY <1>1, <1>2, <2>1, <2>2, <2>3, <2>4
<1>6. t[Len(s) + 1] = data
  <2>1. CASE nbBytesPacket = 1
    BY <1>1, <1>2, <1>3, <2>1
  <2>2. CASE nbBytesPacket = 2
    BY <1>1, <1>2, <1>3, <2>2
  <2>3. CASE nbBytesPacket = 3
    BY <1>1, <1>2, <1>3, <2>3
  <2>4. CASE nbBytesPacket = 4
    BY <1>1, <1>2, <1>3, <2>4
  <2> QED BY <1>1, <2>1, <2>2, <2>3, <2>4
<1>7. t = Append(s, data)
  BY <1>2, <1>3, <1>4, <1>5, <1>6, IsAppend
<1>8. Len(s) < 4
  BY <1>1, <1>2
<1> QED BY <1>1, <1>7, <1>8 DEF s, t, Decoder!Fill

LEMMA GoodChecksumHandsOver ==
  ASSUME LinkInv, LinkInv', NEW data \in Byte, GoodChecksum(data)
  PROVE  Decoder!HandOver(data)
<1>1. /\ nbBytesPacket = 5 /\ nbBytesPacket' = 1
      /\ data = MakeChecksum(command, parameter1, parameter2, parameter3)
      /\ request' = <<command, parameter1, parameter2, parameter3>>
  BY DEF GoodChecksum, ChecksumOK, PACKET_NB_BYTES
<1> DEFINE s == Window
           t == Window'
           fields == <<command, parameter1, parameter2, parameter3>>
<1>2. /\ s \in Seq(Byte) /\ Len(s) = 4
      /\ s[1] = command /\ s[2] = parameter1 /\ s[3] = parameter2 /\ s[4] = parameter3
  BY <1>1, WindowNow
<1>3. t \in Seq(Byte) /\ Len(t) = nbBytesPacket' - 1
  BY WindowNext
<1>4. fields \in Seq(Byte) /\ Len(fields) = 4
  BY DEF LinkInv, TypeOK
<1> HIDE DEF s, t
<1>5. t = <<>>
  BY <1>1, <1>3, EmptySeq
<1>6. s = fields
  <2>1. \A i \in 1..4 : s[i] = fields[i]
    BY <1>2
  <2> HIDE DEF fields
  <2> QED BY <1>2, <1>4, <2>1, SeqEqual
<1>7. MakeChecksum(s[1], s[2], s[3], s[4]) = data
  BY <1>1, <1>2
<1> QED BY <1>1, <1>2, <1>5, <1>6, <1>7, StreamBytes DEF s, t, Decoder!HandOver, Decoder!Valid

LEMMA BadChecksumSlides ==
  ASSUME LinkInv, LinkInv', NEW data \in Byte, BadChecksum(data)
  PROVE  Decoder!Slide(data)
<1>1. /\ nbBytesPacket = 5 /\ nbBytesPacket' = 5
      /\ data # MakeChecksum(command, parameter1, parameter2, parameter3)
      /\ command' = parameter1 /\ parameter1' = parameter2
      /\ parameter2' = parameter3 /\ parameter3' = data
      /\ request' = request
  BY DEF BadChecksum, ChecksumOK, PACKET_NB_BYTES
<1> DEFINE s == Window
           t == Window'
<1>2. /\ s \in Seq(Byte) /\ Len(s) = 4
      /\ s[1] = command /\ s[2] = parameter1 /\ s[3] = parameter2 /\ s[4] = parameter3
  BY <1>1, WindowNow
<1>3. /\ t \in Seq(Byte) /\ Len(t) = nbBytesPacket' - 1
      /\ nbBytesPacket' >= 2 => t[1] = command'
      /\ nbBytesPacket' >= 3 => t[2] = parameter1'
      /\ nbBytesPacket' >= 4 => t[3] = parameter2'
      /\ nbBytesPacket' >= 5 => t[4] = parameter3'
  BY WindowNext
<1> HIDE DEF s, t
<1>4. /\ Len(t) = 4
      /\ t[1] = parameter1 /\ t[2] = parameter2 /\ t[3] = parameter3 /\ t[4] = data
  BY <1>1, <1>3
<1>5. t[1] = s[2] /\ t[2] = s[3] /\ t[3] = s[4]
  BY <1>2, <1>4
<1>7. t = Append(Tail(s), data)
  BY <1>2, <1>3, <1>4, <1>5, IsShift
<1>8. MakeChecksum(s[1], s[2], s[3], s[4]) # data
  BY <1>1, <1>2
<1> QED BY <1>1, <1>2, <1>7, <1>8, StreamBytes DEF s, t, Decoder!Slide, Decoder!Valid

(* The switch over nbBytesPacket, the checksum test and SwitchPacket         *)
(* implement the sliding window of PacketStream: every request handed over   *)
(* is the four bytes before the one that completes its checksum.             *)
THEOREM DecoderRefinesStream == Spec => DecodesStream
<1>1. Init => Decoder!Init
  <2>1. SUFFICES ASSUME Init
                 PROVE  Decoder!Init
    OBVIOUS
  <2>2. Window \in Seq(Byte) /\ Len(Window) = 0
    <3>1. LinkInv /\ nbBytesPacket = 1
      BY <2>1, InitLinkInv DEF Init
    <3>2. Window \in Seq(Byte) /\ Len(Window) = nbBytesPacket - 1
      BY <3>1, WindowNow
    <3> QED BY <3>1, <3>2
  <2> QED BY <2>1, <2>2, EmptySeq DEF Init, Decoder!Init
<1>2. LinkInv /\ LinkInv' /\ [Next]_vars => [Decoder!Next]_(Decoder!stream)
  <2>1. SUFFICES ASSUME LinkInv, LinkInv', [Next]_vars
                 PROVE  [Decoder!Next]_(Decoder!stream)
    OBVIOUS
  <2>2. Oldest(rx) \in Byte
    BY <2>1, OldestType DEF LinkInv, FifosOK
  <2>3. CASE UNCHANGED <<packet, history>>
    BY <2>3 DEF Decoder!stream, Window, packet, history
  <2>4. ASSUME FirstFour(Oldest(rx))
        PROVE  Decoder!Next
    BY <2>1, <2>2, <2>4, FirstFourFills, StreamBytes DEF Decoder!Next
  <2>5. ASSUME GoodChecksum(Oldest(rx))
        PROVE  Decoder!Next
    BY <2>1, <2>2, <2>5, GoodChecksumHandsOver, StreamBytes DEF Decoder!Next
  <2>6. ASSUME BadChecksum(Oldest(rx))
        PROVE  Decoder!Next
    BY <2>1, <2>2, <2>6, BadChecksumSlides, StreamBytes DEF Decoder!Next
  <2> QED BY <2>1, <2>3, <2>4, <2>5, <2>6, DecoderSteps
<1> QED BY <1>1, <1>2, LinkInvariant, PTL DEF Spec, DecodesStream, Decoder!Spec

-----------------------------------------------------------------------------
(* Answers are contiguous.                                                   *)

(* The interrupt moves the oldest queued byte to the line.                   *)
LEMMA MoveHead ==
  ASSUME NEW s \in Seq(Byte), NEW q \in Seq(Byte), q # <<>>
  PROVE  Append(s, Head(q)) \o Tail(q) = s \o q
<1> DEFINE h == Head(q)
           r == Tail(q)
<1>1. /\ h \in Byte /\ r \in Seq(Byte)
      /\ Len(q) \in Nat /\ Len(r) = Len(q) - 1
      /\ q[1] = h /\ \A i \in 1..Len(r) : r[i] = q[i+1]
  BY HeadTailProperties, LenProperties
<1> HIDE DEF h, r
<1> DEFINE a == Append(s, h)
           x == a \o r
           y == s \o q
<1>2. /\ a \in Seq(Byte) /\ Len(a) = Len(s) + 1 /\ Len(s) \in Nat
      /\ \A i \in 1..Len(s) : a[i] = s[i]
      /\ a[Len(s) + 1] = h
  BY <1>1, AppendProperties, LenProperties
<1> HIDE DEF a
<1>3. /\ x \in Seq(Byte) /\ Len(x) = Len(a) + Len(r)
      /\ \A i \in 1..Len(a) + Len(r) :
           x[i] = IF i <= Len(a) THEN a[i] ELSE r[i - Len(a)]
  BY <1>1, <1>2, ConcatProperties
<1>4. /\ y \in Seq(Byte) /\ Len(y) = Len(s) + Len(q)
      /\ \A i \in 1..Len(s) + Len(q) :
           y[i] = IF i <= Len(s) THEN s[i] ELSE q[i - Len(s)]
  BY ConcatProperties
<1> HIDE DEF x, y
<1> DEFINE m == Len(s)
           n == Len(q)
<1>5. m \in Nat /\ n \in Nat /\ Len(a) = m + 1 /\ Len(r) = n - 1 /\ n >= 1
  <2>1. n # 0
    BY EmptySeq
  <2> QED BY <1>1, <1>2, <2>1
<1>6. Len(x) = m + n /\ Len(y) = m + n
  BY <1>3, <1>4, <1>5
<1>7. ASSUME NEW i \in 1..m+n
      PROVE  x[i] = y[i]
  <2>0. i \in 1..Len(a) + Len(r) /\ i \in 1..Len(s) + Len(q) /\ i \in Int
    BY <1>5
  <2>1. CASE i <= m
    <3>1. x[i] = a[i] /\ y[i] = s[i]
      BY <1>3, <1>4, <1>5, <2>0, <2>1
    <3> QED BY <1>2, <2>0, <2>1, <3>1
  <2>2. CASE i = m + 1
    <3>1. x[i] = a[i] /\ y[i] = q[1]
      BY <1>3, <1>4, <1>5, <2>0, <2>2
    <3> QED BY <1>1, <1>2, <2>2, <3>1
  <2>3. CASE i > m + 1
    <3>1. x[i] = r[i - (m + 1)] /\ y[i] = q[i - m]
      BY <1>3, <1>4, <1>5, <2>0, <2>3
    <3>2. i - (m + 1) \in 1..Len(r) /\ (i - (m + 1)) + 1 = i - m
      BY <1>5, <2>0, <2>3
    <3> QED BY <1>1, <3>1, <3>2
  <2> QED BY <1>5, <2>0, <2>1, <2>2, <2>3
<1>8. \A i \in 1..Len(x) : x[i] = y[i]
  BY <1>6, <1>7
<1>9. x = y
  BY <1>3, <1>4, <1>6, <1>8, SeqEqual
<1> QED BY <1>9 DEF x, y, a, h, r

(* What is queued goes out after everything before it.                       *)
LEMMA ConcatAppend ==
  ASSUME NEW s \in Seq(Byte), NEW q \in Seq(Byte), NEW b \in Byte
  PROVE  s \o Append(q, b) = Append(s \o q, b)
<1>1. <<b>> \in Seq(Byte) /\ s \o q \in Seq(Byte)
  BY ConcatProperties
<1>2. Append(q, b) = q \o <<b>> /\ Append(s \o q, b) = (s \o q) \o <<b>>
  BY <1>1, AppendIsConcat
<1> QED BY <1>1, <1>2, ConcatAssociative

LEMMA OutputType ==
  ASSUME LinkInv
  PROVE  Output \in Seq(Byte) /\ Len(Output) \in Nat
<1>1. line \in Seq(Byte) /\ Contents(tx) \in Seq(Byte)
  BY ContentsType DEF LinkInv, TypeOK, FifosOK
<1>2. line \o Contents(tx) \in Seq(Byte)
  BY <1>1, ConcatProperties
<1> QED BY <1>2, LenProperties DEF Output

(* The output grows by the bytes OutChar gets accepted, and in no other way. *)
LEMMA OutputSteps ==
  ASSUME LinkInv, [Next]_vars
  PROVE  /\ OutChar /\ HasRoom(tx) => Output' = Append(Output, bytes[it])
         /\ ~(OutChar /\ HasRoom(tx)) => Output' = Output
<1>1. /\ line \in Seq(Byte) /\ Contents(tx) \in Seq(Byte) /\ FifoOK(tx)
      /\ Output' = line' \o Contents(tx')
  BY ContentsType DEF LinkInv, TypeOK, FifosOK, Output, Contents
<1>2. ASSUME OutChar, HasRoom(tx)
      PROVE  Output' = Append(Output, bytes[it])
  <2>1. tx' = Put(tx, bytes[it]) /\ line' = line
    BY <1>2 DEF OutChar
  <2>2. bytes[it] \in Byte
    BY <1>2, PutByte
  <2>3. Contents(tx') = Append(Contents(tx), bytes[it])
    BY <1>1, <1>2, <2>1, <2>2, PutAppends
  <2> QED BY <1>1, <2>1, <2>2, <2>3, ConcatAppend DEF Output
<1>3. ASSUME OutChar, ~HasRoom(tx)
      PROVE  Output' = Output
  BY <1>1, <1>3 DEF OutChar, Put, Output
<1>4. ASSUME UART_ISR
      PROVE  Output' = Output
  <2>1. CASE TIE /\ TDRE /\ HasData(tx)
    <3>1. tx' = Get(tx) /\ line' = Append(line, Oldest(tx))
      BY <1>4, <2>1 DEF UART_ISR, Transmit
    <3>2. /\ Contents(tx) # <<>> /\ Oldest(tx) = Head(Contents(tx))
          /\ Contents(tx') = Tail(Contents(tx))
      BY <1>1, <2>1, <3>1, GetRemoves
    <3> QED BY <1>1, <3>1, <3>2, MoveHead DEF Output
  <2>2. CASE ~(TIE /\ TDRE /\ HasData(tx))
    <3>1. UNCHANGED <<tx, line>>
      BY <1>4, <2>2 DEF UART_ISR, Transmit
    <3> QED BY <1>1, <3>1 DEF Output
  <2> QED BY <2>1, <2>2
<1>5. ASSUME HostByte \/ ByteSent \/ Handler \/ PacketGet \/ GiveUp \/ ArmOutput
             \/ UNCHANGED vars
      PROVE  Output' = Output
  <2>1. UNCHANGED <<tx, line>>
    BY <1>5 DEF HostByte, ByteSent, PacketGet, GiveUp, ArmOutput, vars, Handler,
                HandleIDMTCharacteristic, HandleFrequency, HandleCurrent,
                HandleNbTimeTripped, NoHandler, Answer
  <2> QED BY <1>1, <2>1 DEF Output
<1> QED BY <1>2, <1>3, <1>4, <1>5 DEF Next, Main, PacketGetEmpty

(* A sequence ends with the first n bytes of the packet.                     *)
EndsWith(output, n, p) ==
  /\ Len(output) >= n
  /\ \A k \in 1..n : output[Len(output) - n + k] = p[k]

PutInv == pc = "PacketPut" /\ success => EndsWith(Output, it - 1, bytes)

LEMMA EndsWithMore ==
  ASSUME NEW output \in Seq(Byte), NEW n \in 0..4, NEW p,
         p[n + 1] \in Byte, EndsWith(output, n, p)
  PROVE  EndsWith(Append(output, p[n + 1]), n + 1, p)
<1> DEFINE b == p[n + 1]
           more == Append(output, b)
           len == Len(output)
<1>1. /\ more \in Seq(Byte) /\ Len(more) = len + 1 /\ len \in Nat
      /\ \A i \in 1..len : more[i] = output[i]
      /\ more[len + 1] = b
  BY AppendProperties, LenProperties
<1>2. len >= n /\ \A k \in 1..n : output[len - n + k] = p[k]
  BY DEF EndsWith
<1> HIDE DEF more, len
<1>3. ASSUME NEW k \in 1..n+1
      PROVE  more[(len + 1) - (n + 1) + k] = p[k]
  <2>1. CASE k = n + 1
    <3>1. (len + 1) - (n + 1) + k = len + 1
      BY <1>1, <2>1
    <3> QED BY <1>1, <2>1, <3>1
  <2>2. CASE k # n + 1
    <3>1. /\ (len + 1) - (n + 1) + k = len - n + k
          /\ k \in 1..n /\ len - n + k \in 1..len
      BY <1>1, <1>2, <2>2
    <3> QED BY <1>1, <1>2, <3>1
  <2> QED BY <2>1, <2>2
<1> QED BY <1>1, <1>2, <1>3 DEF EndsWith, more

(* The form PacketContiguous has.                                            *)
LEMMA EndsWithSlice ==
  ASSUME NEW output \in Seq(Byte), NEW n \in 0..5, NEW p \in [1..5 -> Byte],
         EndsWith(output, n, p)
  PROVE  SubSeq(output, Len(output) - n + 1, Len(output)) = SubSeq(p, 1, n)
<1> DEFINE len == Len(output)
           m == len - n + 1
           s == SubSeq(output, m, len)
           t == SubSeq(p, 1, n)
<1>1. /\ len \in Nat /\ len >= n /\ m \in Int /\ len - m + 1 = n
      /\ (m <= len <=> n # 0)
      /\ \A k \in 1..n : output[len - n + k] = p[k]
  BY LenProperties DEF EndsWith
<1>2. \A i \in 1..len : output[i] \in Byte
  BY ElementOfSeq
<1>3. m >= 1
  BY <1>1
<1> HIDE DEF len
<1>4. \A i \in m..len : output[i] \in Byte
  BY <1>1, <1>2, <1>3
<1> HIDE DEF m
<1>5. /\ s \in Seq(Byte) /\ Len(s) = n
      /\ \A i \in 1..n : s[i] = output[m + i - 1]
  <2>1. /\ s \in Seq(Byte) /\ Len(s) = IF m <= len THEN len - m + 1 ELSE 0
        /\ \A i \in 1 .. len - m + 1 : s[i] = output[m + i - 1]
    BY <1>1, <1>4, SubSeqProperties
  <2> QED BY <1>1, <2>1
<1>6. /\ t \in Seq(Byte) /\ Len(t) = n
      /\ \A i \in 1..n : t[i] = p[i]
  <2>1. \A i \in 1..n : p[i] \in Byte
    OBVIOUS
  <2>2. /\ t \in Seq(Byte) /\ Len(t) = IF 1 <= n THEN n - 1 + 1 ELSE 0
        /\ \A i \in 1 .. n - 1 + 1 : t[i] = p[1 + i - 1]
    BY <2>1, SubSeqProperties
  <2>3. n - 1 + 1 = n /\ \A i \in 1..n : 1 + i - 1 = i
    OBVIOUS
  <2> QED BY <2>2, <2>3
<1> HIDE DEF s, t
<1>7. \A i \in 1..n : s[i] = t[i]
  <2>1. \A i \in 1..n : m + i - 1 = len - n + i
    BY <1>1 DEF m
  <2> QED BY <1>1, <1>5, <1>6, <2>1
<1>8. s = t
  BY <1>5, <1>6, <1>7, SeqEqual
<1> QED BY <1>8 DEF s, t, m, len

(* PacketPut between two of its bytes: an accepted byte extends the packet   *)
(* on its way, a refused one ends the claim, and the interrupt running in    *)
(* between changes nothing of the output.                                    *)
LEMMA PutStep ==
  ASSUME LinkInv, PutInv, [Next]_vars
  PROVE  PutInv'
<1>1. Output \in Seq(Byte) /\ it \in 1..6 /\ bytes \in [1..5 -> Byte]
  BY OutputType DEF LinkInv, TypeOK, PACKET_NB_BYTES
<1>2. CASE OutChar
  <2>1. /\ pc = "PacketPut" /\ it <= 5 /\ success /\ it' = it + 1
        /\ bytes' = bytes /\ success' = HasRoom(tx)
    BY <1>2 DEF OutChar, PACKET_NB_BYTES
  <2>2. CASE ~HasRoom(tx)
    BY <2>1, <2>2 DEF PutInv
  <2>3. CASE HasRoom(tx)
    <3>1. Output' = Append(Output, bytes[it])
      BY <1>2, <2>3, OutputSteps
    <3> DEFINE n == it - 1
    <3>2. n \in 0..4 /\ n + 1 = it /\ it' - 1 = n + 1 /\ bytes[n + 1] \in Byte
      BY <1>1, <2>1
    <3>3. EndsWith(Output, n, bytes)
      BY <2>1 DEF PutInv
    <3> HIDE DEF n
    <3>4. EndsWith(Append(Output, bytes[n + 1]), n + 1, bytes)
      BY <1>1, <3>2, <3>3, EndsWithMore
    <3>5. EndsWith(Output', it' - 1, bytes')
      BY <2>1, <3>1, <3>2, <3>4
    <3> QED BY <3>5 DEF PutInv, EndsWith
  <2> QED BY <2>2, <2>3
<1>3. CASE Handler
  <2>1. pc' = "PacketGet" \/ it' = 1
    BY <1>3 DEF Handler, HandleIDMTCharacteristic, HandleFrequency, HandleCurrent,
                HandleNbTimeTripped, NoHandler, Answer
  <2>2. CASE pc' = "PacketGet"
    BY <2>2 DEF PutInv
  <2>3. CASE it' = 1
    <3>1. ~OutChar
      BY <1>3 DEF OutChar, Handler, HandleIDMTCharacteristic, HandleFrequency,
                  HandleCurrent, HandleNbTimeTripped, NoHandler, Handling
    <3>2. Output' = Output
      BY <3>1, OutputSteps
    <3>3. Len(Output') >= 0 /\ it' - 1 = 0
      BY <2>3, <3>2, OutputType
    <3> QED BY <3>3 DEF PutInv, EndsWith
  <2> QED BY <2>1, <2>2, <2>3
<1>4. CASE PacketGet \/ GiveUp \/ ArmOutput
  <2>1. pc' # "PacketPut"
    BY <1>4 DEF PacketGet, FirstFour, GoodChecksum, BadChecksum, GiveUp, ArmOutput
  <2> QED BY <2>1 DEF PutInv
<1>5. CASE HostByte \/ ByteSent \/ UART_ISR \/ UNCHANGED vars
  <2>1. UNCHANGED <<pc, bytes, it, success>>
    BY <1>5 DEF HostByte, ByteSent, UART_ISR, vars, sending
  <2>2. ~OutChar
    BY <1>1, <2>1 DEF OutChar
  <2>3. Output' = Output
    BY <2>2, OutputSteps
  <2> QED BY <2>1, <2>3 DEF PutInv, EndsWith
<1> QED BY <1>2, <1>3, <1>4, <1>5 DEF Next, Main, PacketGetEmpty

THEOREM PutInvariant == Spec => []PutInv
<1>1. Init => PutInv
  BY DEF Init, PutInv
<1>2. LinkInv /\ PutInv /\ [Next]_vars => PutInv'
  BY PutStep
<1> QED BY <1>1, <1>2, LinkInvariant, PTL DEF Spec

(* A packet whose bytes were all accepted goes out in one piece, although    *)
(* the interrupt drains TxFIFO while PacketPut is filling it.                *)
THEOREM AnswersContiguous == Spec => []PacketContiguous
<1>1. LinkInv /\ PutInv => PacketContiguous
  <2>1. SUFFICES ASSUME LinkInv, PutInv, pc = "PacketPut", success
                 PROVE  /\ Len(Output) >= it - 1
                        /\ SubSeq(Output, Len(Output) - it + 2, Len(Output))
                             = SubSeq(bytes, 1, it - 1)
    BY DEF PacketContiguous
  <2>2. /\ Output \in Seq(Byte) /\ Len(Output) \in Nat /\ it \in 1..6
        /\ bytes \in [1..5 -> Byte]
    BY <2>1, OutputType DEF LinkInv, TypeOK, PACKET_NB_BYTES
  <2> DEFINE n == it - 1
  <2>3. n \in 0..5 /\ Len(Output) - n + 1 = Len(Output) - it + 2
    BY <2>2
  <2>4. EndsWith(Output, n, bytes)
    BY <2>1 DEF PutInv
  <2>5. Len(Output) >= n
    BY <2>4 DEF EndsWith
  <2> HIDE DEF n
  <2>6. SubSeq(Output, Len(Output) - n + 1, Len(Output)) = SubSeq(bytes, 1, n)
    BY <2>2, <2>3, <2>4, EndsWithSlice
  <2> QED BY <2>3, <2>5, <2>6 DEF n
<1> QED BY <1>1, LinkInvariant, PutInvariant, PTL
=============================================================================
