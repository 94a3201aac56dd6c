-------------------------------- MODULE Fifo --------------------------------
(* TFIFO of FIFO.cpp: a ring of FIFO_SIZE bytes.  Both operations run in a   *)
(* critical section, so each is one step of whoever calls it; here they are  *)
(* operators on the object's fields.                                         *)
EXTENDS Integers, Sequences, Bytes

CONSTANT FIFO_SIZE
ASSUME FifoAssumption == FIFO_SIZE \in Nat \ {0} /\ FIFO_SIZE <= 256

Index == 0..FIFO_SIZE-1

FifoType ==
  [Start : Index, End : Index, NbBytes : 0..FIFO_SIZE, Buffer : [Index -> Byte]]

(* Static storage: everything starts at zero.                                *)
EmptyFifo ==
  [Start |-> 0, End |-> 0, NbBytes |-> 0, Buffer |-> [i \in Index |-> Zero]]

(* Mutant of Succ: the index is not reduced to the size of the ring.         *)
SuccUnreduced(i) == (i + 1) % 256

(* An index is a byte that is incremented and then reduced.                  *)
Succ(i) == ((i + 1) % 256) % FIFO_SIZE

HasRoom(fifo) == fifo.NbBytes < FIFO_SIZE
HasData(fifo) == fifo.NbBytes # 0

(* Mutant of Put: a full FIFO takes the byte all the same.                   *)
PutOverwrites(fifo, data) ==
  [Start   |-> fifo.Start,
   End     |-> Succ(fifo.End),
   NbBytes |-> IF HasRoom(fifo) THEN fifo.NbBytes + 1 ELSE fifo.NbBytes,
   Buffer  |-> [fifo.Buffer EXCEPT ![fifo.End] = data]]

(* Put of a byte: a full FIFO answers false and is left as it was.           *)
Put(fifo, data) ==
  IF HasRoom(fifo)
    THEN [Start   |-> fifo.Start,
          End     |-> Succ(fifo.End),
          NbBytes |-> fifo.NbBytes + 1,
          Buffer  |-> [fifo.Buffer EXCEPT ![fifo.End] = data]]
    ELSE fifo

(* Mutant of Get: the start of the ring does not move.                       *)
GetStuck(fifo) ==
  IF HasData(fifo) THEN [fifo EXCEPT !.NbBytes = @ - 1] ELSE fifo

(* Get: the oldest byte, and the FIFO without it.                            *)
Oldest(fifo) == fifo.Buffer[fifo.Start]
Get(fifo) ==
  IF HasData(fifo)
    THEN [Start   |-> Succ(fifo.Start),
          End     |-> fifo.End,
          NbBytes |-> fifo.NbBytes - 1,
          Buffer  |-> fifo.Buffer]
    ELSE fifo

(* The bytes held, oldest first.                                             *)
Contents(fifo) ==
  [i \in 1..fifo.NbBytes |-> fifo.Buffer[(fifo.Start + i - 1) % FIFO_SIZE]]

(* The indices and the count agree.                                          *)
FifoOK(fifo) ==
  fifo \in FifoType /\ fifo.End = (fifo.Start + fifo.NbBytes) % FIFO_SIZE
=============================================================================
