# Overcurrent relay: a TLA+ model of the firmware

The repository is the firmware of an inverse definite minimum time (IDMT)
overcurrent relay on a K70 microcontroller. It measures a current, starts a
countdown when the current is above a threshold, recomputes the countdown when
the level of the current changes, raises a trip output when the countdown ends,
and answers a PC over a serial link that asks for the current, the frequency
and the curve setting or changes the setting, which is kept in flash.

All source paths below are relative to
`src/2019_Autumn_Project-master/Sources/`.

## Inventory

| component | state | operations | talks to |
|---|---|---|---|
| Protection handler (`main.cpp`, `CallBack::PIT`) | `Time`, `Counter`, `Current`, and the statics `PrevCurrent`, `success`, `Flag_Trip` | one run per millisecond, from the timer interrupt | reads `Analog`, `IDMT` (flash); drives two converter outputs |
| IDMT curves (`IDMT.cpp`) | the setting byte in flash | `GetTripTime`, `GetCurrent`, `Set`, `GetSetting`, `GetNbTrip` | `Flash`, `Analog` |
| Analog acquisition (`Analog.cpp`) | sample window, zero-crossing phase, period | `GetSignal`, `PutSample`, `ZeroCrossDetector`, `GetFrequency` | the converter driver |
| Fixed point (`FixPoint32.cpp`) | none | RMS, square root, power | |
| Serial FIFOs (`FIFO.cpp`) | ring, two indices, a count | `Put`, `Get` | shared by the UART interrupt and the main loop |
| UART driver (`UART.cpp`) | RDRF, TDRE, TIE of the hardware | `Init`, `InChar`, `OutChar`, `UART_ISR` | FIFOs, `Packet` |
| Packet codec (`Packet.cpp`) | the packet being received, its byte number | `PacketGet`, `PacketPut` | UART driver |
| Command handlers (`main.cpp`, `HandlePacket`) | none of their own | five requests and their answers | `Packet`, `IDMT`, `Analog`, `Current` |
| Flash storage (`Flash.cpp`) | one sector, an allocation map | `AllocateVar`, `Write8/16/32`, `Erase` | flash controller registers |
| PIT (`PIT.cpp`) | registers, the callback | `Init`, `Set`, `Enable`, `ISR` | the protection handler |
| LEDs, critical sections, generated start-up code | registers | | |

Two flows of control exist: the main loop, and interrupt handlers of one and the
same priority, which do not nest. A critical section of the main loop excludes
them all (`CriticalSections` shows how).

What is hard about each part, and what makes it correct:

- **Protection handler.** Six variables survive from tick to tick and are
  written in different branches; the branches of earlier ticks decide what a
  later overload finds. Three output requests can be refused one by one. The
  countdown is computed in 32-bit words that wrap. Correct means: no trip
  without an overload that was timed, no trip lost, no release during an
  overload, every overload that stays trips.
- **Setting in flash.** The main loop erases and reprograms the byte that the
  handler reads, with the handler free to run between.
- **FIFOs and UART.** One ring has the interrupt as producer and the main loop
  as consumer, the other the reverse; arming (main loop) races with disarming
  (interrupt). Correct means: byte order and content preserved, no byte left
  queued with nobody to send it, both queues drain.
- **Packet codec.** After a bad checksum the decoder slides by one byte.
  Correct means: no five consecutive bytes that form a packet are overlooked.
  On the way out, a full queue leaves a truncated packet behind.
- **Flash storage.** A read-modify-write of a whole sector: erase, program, with
  power loss and error flags between; an allocator without a free.
- **Fixed point and analog.** 16-bit sums and periods that wrap, a fixed number
  of Newton steps, divisions whose divisor is a difference near zero, a crossing
  detector with a memory of one sample. Correct means: the current is the root
  mean square of its window, a larger current never waits longer, the frequency
  is that of the signal.
- **Critical sections.** The macros read the interrupt mask one instruction
  before they set it, and keep it in a global that the interrupt uses as well.
  Correct means: exclusion, and interrupts masked exactly as long as needed.
- **Command handlers.** They wait for flash while requests arrive, and read a
  two-byte current that the timer interrupt replaces.

The full list of hazards, each at its line, is in `PROJECT.json`.

## Modules

| module | models |
|---|---|
| `Relay` | `CallBack::PIT`, `GetInverTime`, and as far as they meet it `IDMT_t::GetTripTime`, `IDMT_t::Set`, `Analog_t::GetSignal`, `PutSample` |
| `ProtectionRelay` | abstract: what the relay promises about its trip output |
| `RelayProofs` | theorems about `Relay` |
| `MCRelay` | a scaled instance for TLC |
| `MCRelayMs` | the same beside the countdown that the comments of `main.cpp` describe, in history variables |
| `Bytes`, `Fifo` | bytes with exclusive or; `TFIFO` as operators on its fields |
| `SerialLink` | `UART_ISR`, the FIFOs, `PacketGet`, the command handlers, `PacketPut`, the main loop |
| `ByteQueue` | abstract: a bounded queue of bytes |
| `PacketStream` | abstract: a five-byte window that slides over the received bytes |
| `FifoProofs`, `SerialLinkProofs` | theorems about `Fifo` and `SerialLink` |
| `PacketProofs` | theorems about the decoder and the packet sender of `SerialLink` |
| `MCSerialLink` | what the PC sends, for TLC |
| `FlashStore` | `AllocateVar`, `Write8/16/32`, `WritePhrase`, `LaunchCommand` under `IDMT_t`; the flash controller and power loss |
| `StoredSetting` | abstract: a byte in flash under writes and power loss |
| `FlashStoreProofs` | theorems about `FlashStore` |
| `MCFlashStore` | curve settings and sector contents, for TLC |
| `Firmware` | `SerialLink` and `FlashStore` composed: the command handlers with their reads and writes of flash and of the current |
| `FirmwareProofs` | theorems about `Firmware` |
| `MCFirmware` | conversations, for TLC |
| `FixPoint` | `FixPoint` (`FixPoint32.cpp`) and the curves of `IDMT.cpp` as operators |
| `Measurement` | `Analog_t::GetSignal`, `ZeroCrossDetector`, `GetFrequency`, and the current computed of each window |
| `MeasurementProofs` | theorems about `FixPoint` and `Measurement` |
| `MCMeasurement` | a sine wave and its amplitudes, for TLC |
| `CriticalSections` | `EnterCritical`, `ExitCritical`, `class critical` and the bodies of `Put` and `Get`, statement by statement, in both contexts |
| `CriticalSectionsProofs` | theorems about `CriticalSections` |
| `MCCriticalSections` | two bytes, for TLC |

### Relay

One action, `PIT`, is one whole run of the handler, since nothing can preempt
it. Its parts follow the order of the code: `Elapsed` is the decrement,
`Tripped` and `TripFlag` are the test for zero and the trip request, `Sample`
is the measurement, then one of `LevelChanged`, `LevelSteady`, `NoOverload`.
The three output requests of a run each get an answer from the driver
(`PutResults`), and `NoOverload` keeps the short circuit of the code's `&&`:
the trip output is touched only after the timing output was accepted.
`EraseSetting` and `ProgramSetting` are the two flash commands of
`IDMT_t::Set`; ticks may come between them, and the handler then reads an
erased byte. Initially the byte is anything an earlier run left.

Numbers are parameters: a second has `ONE` units (65536 in the code) and `MS`
ticks (1000), and a word wraps at `ONE * ONE` (2^32). The curves are a
constant function: what the handler does with a trip time is modelled here, how
a curve is evaluated in `FixPoint`. `16 / Time` with `Time` zero gives zero: that
is what the processor's divide instruction answers, trapping being off.

The low byte of the current is not part of any decision but the threshold, so
the current is one 16-bit value, and `Hi` its high byte.

### SerialLink

The main loop and the interrupt interleave. The FIFO calls and the arming of
the transmitter are critical sections, so each is one step; nothing else the
main loop touches is shared, which is why decoding a byte is one step with
taking it. The environment is the PC (`HostByte`, which overruns the receive
register if `Overruns` allows it) and the shifter (`ByteSent`). `line` is what
was written to the transmitter, `heard` and `request` record what the decoder
consumed and handed over; they are history and influence nothing.

A command handler builds its answer (`Answer`, with the checksum), then
`OutChar` puts byte by byte until one is refused; `GiveUp` returns then without
arming, `ArmOutput` arms after five accepted calls. It also arms when only the
fifth was refused: the loop ends before the result is looked at again.
What a handler reads from other components is any member of `Settings` or
`Readings`. The answer to a CURRENT request (code 1) carries code 2 and that to
a FREQUENCY request (code 2) carries code 1, as in the code.

The fields of the packet object are uninitialised at first; each is written
before the decoder reads it, so the model starts them at zero. The `checksum`
field is written and compared within one call and is not a variable.

### FlashStore

`Construct` is the constructor of `IDMT_t` at start-up, `Set` its write of the
setting down to the launch of the erase command, `ProgramPhrase` the rest of
`WritePhrase`, `Return` the end of it. Nothing else writes flash, so the
read-modify-write of the eight bytes is one step. The controller
(`CommandDone`, `CommandRefused`) and the power supply (`PowerLoss`) are the
environment: power loss resets RAM and controller and keeps the sector, with a
command in progress done or not. A refused command sets an error flag, and the
code's answer to that is kept: the flag is cleared and the command still in the
registers is launched again. `dirty` is a history variable that says whether a
refusal stands in the way of the write in progress.

The register names come from `LaunchCommand`; that the data registers follow
the sector in the order of their addresses is taken from the register map
(`Static_Code/IO_Map/MK70F12.h:9001-9008`). It is the one fact about the
controller that a finding rests on; with it, the setting, the first byte of the
sector, is stored where it belongs, as the use of it requires.

`GetSetting` and `GetNbTrip` only read and are not actions here (they are in
`Firmware`). The allocator is
never full in this program, which allocates three bytes of eight; its answer in
that case, a function that ends without a return statement, is either Boolean.

`Relay` sees the same write as `EraseSetting` and `ProgramSetting`.

### Firmware

`Firmware` extends `SerialLink` and instantiates `FlashStore`, without refusals
and power losses, as the flash of `IDMT_t`. A request to set the curve is
`SetStarts` (down to the erase command), `SetProgram` and `SetReturns` (the
answer); the main loop is in the handler in between, `pc = "Handle"`, and bytes
keep arriving. `GetSetting` and `GetNbTrip` answer what the sector holds.
`Measured` is the line of the timer interrupt that writes `Current`;
`HandleCurrent` loads the two bytes of it one after the other (`LoadLo`,
`LoadHi`, in either order, since the compiler may choose) before it answers.
The frequency is one 16-bit load and stays atomic.

`GetSetting` and `Set` do nothing before the construction of `IDMT_t` succeeded;
static construction precedes `main`, so `Construct` precedes everything else
(`Booted`). Its allocations of three bytes out of eight succeed, and without
refusals each write does, so `idmtSuccess` stays true from then on: the other
branches of `main.cpp:158` (an uninitialised byte is answered) and `IDMT.cpp:41` (the
write is skipped, and answered) are never taken, and have no action.

The PC of `Firmware` lets the interrupt read each byte before it sends the next,
and asks no more in one conversation than a ring holds, which is 51 requests for
the 256 bytes of the code (`ConversationAssumption`). Neither is a property of the
firmware, which has no flow control: beyond that, `Put` refuses bytes, and
`SerialLink` is the module in which it does.

### FixPoint and Measurement

`FixPoint` has the numbers of the code, at their real widths: 32Q16 voltages and
currents, a 16-bit sum of squares in 16Q7, six Newton steps, the exponent halved
once per root. 64-bit intermediate products are cut into steps because TLC
counts in 32 bits; `Quotient` and `Product` say how, and give the same result
(proved: `QuotientIs`, `ProductIs`).

A step of `Measurement` is one sample: `Measure` fills the window or, finding it
full, computes the current and empties it (the sample that finds the window full
is dropped, as in the code), and `Detect` is the zero crossing detector with
its period counter. The signal is the environment: a waveform with a level
that may change between two windows and starts from silence. What the detector
does with a sample of exactly zero differs (it primes itself again), so the wave
is sampled half a sample off its zeros. A read that the converter refuses
changes nothing and is not a step.

### CriticalSections

`SerialLink` takes each FIFO call for one step. Here the same calls go
instruction by instruction: the mask is read (`ReadMask`), set (`Disable`), the
depth is counted (`Lock`), the mask saved at depth one (`SaveMask`), then the
statements of `Put` or `Get` one by one, then `Unlock` and `RestoreMask`. The
interrupt is entered between any two of them when `FAULTMASK` is clear, runs to
its end, and goes through the same macros. The main loop calls whatever it
likes. `committed` is a history variable: each ring as the last completed call
left it. What `Get` does with its reference parameter is the byte of the
context, and on the way out of a call its locals are forgotten. The counters of
a ring are bytes and words that cannot wrap at the sizes allowed.

## Runs

| run | asks |
|---|---|
| `Relay` | any current, any driver answer, any rewrite of the curve: invariants, action properties, refinement of `ProtectionRelay`, the liveness of trip and release with a driver that refuses at times, and that the curve chosen is the one in force |
| `RelaySustained` | finding: an overload that stays for ever need not trip |
| `RelayMs` | findings: the countdown is not the trip time in ms when that is long, and not the percentage of it after a change of level |
| `SerialLink` | two rings of five bytes, overruns, conversations and noise: ring consistency, nothing stranded, contiguous answers, no request missed, refinement of `ByteQueue` and `PacketStream`, draining |
| `FlashStore` | the setting under power losses and refused commands: programming over erased flash only, refinement of `StoredSetting`, every write returns |
| `FlashPhrase` | finding: the sector does not hold the phrase that was reported written |
| `Firmware` | conversations around the curve setting: whole answers in order, the setting as last set, every request answered |
| `FirmwareTorn` | finding: the answered current mixes two measurements |
| `Measurement` | windows at every phase: current true to 2.5 percent, window and counters within their widths, curves that fall |
| `MeasurementRms` | finding: a strong signal reads as a weak one |
| `MeasurementFrequency` | finding: the answered frequency is not that of the signal |
| `CriticalSections` | every interleaving of the calls of both contexts: exclusion, masking, atomic calls, refinement of `ByteQueue`, interrupts enabled again |

Bounds and why they are enough.

- *Currents* 0, 2100 (just below the threshold), 2200 and 2400: two levels
  (high bytes 8 and 9) above it, and 2100 shares its high byte with 2200, so
  the level can stay the same across the threshold as well as change.
- *Scale* `BITS = 4`, `ONE = 16`, `MS = 4`: a word has 8 bits. `MCCurve` has
  trip times below and above a quarter of the word (the real ones exceed
  65.5 s, where `Time * 1000` wraps, for raw currents up to 2349, 2469 and
  3051 on the three curves), and short ones, so that products wrap and
  recomputed countdowns can be zero. The wrap of `Counter` below zero is
  played out in full: 256 ticks.
- *Slopes* 0, 1 and 2, the three curves; an erased byte is the setting that names
  none of them.
- *`RelayMs`*: currents 2200 and 2320, both so close to the threshold that the
  trip times of all three curves wrap, as the real ones do there.
- *Window* `NB_Sample = 1`: a measurement can lag any number of ticks, since
  `Sample` may stutter.
- *Rings* of five bytes, the smallest that hold a packet, fill up in mid-packet
  and wrap in every position; 20 in `Firmware`, where nothing must be lost; two
  in `CriticalSections`, where full, empty and wrapped is what counts. The code
  has 256.
- *Streams*: back-to-back requests, a damaged one, noise before one, one
  without an answer; and every one of 2^7 streams over two values in which
  packets overlap.
- *Conversations*: up to four requests, with a request in the queue while flash
  is written, two writes in a row, a read between and after them, and one
  request without an answer.
- *Signal*: silence, three amplitudes from just above the pick-up to just below
  the wrap of the sum, and the full range of the converter; 20 samples to a
  period and 21 ticks to a window, so that windows start at every phase. The
  period counter wraps at 336 rather than 65536: it exceeds a period, and is a
  multiple of 16 as the real one, so the product with 16 wraps to zero as well.
- *Currents on the curves*: the two extreme levels read 2113, just above the
  pick-up of 2109, and 29551, just below the strongest that the sum of squares
  can hold; `TripTimeFalls` looks at each current between them when the level
  rises, on each curve.
- *Sector*: blank, or with a setting and a trip count from an earlier run;
  three settings, the curves of the code. Any number of writes and power losses.

## Fairness

`Relay`: the timer interrupt is periodic, so `PIT` occurs again and again; the
converter driver accepts again and again (weak fairness on a run in which all
requests are accepted) and does not refuse the trip request each time it is
made (strong fairness, since that request is not enabled continuously); a flash
command ends. No fairness is assumed on the current. `SerialLink`: the
main loop is an endless loop (weak fairness on `Main`), a pending interrupt is
taken (`UART_ISR`), and the shifter finishes (`ByteSent`); for draining the PC
also gets to the end of its finite stream (`HostByte`).
`FlashStore`: the main loop goes on and the controller ends each command, by
executing it or refusing it; no write need ever be asked for, and the power may
fail at any time. `Firmware`: the main loop, the flash controller, the UART and
the PC go on, each for itself. `CriticalSections`: the processor does not stop;
no interrupt need ever come. `Measurement` has safety properties only.

## What the runs show

What holds: the relay never arms without an overload, never trips without
having counted, never releases under an overload, `Flag_Trip` never suppresses
a due trip, and one overload from power-on trips on each of the three curves even
while the curve is rewritten. A handler that runs between the erase and the program
command reads a byte nobody wrote and counts on the inverse curve; that lasts for the
countdown in progress at most, and then the trip time is that of the setting chosen
(`SettingTakesEffect`). Nothing shortens it: a running countdown is not recomputed
when the setting changes. On the link, no queued byte is ever stranded, although
`PacketPut` returns without arming when a byte is refused: a refusal means the
ring was full, which the interrupt armed by an earlier packet is draining.
`UnarmedIsOwn` states why: a disarmed transmitter means the ring holds only the
packet now being put, and five bytes fit.

In flash, the setting is always its old value, the erased byte or the new one,
across any power loss, and it is found at the same place after every start. A
refused command can spoil the write it belongs to and the next one, reported as
successful both (the stale erase or program command is launched again); the one
after that is sound again.

On every curve, and for every current from just above the pick-up to what the
sum of squares can hold, the divisor is positive and the trip time falls as the current rises:
the truncations of six square roots in a row do not turn the curve around
(`TripTimeFalls`). Below the wrap the current is right within 2.5 percent at
every phase of a window (`TrueRmsInRange`).

The requests of a conversation get their answers in order and whole while flash
is written between them, and a setting reads back as it was last set
(`AnswersInOrder`, `EveryRequestAnswered`).

The macros of the critical sections are sound although the interrupt may come
between the reading of the mask and its setting, and although both contexts
share `SR_reg` and `SR_lock`: the interrupt is then over before the main loop
goes on, and leaves both as they were. What is saved is always a clear mask.

What does not hold:

1. `SustainedOverloadTrips`. An overload shorter than its trip time leaves
   `Counter` above zero and clears `Time` (`main.cpp:277`). At the next overload
   `Counter` is not zero, so no countdown starts (`main.cpp:265`), and `Time` is
   zero, so none is decremented (`main.cpp:217`).
2. `TripsWhenDue`, twice. `Time * 1000` wraps in 32 bits (`main.cpp:268`): a
   countdown of 47 ticks lasts 15. And a change of level should leave the same
   percentage of the new trip time (`main.cpp:197`, `256`); but `/` binds tighter
   than `<<`, so that the "percentage" of `main.cpp:198` is the time left itself, and
   its product with the new trip time is a 32-bit one of which `main.cpp:200` keeps
   the fraction: less than a second is left, whatever is due. The run goes from 15
   ticks to one, where 30 are due. Both make the relay trip early. With both put right
   the property still fails after a second change of level, since `Time` is not
   replaced at the first and the next percentage is taken of the wrong trip time.
3. `PhraseWritten`. Of the eight bytes only the first two are programmed where
   they belong (`Flash.cpp:241-248`); each write of the setting moves the bytes
   of `nBTrip`.
4. `TrueRms`. The 16-bit sum of squares wraps above 14.4 times the rated current
   (`FixPoint32.cpp:32`); a signal just above reads a sixteenth, below the
   pick-up.
5. `FrequencyInHz`, twice. The detector keeps the sample before the crossing
   (`Analog.cpp:90-91`) and fires at each sample of the opposite half wave, so that
   the period of a 50 Hz signal is counted as 11 or 1 samples instead of 20. And
   the conversion divides by sixteen once too often: the factor 16 of
   `Analog.cpp:104` cancels that of line 106, whose `>> 4` then cuts a value in Hz.
   The period of 11 would be 90 Hz and is answered as 5; the right period of 20 would
   be answered as 3.
6. `ReportedIsMeasured`. The critical section around the loads of the current is
   commented out (`main.cpp:181`), and the two bytes may be of two measurements.

Seen in the same behaviours, without a run of its own: the level changing at
the tick of the trip, or a recomputation that yields zero, leaves `Counter` zero
with `Time` set, and the next decrement wraps it to 2^32 - 1 ms (49.7 days).

Seen while reading, without a run: `Flag_Trip` is cleared in the tick it was set
whenever the overload lasts, so "only send outsignal once" (`main.cpp:223`) does
not hold and each further trip time sends it again; a refused byte leaves the
head of a packet in the queue, which is sent (`Packet.cpp:91`); the inverse curve
takes the 64th root where the exponent of the curve is 0.02, and trips 28 percent
late at twice the rated current; `nBTrip` is never incremented (`main.cpp:226`);
several functions return a reference to a local (`std::move` of it), which the
models take for its value.

## Proofs

For every set of currents, every curve, every scale of the arithmetic that
`ScaleAssumption` allows, and every ring size from 5 to 256.

`RelayProofs`. The inductive invariant is `RelayInv`: the type invariant with
`CountdownOnlyInOverload`, `CountdownFollowsCurrent` and `FlagOnlyAfterOverload`,
each of which is checked by the run `Relay` as well. None is inductive alone:
that a countdown runs only in an overload needs the level to be tracked, that
the flag is harmless needs that a countdown which ended in an overload resets
it. From it follow `TripNeverSuppressed`, the action properties `NoSpuriousTrip`,
`TripHeld`, and `Refinement`: every step of the handler is a step of `ProtectionRelay` or a stutter.

`FifoProofs` shows about one ring that `Put` and `Get` keep it consistent and
act on `Contents` as append and tail, including the reduction of the index byte
(`PutIndex`, `GetIndex`). `SerialLinkProofs` uses them for `LinkInv`, which is the
type invariant, `FifosOK` and `UnarmedIsOwn` (`UnarmedOwn`); the last is what makes
`NoStrandedBytes` inductive. From `LinkInv`, `RxRefinesQueue` and
`TxRefinesQueue` show that both rings, under both of their users, implement
`ByteQueue`.

`PacketProofs` is about the same link one level up. `DecoderInv` says that the
packet fields are the last bytes heard, as many as the switch has filled
(`FieldsAreLast`); without that, `NoMissedPacket` is not inductive, since nothing
relates the checksum that is compared to the bytes received. From the fields
follows `DecoderRefinesStream`: the switch and the shift implement the sliding
window of `PacketStream`. `PutInv` says that while a packet is put and no byte was
refused, the output ends in what was put of it, whatever the interrupt moved from
ring to line, and gives `AnswersContiguous`.

`FlashStoreProofs` shows first that the chain `Write8`, `Write16`, `Write32` changes
its one byte at any offset (`Phrase8Keeps`), and that the allocations have one outcome
(`FirstAllocation`, `SecondAllocation`). `FlashInv` is the type invariant with `Placed`
(where the variables are), `Quiet` (a command runs only for a write in progress;
without a refusal no error flag is set) and `Underway` (which command is in the
registers, and what the sector holds before and after it). `ProgramsErased` and
the refinement `SettingStored` need `Underway`: without it nothing says that the
sector is blank when the program command is launched. They hold for any settings,
any sectors to start from, and any refusals and power losses.

`FirmwareProofs` proves `AnswersInOrder` of the composition, for every conversation
allowed, any settings and readings, and every ring size up to 256. `FirmwareInv` follows a
request through the system. `Arriving`: behind the bytes decoded come those of
`RxFIFO`, of the receive register and of the PC, and together they are what the PC
sends. `Decoding(n)`: n requests are decoded, and the fields are the head of the
next, so that each fifth byte completes a checksum and the decoder never slides.
`Storing(n)`: what the sector holds, between the commands too, is the last setting
asked for by the first n requests, or blank, and the phrase in the registers is
the one with the new setting. `Answering(n)`: the output is the answers to the requests
before, and the head of the one in `bytes`. None is inductive alone: the setting
answered depends on the sector, the sector on the fields, the fields on the bytes
that came while flash was written, and that no answer byte is refused on the
number of requests decoded. The lemmas of `SerialLinkProofs` are used as they are,
since the link is extended, and those of `FlashStoreProofs` by instance with the
constants of `Firmware` (`StoreAssumed` proves their assumption).

`CriticalSectionsProofs` has two inductive invariants, for every ring size up to
256 and every set of bytes. `LockInv` is about the macros: `SR_reg` is clear, so
is the mask a context has read, the depth is one exactly while a context is
between its increment and its decrement, `FAULTMASK` is set exactly while one is
inside, and the main loop is not inside while the interrupt runs. It gives
`Exclusive` and `MaskExact`. `RingInv` is about the statements: a ring nobody
works on is as the last call left it, and in the middle of a call (`Midway`) it
differs from that by the statements done. It gives `CallsAtomic`, that each call
is the operator of `Fifo`, and with `PutAppends` and `GetRemoves` the refinements
`RxRingIsQueue` and `TxRingIsQueue`. Together they are the reason for the atomic
calls of `SerialLink`. `SectionsTypeCorrect` adds the types: in the middle of a call an
index may have left the ring by one, and the count is within the size throughout
(`MidwayType`).

`MeasurementProofs` starts with the arithmetic. `QuotientIs` and `ProductIs` say that
the divisions and products that `FixPoint` cuts into 32-bit steps are the code's
`(a << 16) / b` and `(a * b) >> 16`, for all natural operands. `RootNotBelow`: whatever
the base (but one, which leaves no guess), six Newton steps end at most one
unit below the root, because the mean of a guess and its quotient is not below the
root; how far above they may end is what TLC looks at. A recursive function
over an interval is handled without an induction scheme: `Induct` takes the least
element outside a set, and `Recursion` gives the function. From these come the types
(`MeasurementTypes`), for every waveform, every set of levels and every counter
width: the window holds its twenty samples at most, and the current, the samples and
the answered frequency keep their 16 bits, also when the period wraps to zero and
divides. `SteepCurvesFall` is the part of `TripTimeFalls` that does not
depend on roots: on the very and the extremely inverse curve the divisor is
positive and the trip time falls, for all 16-bit currents above the threshold.

Model-checked only: the liveness properties (they need fairness and ENABLED, which
are out of the proof system's reach), `TrueRmsInRange`, and `TripTimeFalls` on the
inverse curve. The last two bound how far six Newton steps, or six roots in a row,
end above the root. That depends on the values of each single base, so there is
no argument short of evaluating them; TLC does, for the currents named above.

## Not modelled

- LEDs, register set-up (UART, PIT, clocks), baud-rate arithmetic, generated
  code: no state that a later operation depends on. Most lines of the repository
  are of this kind: the register map `MK70F12.h` (20392 lines of definitions), the
  macros of `PE_Types.h` but the two of the critical sections, `Cpu.c`,
  `Vectors.cpp`, the start-up code and the headers of closed libraries.
- `PIT.cpp` and `PIT.h` are in the middle of a change and do not agree with each
  other; only the ISR, which calls the handler, is used. As written, the first
  tick comes 500 ms after the start, since a new period takes effect at the next
  reload.
- The RTOS and converter libraries: binaries. The RTOS is never started; the
  converter is its Boolean answer.
- `nBTrip` is never written by the code; its readings are a payload.
- The duration of a handler run and of a flash command in ticks: any number of
  ticks may come between two steps of the main loop.

## Plan

All components with behaviour of their own are modelled, and each safety property
of a state machine is proved but `TrueRmsInRange` and `TripTimeFalls` (above). What is
left:

1. How far above the root six Newton steps may end, for the bases that occur: the
   other half of `RootNotBelow`, and what `TrueRmsInRange` needs.
2. The properties that `Firmware` inherits from its parts, as theorems of the
   composition.
