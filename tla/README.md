# Verification of the go-kart real-time controller

TLA+ models of the PC side of the go-kart controller (`src/ROS2`), the TLC
configurations that check them on small instances, and proofs, checked by TLAPS,
of what holds of the packet parser, of the codecs and their checksum, of the driver and
of its threads for every instance.

Paths below leave out the prefixes `src/ROS2/src/tai_gokart_packet` ("packet") and
`src/ROS2/src/tai_gokart_controller` ("controller").

## 1. The system

A PC and a microcontroller (MCU) talk over a serial line. The PC runs one ROS 2
process: a lifecycle node that an operator or a manager takes through configure,
activate, deactivate and so on, and that forwards driving commands. The MCU drives
the vehicle, has a state machine of its own, and stops the vehicle when the PC is
silent. The PC does not own the vehicle's state; it sends requests and believes what
the last heartbeat said.

| Part | State | Operations | Talks to |
|---|---|---|---|
| **GkcPacketFactory** (packet `src/gkc_packet_factory.cpp`) | `_buffer`; the function-static `start_idx` | `Receive` (a chunk of bytes in, packets out to the subscriber), `Send` | called by the receiving thread; calls `packet_callback` |
| **Wire format, codecs** (packet `src/gkc_packets.cpp`) | none | `encode`, `decode`, `publish` of 13 packet classes | the factory |
| **CRC-16** (packet `gkc_packet_utils.hpp`) | a constant table | `calc_crc16` | `encode`, `Receive` |
| **GkcInterface** (controller `src/tai_gokart_interface.cpp`) | `current_state_`, `handshake_number`, `shutdown_number`, `sensors_`, `logs_` | constructor (opens the port, shakes hands, starts the heartbeats) and destructor (closes, joins); requests of the node: `initialize`, `activate`, `deactivate`, `emergency_stop`, `shutdown`, `send_control`; one `packet_callback` per packet | the node's thread calls the requests, the receiving thread the callbacks, with nothing between them |
| **Heartbeat thread** (`stream_heartbeats`) | rolling counter | a heartbeat every 100 ms | sends through SerialInterface |
| **SerialInterface** (controller `src/comm.cpp`) | the port, `running_`, the receiving thread | `open`, `close`, `send` (asynchronous), `recv` (the receiving thread's loop) | the serial driver library |
| **GkcNode** (controller `src/tai_gokart_controller_node.cpp`) | lifecycle state (kept by ROS), the function-static `first_time`, subscription and timer | `on_configure` ... `on_error`, `cmd_callback`, `state_pub_timer_callback` | the interface; ROS 2 |
| **MCU firmware** | its lifecycle state | answers, heartbeats, sensor packets, watchdogs | external: its directory is an empty submodule |
| Config list, version header, messages, launch file, PCB, CI | none | data | not modelled (section 8) |

What is hard in it:

* **Framing.** Packets arrive in chunks cut anywhere, behind noise or the tail of a
  frame, and the parser's scan position survives from one call to the next.
* **Three threads, one interface, no lock.** The executor sends a request, sleeps
  100 ms, and reads a variable the receiving thread writes. The request may be carried
  out earlier, later or never. The threads start before the constructor has ended, and
  the destructor has to get them out of the members it frees.
* **Real time.** Heartbeats against a watchdog, over a line that loses and delays them.
* **Stale belief.** Each request is allowed or refused by the last heartbeat, which is
  `Uninitialized` before the first.
* **Two state machines** (ROS lifecycle, MCU) that are only loosely coupled.
* **Restarts.** A new process finds an MCU, and packets, left by the previous one.
* **Waits without limit**: the loop of `on_error`, the retried handshake.
* **Exceptions** that leave a thread, and one call to a function with no definition.

What makes each part correct: the parser publishes exactly what was sent, in order,
and nothing that was not sent; the checksum detects what noise does; the interface
believes only what the MCU has said; the lifecycle reports only what the vehicle did;
a callback returns; a stop that was asked for happens; a thread has ended before what it
uses is gone; the vehicle stops when, and only when, the PC is gone.

## 2. The modules

```
GkcPackets ── PacketFactory ── PacketStream ─┬─ MCPacketStream ─── GkcCrc16, CrcTable
                                  │          └─ PacketStreamProofs ── PacketChannelProofs
                          PacketChannel (abstract)

GkcCrc16 ─┬─ WireCheck ─┬─ MCWireCheck ─── CrcTable
GkcCodec ─┘             └─ WireProofs ─┬─ CrcProofs ─── GkcCrc16
                                       └─ CodecProofs ─ GkcCodec

SerialPort ── Heartbeats ── InterfaceThreads ─┬─ MCInterfaceThreads
                                  │           └─ InterfaceThreadsProofs
                              DeadMan (abstract)

SerialLink ─┬─ GkcInterface ── GkcNode ─┐
            └─ GkcMcu (external) ───────┴─ GkcSystem ─┬─ MCGkcSystem
                                                      └─ GkcSystemProofs ── PauseProofs
```

Each layer takes the result of the one above for granted. `GkcSystem` has as its line
`SerialLink`, which moves whole packets through a FIFO, which is what `PacketStream` is
shown to implement on a clean line, and drops whole packets, which is what noise does to
it. It takes packets as records, which `WireCheck` shows the codecs to preserve. It lets
the MCU stop a vehicle whose process is gone, which is what `InterfaceThreads` shows of
heartbeats and watchdog. And it takes each callback as one step, which leaves out no
meeting of two threads but those `InterfaceThreads` names, which are real: a torn
access there is in neither model.

### Packets and their parser

* **GkcPackets**: the frame, and `fb_lookup`, each first byte with the number of
  payload bytes its `decode` reads. The checksum is a constant operator `Crc`, so that
  the theorems hold for every checksum; the runs instantiate it with the source's.
* **PacketFactory**: `Receive`. A call appends its chunk (action `Receive`) and then
  goes round the loop at the label `look_for_next_start`; each turn is one action, one
  per branch: `NoStart`, `AwaitHead`/`AwaitBody` (return and wait), `DropMalformed`,
  `DropCorrupt`, `Deliver`, and `Undefined` for the unchecked lookup of an unknown
  first byte and the `decode` of too short a payload. `start_idx` is kept across calls
  as in the code: the scan starts at the front of the buffer but counts on from the old
  value, and `Deliver` resets it before the erase that should use it.
* **PacketStream**: the parser between a sender and the driver. The history variables
  `stream`, `ends`, `sent`, `fed` and `erased` say what was on the line, where frames
  end, and which part of it the buffer stands for. `Garbage` is what the line may carry
  besides frames; `Chunking` is where the driver may cut.
* **PacketChannel**: what the parser promises, a reliable FIFO channel. `PacketStream`
  implements it with the mapping that shows `sent` and `published` as they are.
* **GkcCrc16**: `calc_crc16`. A `uint16_t` is the set of its bits: exclusive or is the
  symmetric difference, `Up` is the shift with its truncation, `High` the shift the other
  way. The table is a parameter, `crc16_tab`, of which `TableAssumption` says that each
  entry is the remainder of its index; **CrcTable** has the source's, with which every run
  that sums instantiates it, so that TLC evaluates the assumption on all 256 entries.
* **GkcCodec**: of each packet class what `encode` allocates and writes and what `decode`
  reads, field by field with the widths; a field's value is the bytes of its object
  representation, as `write_to_buffer` and `read_from_buffer` have it.
* **WireCheck**: one packet's way over the wire. Beside the two calls of `calc_crc16`
  goes the bit-serial division by x^16 + x^12 + x^5 + 1 that the table stands for. A burst
  (`BurstAssumption`) is two bytes wide, or three with no bit wrong in both the first and
  the third, which takes in every burst of up to 16 bits in either order of a byte's bits.

### The threads of the interface

* **SerialPort**: the port, and the receiving thread's place in `SerialInterface::recv`.
* **Heartbeats**: `stream_heartbeats` in discrete time (a turn takes `Interval` to
  `Interval + Jitter`), the line (at most `Latency` late, at most `MaxMissed` losses in a
  row) and, external, the MCU's watchdog with its `Timeout`.
* **InterfaceThreads**: one GkcInterface from constructor to destructor. What
  `GkcInterface` does in a step is here a place the executor stands at while it uses a
  member (`at`); `Reads` and `Writes` say which place of which of the three threads uses which
  member, the unsynchronised port behind `comm_` included (`is_open()` reads it, `open`,
  `close`, `async_send` and `receive` write it), and `Races` is where two of them meet. `answers` is what the MCU owes: it answers
  when it is spoken to, and `stale` says whether it also owes answers to an earlier
  process. `running_` is not a variable: only `~SerialInterface` clears it, and only when it finds the
  port open, which `~GkcInterface` has closed by then. A constructor that throws behind
  `open()` would come there with the port open: `send_handshake` cannot fail at that point,
  since nobody has closed the port, and a thread the system refuses to start (`:40`,
  `comm.cpp:63`) is not modelled, as no exhausted resource is.
* **DeadMan**: what the heartbeats are for. A vehicle that has heard its PC is stopped
  only when the PC is gone, and then always. `InterfaceThreads` implements it with
  `alive <- port`.

### The driver and the vehicle

* **SerialLink**: the packets and the line. Sequence numbers wrap at `SeqMod`, standing
  for 2^32.
* **GkcInterface**: its members, the requests and the callbacks. A callback of the
  receiving thread is one action (it takes no lock and never sleeps). `std::rand` is
  never seeded, so every process draws the same numbers: `Rand` is a fixed sequence.
* **GkcNode**: the lifecycle callbacks on the single executor thread. `callback` says
  which one runs and `at` where it stands; it is split exactly where the code sleeps or
  reads `current_state_` again, so the receiving thread and the MCU run in between.
  What ROS 2 does with a result (`NodeAfter`) is external: an exception from a
  transition callback becomes ERROR and runs `on_error`; `on_shutdown` ends in
  finalized; an exception from a subscription ends the process.
* **GkcMcu**: external, the state machine of the controller's design document
  (`design/gkc_state_machine.png`, `design/README.md`) with the answers the driver
  expects. Everything it does is a choice of the environment: it may take its time,
  fault, be reset, answer in either of the two documented ways.
* **GkcSystem**: all of it together, with whoever asks for transitions, publishes
  commands, interrupts and restarts the process. `seen` is the history of MCU states
  since the process was started.

Where the build decides (undefined behaviour): `release_emergency_stop` is declared and
never defined. The component is a shared library, linked lazily unless told otherwise,
so the process starts and dies at the call; a linker that binds everything at start-up
would not start it at all, which is a shorter version of the same run. The dereference of a null `sensors_`
(`TimerFaults`) ends the process. The unchecked lookup and over-read of the
parser are a state `undefined` in which nothing more is claimed.

## 3. What the runs check

All bounds are named in the modules (`MaxSent`, `MaxGarbage`, `MaxInFlight`, `MaxLost`,
`MaxResets`, `MaxLaunches`).

| Run | What it shows |
|---|---|
| stream_clean | Frames of three kinds (the shortest there is, one whose payload is START_BYTE, one holding START_BYTE and END_BYTE), up to three, cut into chunks anywhere but right behind a frame's first byte: the parser keeps the inductive invariant, publishes everything in order, holds nothing back, and implements `PacketChannel` including its liveness. |
| stream_noisy | Seven kinds of noise before, between and after frames, all cuts: nothing is made up (`NoFabrication`), the buffer is always a window of the line, and undefined behaviour needs a well-formed packet of a newer library. |
| wire | A packet of each of the 13 kinds (and logs of 0, 1 and 253 characters, all versions 0 to 255) from `encode` to `decode`. All 256 table entries, indexed at the first and at later bytes, agree with the division; the two checksums differ by what the burst alone comes to (`SyndromeOfBurst`), so bursts are caught; `encode` fills exactly what it allocates, within a `uint8_t` and long enough for its `decode` in `fb_lookup`; what is decoded is what was encoded. |
| threads | All interleavings of the three threads of one interface, killed at any moment, a device unplugged, a lost and a late heartbeat. Until the members are destroyed, the three threads meet at the port, `logs_`, `sensors_` and `current_state_` (each of them met at in some state) and nowhere else, unless answers to an earlier process come, which add the two numbers; no answer the MCU owes finds a null number; the destructor's join returns, and nothing is freed before the heartbeat thread has ended; heartbeats and watchdog implement `DeadMan`, liveness included. |
| system_live | No losses, no resets, one process; an MCU fresh or left by an earlier process in any state it can be in, with its faults at any moment and the answer to the handshake that the code expects; parameter files that fit or make `on_configure` throw. Each lifecycle callback returns, and the stop that `on_shutdown` or `on_error` asked for happens. A command with `emergency_stop` only ends the process, and yet the vehicle stops. |
| system_lossy | The MCU answers the handshake as the document says, so that it is retried. A lost packet and a reset anywhere: the cached state is a state the MCU really was in, and `on_deactivate`, although it calls `activate`, never sends a vehicle off (`PauseNeverStarts`), because of what is on the two lines and in which order (`PauseInv`). For the same reason a vehicle that has been started and has stopped, whatever stopped it, is not started again by the same process (`StartedOnce`): nobody asks for a pause, `on_shutdown` finalizes and on_cleanup ends the process, so no configuration follows. |
| system_rough | Two processes in a row, the first at an MCU that is not initialized or has stopped, ended at any moment in each way the code has of ending, packets of the first still on the line: the second believes nothing the MCU has not been in its time and reports nothing that did not happen. It checks the whole inductive invariant `SystemInv` of section 5. |

Five runs each show, with a counterexample, code that does not do what a comment, a
message or a document of the repository says. They are under "findings" in PROJECT.json
with the quoted lines:

| Run | What happens |
|---|---|
| stream_lone_start | A chunk that ends right behind START_BYTE has it erased as "no packet start"; the packet is lost. |
| stream_stale_start | After one byte of noise a frame that comes in two chunks is waited for for ever: `start_idx` is counted twice. |
| stream_repeat | Behind noise of a frame's length the erase misses the frame and the packet is published twice. |
| handshake_loops | An MCU that answers the handshake with the complement of its number, as Packet_API.md:45 has it, is never asked for its version: the code expects the number plus one and retries for as long as the numbers drawn are ordinary. (Complement and successor are the same for 2^31 - 1, the largest number `std::rand` may return, and 2^32 - 1.) |
| error_loops | An MCU reset under `on_error` keeps it looping for ever. |

Other disagreements are in the model as the code has them, without a run of their own:

* Shutdown #2 is compared with the handshake's number (`tai_gokart_interface.cpp:315`),
  so a right answer is met by another Shutdown #1 (Packet_API.md:131).
* `on_deactivate` calls `activate` (`tai_gokart_controller_node.cpp:127`), which the cached state of
  a vehicle that is alive makes return false unsent, and "VEHICLE IS PAUSED" (`:128`) is not
  reached. That no request for a pause is ever on the line is a conjunct of `PauseInv`, which is
  checked and proved; that the wrong call at least starts nothing is `PauseNeverStarts`.
* A lost Handshake #1 or #2 is never sent again: with a loss the handshake stays open, whatever
  the MCU answers.
* A shutdown that the cached state forbids (Uninitialized, before the first heartbeat or after
  a reset, or Initializing) sends nothing: `on_shutdown` then says
  "It should now go to emergency mode" (`tai_gokart_controller_node.cpp:160`), and design/README.md:19
  has every shutdown end there. An MCU that is initializing goes on to Inactive instead.
  `ShutdownEndsInEmergency` begins behind that refusal.
* An emergency-stop command throws from a subscription callback, which no lifecycle
  transition catches: the process ends. design/README.md:17 directs all emergency-stop
  requests to the error state, and :19 has only a fatal error or the user end the node.
  What the vehicle sees is `EstopStopsVehicle`: it is stopped by silence.
* `close()` is documented as "Close the interface and release resources"
  (`comm.hpp:108`); it leaves the receiving thread running, which may be in a callback
  while the destructor frees the numbers, the sensors and the factory (`Freeing` places, of
  which `RacesConfined` says nothing; the model lets the receiving thread go on there). `~SerialInterface` then finds the port closed, does not
  join, and the destruction of a joinable thread is `std::terminate` (`FreesComm`): every
  normal destruction of an open interface ends the process this way.
* The port, `logs_`, `sensors_` and `current_state_` are data races while the object lives: the
  executor and the heartbeat thread send, and the destructor closes, while the receiving
  thread is in `receive` or sends from a callback, and the driver's port has no lock in this
  repository; a reference `get_sensors` has handed out may be to an object just replaced.
* `async_send` gets a buffer that its caller frees (`comm.cpp:89`).
* HEARTBEAT_INTERVAL_MS and the shipped `comm_timeout_ms` are both 100: `Timely`, the
  condition of `NoFalseAlarm`, needs more than 100 even without jitter or loss.
* Packet_API.md's sections and its reference table disagree on the payload of the Heartbeat
  (3 and 2 bytes) and the Sensor packet (48 and 22); `GkcCodec` has what the code has, 3 and 48.
* The exception for a version mismatch is built and not thrown (`:259`).
* An MCU that initializes within the 100 ms of `initialize` is reported as failed (`:83`).
* A transition carried out after the 100 ms of `try_change_state` (`:177`) leaves, for
  example, a live vehicle behind an inactive node.
* `on_shutdown` ends in finalized; design/README.md:19 has it directed to unconfigured.
* `release_emergency_stop`, which on_configure and on_cleanup call, has no definition.

### Bounds

Two or three frames suffice for the parser: `start_idx` and the buffer carry over only
from one frame to the next, and a third frame shows what the second left behind; the
theorems of section 5 drop the bound where the line is clean and for `TypeOK`,
`BufferIsWindow` and `NoFabrication` everywhere. One piece of noise is enough to leave
`start_idx` off the front. `SeqMod = 8` with
the numbers 2 and 7: an ordinary one, whose complement is a wrong answer, and one whose
successor wraps; `handshake_loops` has two ordinary ones. `MaxInFlight = 2` bounds what the executor and the MCU's telemetry
put on the line on their own; answers are never refused. With two packets under way a
heartbeat can be overtaken by a change of state, which is the staleness that matters;
bursts longer than that only repeat it. One loss, one reset and two processes are the
single faults the code has to survive; a loss and a reset combine in `system_lossy`,
a reset and a restart in `system_rough`.

`wire` hits payloads of up to five bytes with errors (`MaxHit`), at each place and with
bursts inside a byte and across two and three, one of them wider than 16 bits; longer
payloads arrive intact, which is enough for the codecs. The theorems of section 5 hold
at every size, for every packet and every burst within `BurstAssumption`. `threads` has an interval of 2 with a jitter of 1, so that
the phase of the loop against the watchdog varies, a latency of 1, so that a heartbeat
can be on its way when its sender dies, and one loss in a row. `Timeout` is 8, the
smallest that is `Timely` there, and the bound is exact: with 7 the watchdog stops the
vehicle of an open interface. The theorems of section 5 drop all five values.

### Fairness

* Parser: `Arrive` and `Parse`. The receiving thread loops with a 5 ms sleep and the
  driver delivers what has arrived. The sender need not send.
* System: weak fairness of the executor, the receiving thread, and the MCU's reading,
  initializing, and watchdog on a dead PC; strong fairness of the MCU's heartbeat, since
  sensor packets compete with it for the bounded line and a real MCU sends both by timers. No fairness for
  faults, losses, resets, requests, commands or the user. `on_configure`'s wait ends by
  its limit of 60 s (`OnConfigureTimeout`), so `CallbacksReturn` assumes a running clock
  (not a paused simulated one).
* Threads: weak fairness of the constructor, the destructor, the heartbeat thread, the
  line, the watchdog and time. None for the receiving thread, which may sit in a
  `receive()` that never returns, nor for requests, a signal or the destructor's beginning.
* Deadlock is not checked: a sender may stop sending, a bounded line ends, a node may be
  left alone or finalized.

## 4. Correspondence and abstractions

PROJECT.json maps each definition to its lines. What is left out of the lifecycle model
(GkcSystem): logs and `dump_logs` (they change nothing else), values of sensor and control
packets, the packets whose callbacks are empty, the PC's heartbeats (what their absence
does is `SilenceStops`, and since their interval equals the configured timeout, `McuFault`
lets the watchdog fire on a running PC as well), and `is_open()` tests, which cannot fail
while the object lives because only the destructor closes the port. Accesses are atomic
there.

InterfaceThreads has the accesses apart and the values left out: a wrong number is a
choice (`Owed`), `std::rand` is not drawn, a log is not counted. It says where threads
meet, not what a torn access yields. Its executor makes one shutdown per process, since a
node that has been shut down is finalized. After a race in `Freeing` nothing more
than the process's end is modelled.

GkcCodec takes both ends as little-endian with packed structs, as both boards are; what
`encode` would write past its payload is lost, and `EncodeFits` says there is nothing.

## 5. What is proved

By TLAPS, for every set of payloads, every garbage, every checksum function, every
number of frames and every way to cut the chunks:

* `TypeCorrect`, `BufferWindow` (PacketStreamProofs): the inductive invariant is
  `TypeOK /\ BufferIsWindow`. Neither half is inductive alone: that an erase takes no
  more than was fed (`erased \in 0..fed`) needs the length of the buffer, which
  `BufferIsWindow` gives. The lemma behind both, `LookErasesPrefix`, is that every
  branch, however wrong its `start_idx`, erases a prefix.
* `NothingFabricated`: at the moment of publication the payload is a segment of the
  buffer with its size before it and its checksum and END_BYTE behind it, the buffer is
  a segment of the stream, and the stream only grows.
* `UndefinedIsForeign`: the same argument at the step `Undefined`. Noise alone cannot make
  the parser look up a kind it does not know: it takes a packet with a good checksum.

And on a clean line (`CleanLine`: no garbage, known kinds of packets, no chunk that ends
right behind a frame's first byte):

* `CleanInvariant`: `CleanInv` is inductive. `PublishedInOrder` alone is not: one has to
  know that the buffer starts at a frame (`erased = EndOf(ends, Len(published))`), that
  the stream is nothing but frames (`FramesOnly`), that the scan starts at 0, and that
  a wait leaves either nothing or at least two bytes. The lemma `CleanScan` derives
  from these that the parser's candidate is the next frame sent, whole.
* `InOrder`, `NothingLeft`, `Bounded`: its consequences.
* `ImplementsChannel`: the safety half of the refinement of `PacketChannel`.

Of a packet's way over the wire (WireProofs, with the lemmas of CrcProofs and
CodecProofs), for every set of well-formed packets, payloads of every size a packet has,
every burst within `BurstAssumption` at every place, and every table within
`TableAssumption`:

* `StepIsDivision`: one turn of the loop with its table is eight steps of the division.
  The division is linear in exclusive or (`ShiftBitLinear`), a word is its high byte and
  its low one (`WordParts`), dividing the low byte only shifts it (`Shift8Low`), and
  dividing the high one is what the table has.
* `WireInvariant`: `WireInv` is inductive. That a burst is caught speaks of the last byte
  only and is not; what the difference of the two checksums is after each byte is
  (`SyndromeOfBurst`). By linearity (`DivideDifference`) it does not depend on the payload:
  nothing before the burst, then what the burst's bytes come to, and behind the burst it
  cannot vanish, since a step of the division loses nothing. That it has not vanished
  right behind the burst is `BurstShows`: the third byte would have to cancel the low byte
  of what the first came to, and followed bit by bit this leaves the first byte right.
* `TableAlwaysDivides`, `SyndromeAlways`, `BurstsAlwaysCaught`: its consequences.
* `DecodeOfEncode`: `encode` fills what it allocates, in 1 to 255 bytes, and `decode` of it
  is the packet. The tables of the codecs are read once, kind by kind (`Layout`): no two
  kinds have a first byte in common, no field comes twice, a log's text is last. From there on
  the proof is about pieces of a sequence found by the lengths before them (`Slices`).
* `RoundTripAlways`, `EncodeAlwaysFits`: its consequences for the specification, with the
  factory's table of sizes (`KindsKnown`).

Of the driver and the vehicle (GkcSystemProofs), for every length of the line, every
number of losses, resets and processes, whatever is asked for and drawn, and either way
the MCU may answer:

* `SystemInvariant`: `SystemInv` is inductive. `LifecycleFollowsVehicle` says what ROS
  holds against what the vehicle did; the node knows the vehicle only by
  `current_state_`, so it rests on `CachedStateIsReal`. That one in turn covers the
  heartbeats still on the line, and a heartbeat is sent with the state the MCU is in,
  which `ProcessAndHistory` puts into the history. A process that ended must have left
  no heartbeat behind (`ProcessAndHistory`), or the next one would believe it; and
  `on_activate` must have begun in inactive (`CallbackFitsNode`), since its success says
  nothing of how the node got there. `AtKnownPlace` in `TypeOK` tells which callback a
  sleep belongs to.
* `SystemTypeCorrect`, `CachedStateReal`, `LifecycleHonest`: its consequences.

The proof goes by what each kind of step can disturb: lemmas say what the executor, the
receiving thread, the MCU and the end of a process leave alone, and one lemma per
disjunct of `Next` shows that the invariant is kept.

Of one process that finds a vehicle that is not active (PauseProofs; `MaxLaunches <= 1`,
`"Active" \notin McuStart`), for all the rest of the constants:

* `PauseInvariant`, `PauseStartsNothing`: `SystemInv /\ PauseInv /\ PauseNeverStarts` is
  inductive. `on_deactivate` calls `activate`, which sends its request if the cached state is
  Inactive; the node is active then, so what has to be known is that a vehicle once
  Active is not seen Inactive again. It could get there by a request to pause, which the driver
  never sends, or by a configuration handled after the start: none is behind the
  request to start on the line to the MCU, because the node is then no longer
  unconfigured and does not become so again (`on_error` is only run from there). And an
  old heartbeat cannot bring the Inactive back, because none is behind an Active one on the
  line from the MCU. Both orders survive losses, which the lemmas about lines
  (`LineAppend`, `LineTail`) show. With two processes the configuration of the first may
  still be on the line when the second starts, and the argument fails at that point.
* `NeverStartedTwice`: the action property `StartedOnce`, from the same invariant. A start is
  from Inactive (`StartIs`, by what each kind of step does to the vehicle), and the vehicle of
  a process that has started it is never Inactive again.

Of the threads (InterfaceThreadsProofs), for every interval, jitter, latency, number of
losses and timeout that `HeartbeatAssumption` allows:

* `ThreadInvariant`: `ThreadInv` is inductive. Its core is `Clock`: while the port is
  open, what the watchdog has counted is at most a period for each heartbeat lost since
  one arrived, one more if one is on its way, and the age of the last one sent. `NoFalseAlarm`
  says nothing of this and is not inductive. `KnownPlace` tells from where the executor
  stands which threads exist and which numbers are set; `Awaited` says that each answer
  owed has its number, which is why a callback finds it.
* `NoneFalse`, `HeartbeatJoined`, `AnswersExpected`, `ThreadsTypeCorrect`:
  its consequences. `NoneFalse` has `Timely` as its condition, `AnswersExpected` that no answer of an
  earlier process is under way.
* `RacesKnown`: no two of the three threads are at anything but the port, the log queue,
  the sensors and the cached state, as long as there are members; when answers of an earlier process are under
  way, the numbers are excepted too. That the pointers are safe is a matter of `KnownPlace` (they
  are written before there is another thread); that the numbers are is a matter of `Awaited`
  (the callback that needs a number runs only when the number has been kept).
* `ImplementsDeadMan`: the safety half of the refinement, for a `Timely` timeout.

Assumptions: those in the modules (`PayloadsAssumption`: payloads of 1 to 255 bytes and
two-byte checksums; `GarbageAssumption`, `ChunkingAssumption`, `BoundsAssumption`; for the
wire `TableAssumption`, `PacketsAssumption` (each value has its field's size, a log at most
the 253 characters of Packet_API.md), `BurstAssumption`, `MaxHitAssumption`; for the system
`LinkAssumption`, `RandAssumption`, `OverridesAssumption`, `McuAssumption`,
`SystemAssumption`; for the threads `HeartbeatAssumption`); TLC evaluates them in each run.

## 6. What is only model-checked

Liveness (`ReceiveReturns`, `JoinReturns`, the fair halves of `ChannelSpec` and
`DeadManSpec`, everything about callbacks that return and stops that arrive), which is
beyond the prover. That the recursive `calc_crc16` of a whole payload is where
`WireCheck`'s turns of the loop end: `PacketStream`'s runs use the one, the proofs speak of
the other, and both are made of the same `Step`; induction over a payload is beyond the
prover as well.

## 7. Plan

1. Done: parser, its line, the abstract channel, proofs; CRC and codecs, proofs; interface, node,
   MCU and the system of them; threads, heartbeats, the abstract dead man's switch, proofs;
   `PauseNeverStarts` and `StartedOnce`, which need the order of packets on both lines, as
   theorems.
2. Open: a constructor that throws behind `open()` because a thread cannot be started, with the
   join of the receiving thread in `~SerialInterface` that it alone would come to.

## 8. Not modelled

The configuration list's conversions (a map read once; what a missing entry does is
`CommFails`), the abstract subscriber class, messages, launch and parameter files (data;
the timeouts they set are discussed above), PCB designs, CI. The serial driver library and
ROS 2 appear only by what the code relies on; the buffer a pending `async_send` still
reads is inside that library, and a frame torn by it is a lost packet.

## 9. Running

`tlc -config SystemLive.cfg MCGkcSystem` and likewise for the other configurations
(PROJECT.json lists module and file of each run); `tlapm M.tla` for each of
PacketStreamProofs, PacketChannelProofs, CrcProofs, CodecProofs, WireProofs,
GkcSystemProofs, PauseProofs and InterfaceThreadsProofs for the proofs. The largest run, SystemRough, has 2.5 million states and takes about a
minute on four workers.
