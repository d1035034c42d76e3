# TLA+ specification of PSICOSE

PSICOSE is a `no_std`, allocation-free Rust crate for reliable transfer of bytes
over a serial line. Everything rests on one small frame, `TYPE | SEQ | DATA | CRC`
(four bytes), and on state machines that are *polled*: one call of `poll` moves
at most one byte each way and returns. This directory specifies those state
machines in TLA+, model-checks them with TLC and proves the central properties
of the two links, of the pump, of the turn, of the loops around them, of the peer table and of the fragment
stream with TLAPS.

## 1. Inventory

| Component | State it keeps | Operations | What makes it correct |
|---|---|---|---|
| Frame codec, `Sequence`, `OutBuf`, `FrameAssembler` (`protocol/`) | bytes of a frame being written or read; a `u8` that wraps | encode, decode with CRC-8, advance/previous, push byte | a damaged frame is rejected; the wrap is invisible |
| Stop-and-wait `Sender` (`tx.rs`) | next SEQ, `TxState`, the frame in flight with its retry budget and its empty ticks, the frame being written | `offer_start`, `offer`, `offer_finish`, `offer_abort`, `force_abort`, `poll` | every flight ends; "acked" and "done" tell the truth |
| Stop-and-wait `Receiver` (`rx.rs`) | expected SEQ, reply being written and the action it carries, `finish_seq`, `abort_latched`, assembler | `poll` and its handlers for DATA, START, FINISH, ABORT and undecodable input | in order, at most once; closing is final and complete |
| `FaultyTransport` (`fault.rs`) | frame being forwarded, delay, drop and corrupt pattern | drop, corrupt, delay a frame | (it is the environment) |
| `Pump` (`pump.rs`) | a sender and a receiver on one transport, the `Completed` it still owes | `poll`, `send_all_budgeted` | no outcome of either half is lost |
| `Turn`, `WindowTurn` (`transport/turn.rs`) | who speaks, the payload queue, START/FINISH still to be offered | `push`, `poll`, `abort` | one speaker; the turn comes back |
| `LinkFace` (`transport/face.rs`), `HalfDuplex` (`half.rs`) | two rings, control and payload; the frame that had no room; a stage of one frame | sort the shared input into the rings; `FaceTx`/`FaceRx` read and write | no frame is lost or misrouted when something is full; a lost byte costs little |
| `PageLink` (`transport/page.rs`) | phase, bytes of the page, status byte | `push_page`, `ack`, `poll` | pages arrive whole and are answered one by one |
| Selective-repeat window (`window/`) | slots with retries and ticks; reorder buffer | the calls of `Sender` and `Receiver`, `set_window_limit` | as stop-and-wait, with several frames in flight |
| Blocking streams, `IdleBudget` (`stream.rs`, `timeout.rs`) | what is left of the source, the sink, idle count | `send_all`, `recv_all`, ... | Ok means end to end; every call returns |
| Actors (`actors/`) | slots, cursor, live count | `spawn`, `tick` round robin | no actor starves |
| Peer sessions (`p2p/session.rs`, `link.rs`, `node.rs`, `drive.rs`) | hello each way, negotiated configuration, session state | `connect`, `accept`, `poll`, `abort`, `establish` | both ends agree, and both know it |
| `DuplexWire` (`p2p/duplex.rs`) | two lanes, each a wire, two rings and a held frame | ports of the two ends | as `LinkFace` |
| Peer table (`p2p/table.rs`) | fixed array of sessions | `connect`, `accept`, `finish_connect`, `store`, `remove` | no neighbour twice; table and links agree |
| Fragment stream (`p2p/stream.rs`) | message being cut or rebuilt, fragment counters | `next_fragment`, `push`, `reset`, `send_message` | a message arrives whole or not at all |

**How they interact.** `Sender` and `Receiver` never call each other; they share
the line. A `Pump` owns one of each and polls the receiver before the sender; a
`Turn` drives a pump over a `LinkFace`; streams and actors poll them in loops; the
peer layer puts typed messages on top. All of it is single-threaded per device.
The concurrency is between the two devices, and between the two halves that
share an output.

**What is hard.** Retransmissions and late answers (a reply to one attempt met
by the next flight), the wrap of SEQ, frames of an old session met by a new one,
aborts in the middle of a write, the two halves of a device interleaving on one
output, a FINISH whose ACK is lost, loops that stop polling while the other side still waits,
two copies of one session (link and table), and bytes whose meaning depends on a count. `PROJECT.json` lists these hazards line by
line, with the properties aimed at each, or a note where the code falls short and a property states it as an exception.

## 2. Plan

The model is built, from the bottom up; what is left is proof.

1. **Stop-and-wait link.** `Frames`, `Sender`, `Receiver`, composed in
   `StopWait`; the service it offers in `ByteStream`; inductive invariant and
   proofs. It comes first because every other component is built on it or repeats it.
2. **Pump and turn.** `Pump` (event priority, the owed `Completed`) on the
   records of `Sender` and `Receiver`; `PumpPair`, two pumps on crossed wires with
   callers that poll by hand or run `send_all`; `Turn`, two pumps that share
   one line each way through a `LinkFace` and take turns on it.
3. **Selective repeat.** `WindowSender`, `WindowReceiver`, `Window`: a second
   implementation of `ByteStream`; `WindowPump` for what is built on it.
4. **Bytes and pages.** `Demux`: the bytes below the frames, with full wires, rings and stages;
   `Page`: `PageLink` over `WindowTurn` over `WindowPump`.
5. **Callers.** `Callers`: the loops of `stream.rs` and `actors/`, that is when a link is
   polled and when no more.
6. **Peers.** `PeerSession`, `PeerTable`, `PeerLink`; composed in `Handshake` (two nodes, one lossy line)
   and in `Node` (one node, several wires); `Fragments`.

What stays with TLC, and why, ends section 5; agreement of two peers (`Handshake`) is the theorem
most worth adding, on top of an invariant of `WindowPump` like the one of `Turn`.

## 3. Modules

| Module | Models |
|---|---|
| `Frames` | `protocol/frame.rs`, `protocol/sequence.rs`: frame, SEQ arithmetic |
| `Sender` | `tx.rs`: the record of a sender, one operator per operation |
| `Receiver` | `rx.rs`: the record of a receiver, one operator per handler |
| `StopWait` | sender, receiver, two wires, the application: actions and properties |
| `ByteStream` | abstract specification of a session |
| `StopWaitInv` | the inductive invariant `IInv` |
| `MC_StopWait` | model-checking entry point for `link_*.cfg` |
| `HalvesProofs` | lemmas on SEQ arithmetic, on `Append`/`Tail` and on least elements; on every operation of `Sender`, `Receiver` and `Pump`: types and fields |
| `StopWaitSafety` | type correctness; `IInv` is invariant; order, completeness, acknowledgement and the refinement of `ByteStream` follow |
| `Pump` | `pump.rs`: one poll of a sender and a receiver and the event it reports |
| `PumpPair` | two pumps on crossed wires, `Pump::poll` by hand and `send_all` |
| `PumpProofs` | no byte and no end of a session is lost between `Pump::poll` and its caller |
| `Turn` | `transport/turn.rs` over `transport/face.rs`: two peers taking turns |
| `TurnInv` | the inductive invariant `TurnInv`, and `TurnTaking`, what it assumes of line and timeout |
| `TurnProofs` | `TurnInv` is invariant; one speaker, a turn that is never lost, delivery and yielding follow |
| `WindowFrames` | `window/mod.rs`: window length, distance of two SEQ values |
| `WindowSender` | `window/tx.rs`: the record of a windowed sender, one operator per operation |
| `WindowReceiver` | `window/rx.rs`: reorder buffer and delivery, on the record of `Receiver` |
| `Window` | windowed sender and receiver, two wires, the application: actions and properties |
| `WindowInv` | the inductive invariant `WInv` |
| `WindowSafety` | lemmas on every operation of the windowed sender and receiver, type correctness; `WInv` is invariant; order, completeness, acknowledgement and the refinement of `ByteStream` follow |
| `WindowPump` | `pump.rs`: `WindowedPump`, one poll and its event |
| `Page` | `transport/page.rs` over `WindowTurn`: pages and status bytes between two peers |
| `Demux` | `protocol/outbuf.rs`, `assembler.rs`, `transport/half.rs`, `face.rs`, `p2p/duplex.rs`: bytes from writer to readers |
| `Callers` | `stream.rs`, `timeout.rs`, `actors/`: blocking loops and the scheduler over stop-and-wait links |
| `CallersInv` | the inductive invariant `CallersInv` of the loops and the scheduler, and `RetryInv` on the retries |
| `CallersProofs` | `CallersInv` is invariant; the scheduler is a round robin, Ok of a loop is end to end, and retries ride out the faults |
| `PeerSession` | `p2p/session.rs`: hello, negotiation, life cycle |
| `PeerTable` | `p2p/table.rs`: the directory of neighbours |
| `PeerLink` | `p2p/link.rs`: one live neighbour |
| `Handshake`, `MC_Handshake` | two nodes and a lossy line: `Node::connect`, `Node::accept`, `establish` |
| `Node`, `MC_Node` | one node, its table and several links |
| `NodeProofs` | the table lists no neighbour twice and mirrors its links |
| `Fragments` | `p2p/stream.rs`, `send_message` of `drive.rs` |
| `FragmentsProofs` | a message that is sent is rebuilt, and never mixed with another |

### State of the link

| TLA+ | Code |
|---|---|
| `tx.seq`, `tx.state`, `tx.flight` | `Sender.seq`, `.state`, `.inflight` |
| `tx.writing` | `Sender.out` holds a partly written frame |
| `rx.expected`, `.finish_seq`, `.abort_latched` | the fields of the same name |
| `rx.action`, `rx.reply` | `Receiver.pending` and the control frame in `Receiver.out` |
| `rx.filled` | bytes of an unfinished frame in the receiver's `FrameAssembler` |
| `fwd`, `back` | the line, one FIFO of frames per direction |
| `sess`, `sent`, `acked`, `delivered` | history: what the application offered and what the two `poll`s reported |
| `faults`, `aborts` | counters for the bounds |

### Actions of the link

`AppStart`, `AppOffer`, `AppFinish`, `AppAbort` are the calls of the same name of
`Sender` (guards: their error returns). `PeerAbort` is an ABORT the peer's own sender
puts on the line. `TxBeginWrite`, `TxEndWrite`, `TxRead`, `TxEmptyRead` are the branches
of `Sender::poll`, `RxRead` and `RxReply` those of `Receiver::poll`.

A poll moves one byte. A frame counts once its fourth byte is written or read,
so the bytes in between are left out, except for what they can be seen by: a
sender in the middle of a write refuses `offer_start`, and an abort then leaves
one to three bytes of a torn frame on the line. The receiver cuts its input every
four bytes and never resynchronises, so behind a torn frame nothing decodes
(`TakeFrame`).

A payload byte is the pair (session, position), so any loss, repetition or
exchange of bytes is visible. Control frames carry the same pair as a history
field that no handler reads. The CRC is abstracted: a frame that was hit does not
decode. A corruption that CRC-8 misses is outside the model.

The line drops or corrupts a frame as it is written, delays it for any time, and
neither reorders nor duplicates (it is a byte line; `FaultyTransport` does just
that).

### Pump and turn

`Pump` is a record of the two halves, `tx_done_seen` and `pending_completed`. One
`Pump::poll` is one step in which each half may do something: `rs` names what the
receiver completes (`read` a frame, `reply` written) and `ts` what the sender does
(`begin` or `end` a write, `read` a control frame, `tick`); `none` is a byte in
the middle of a frame. So the case the event priority is about, both
halves reaching an outcome in the same call, is a step of the model. `BothPolled`
is `rx.poll`, the cancellation of the sender by a peer's ABORT, `tx.poll` and the
event; `Polled` adds the poll that only pays an owed `Completed`. `last_acked` is
returned, since `send_all` reads it right after the poll and nobody else does.

`PumpPair` gives each pump a caller. A peer in `Talking` calls `offer_start`, `offer`,
`offer_finish` and `abort` as it pleases between polls; one in `Blocking` runs
`send_all_budgeted`, whose action `SendAllTurn` is one turn of the loop: offer, poll, react. The
idle budget may trip in any poll without `Sent` or `Received`. `out` records what the
receiver delivered (and ACKed), `got` and `told` what the caller was given. `due` holds the ends of sessions it has yet to be told, each with its
direction and session: the ACK of the own FINISH is read (`OwnEnds`), the ACK of the peer's FINISH or ABORT is written (`PeerEnds`). An event removes what it speaks
of (`Tells`); `spurious` is set by a `Completed` that removes nothing.

`Turn` has the fields of the struct of that name (`buf` stands for `buf` and
`len`), the two rings of each face and a line that joins them. `Poll` is `drive_tx`, one
`Pump::poll` and the reaction to its event; `Push` and `Abort` are the other two
calls. The face sorts frames into `ctl` and `pay` (`ForSender`, `ForReceiver`) as they are sent: it
does so whenever either half reads, before anything is taken from a ring, so when exactly cannot be seen.
The rings do not fill up (`Demux` has that). Three things about bytes survive the
abstraction:

* a frame that a reply cuts into, or that an abort tears, puts the peer's
  assembler out of step (`garbled`); frames are then rejected until it
  meets a boundary, after one frame or several;
* both halves move a byte in every poll, so a frame the sender was
  reading or writing when a reply was loaded is done when the reply is (`behind`, `InStep`);
* a corrupted frame keeps its place and arrives as one frame that does not
  decode. (If TYPE is hit the face hands it to the receiver, which NACKs it as
  it would any other.)

### Window

`Window` has the wires, the application and the history of `StopWait`; only the two
halves differ. The sender is an array of slots, each with its own retries and ticks,
the runtime `limit`, and `writing`, the slot whose frame is partly written. Slots are
scanned in the order of the array, as the code does, by `OldestUnacked` too.
Unlike the stop-and-wait sender, one without a flight goes on reading, so old ACKs do
not wait for the next session. The receiver adds to the record of `Receiver` the reorder buffer `buf` and
the bytes in order that are handed out one per poll, `emit`; START, FINISH, ABORT and
undecodable input are handled by the operators of `Receiver` with the window cleared.
`TxLimit` and `RxLimit` are `set_window_limit` at either end, with any value, equal or not.
Frames are atomic as in `StopWait`: that `finish_write` resets the assembler while the
first bytes of an ACK are in it (`window/tx.rs:333`) is not modelled. `WindowPump` is to `Window` what
`Pump` is to `StopWait`; `rs = "emit"` is the poll that hands out a byte already in order.

### Pages

`turn[p]` and `page[p]` have the fields of `WindowTurn` and `PageLink`. `Poll` is the whole call: `drive_tx` with its loop
(`FillWindow`), `WindowedPump::poll`, the turn's reaction (`WOnEvent`) and the page's (`Take`). `PushPage` and `AckPage` are
the caller's; a page may be longer than the queue. The history has the pages pushed, those told by `PageClosed` and the statuses.

### Bytes

`Demux` is the only module with bytes. A byte is known by its frame, its place in it and whether it could be read as a frame type.
`WriteByte` is `pump_out` through the stage of `HalfDuplex`, if there is one, into a wire of bounded length; `ReadByte` is
`read_byte` of one half: `ingest` with its loop, the pop, and the reader's own assembler. `Cut` is an abort in the middle of a frame.
`LinkFace` and the lanes of `DuplexWire` are the same code twice and one model.

### Callers

`host` chooses who polls the receiver: `recv_all` with its `IdleBudget` and `SliceSink`, a `System` of `RxActor`s, or an
application by hand. The sender is polled by `send_all` until it returns, then perhaps by one `send_abort`. The link itself is
the operators of `Sender` and `Receiver`. One poll moves a frame here, so `IdleLimit` counts frame times.

### Peers

The hello is two bytes here, identity and configuration, of twelve; that is enough for a hello to arrive in parts and for parts of two hellos
to mix. `Handshake` has two `PeerLink`s over `WindowPump`s and crossed wires that lose and damage frames; hello bytes and payload bytes
travel alike, and `sess` of a byte (0 hello, 1 payload) is history that no handler reads. In `Node` the wires are perfect and the pump below
a link is replaced by what it may report (`PumpReports`); the table, the links' copies of the sessions and the
application's `connect`, `accept`, `abort`, `remove` and drop are what the module is about. `spoilt` marks slots that a link wrote into
after the application had removed its own.

### Fragments

Numbers below `Radix` are bytes, so header bytes can be taken for payload; a `u16` has `Radix^2` values. `Push` is `Defragmenter::push` with its
two helpers. The link below delivers in order and loses only what is under way when `send_message` gives up, or delivers it later.

## 4. Runs

Constants not named are the small obvious ones in the cfg.

| Run | Checks | Instance |
|---|---|---|
| `link_restart` | `TypeOK`, `InOrder`, `CloseIsComplete`, `AckedLead`, `IInv`, `ClosedIsQuiet`, `ImplementsByteStream`, `FlightResolves` (liveness) | 4 bytes, SEQ of 3 values, 2 calls of `offer_start`, an abort by either side, 2 faults, timeouts at any time |
| `link_stale_ack` | violates `DoneMeansDelivered` | a session opened over the remains of a failed one |
| `pump` | `SwallowedIsReported`, `EndTold`, `SendAllDrains` (action property) | `send_all` against a peer that sends, aborts and restarts by hand; a fault |
| `turn_alternates` | `NoTalkOver`, `SomeoneSpeaks`, `YieldedIsReceived`, `YieldsForOwnFinish` (action property), `TurnIsPassed` (liveness) | 3 bytes each over queues of 2, two hits on DATA, START or FINISH, an abort |
| `turn_lost_ack` | violates `SomeoneSpeaks` | one ACK hit |
| `window` | `TypeOK`, `InOrder`, `CloseIsComplete`, `AckedIsHeld`, `ImplementsByteStream`, `SlotResolves` (liveness) | 7 bytes, window of 2, SEQ of 6 values, a second session, 2 faults or an abort, timeouts at any time, limits lowered |
| `handshake` | `Agree`, `WindowFits`, `PayloadIsPayload`, `HellosCross` (liveness) | two offers that differ in window, version and features, a payload byte each, a fault or an abort |
| `node` | `OneSlotPerPeer`, `SlotMirrorsLink` | table of 2, two wires to one neighbour, 3 links opened, a restart; wires are symmetric |
| `page` | `NoTalkOver`, `PagesMatch`, `PageIsAnswered` (liveness) | 3 pages of up to 3 bytes over a window of 2, 2 faults |
| `bytes` | `OwnFramesInOrder`, `LossIsLocal`, `EveryFrameIsRead` (liveness) | 3 frames, a wire of 6 bytes, rings of one frame, a byte lost or changed or a frame cut, with and without stage |
| `callers` | `EndToEnd`, `GivesUpOnlyIf`, `NoActorStarves`, `EveryCallReturns` (liveness) | 2 links, 3 slots, up to 2 bytes, sinks of 1 and 2, a fault |
| `fragments` | `Rebuilt`, `NeverMixed` | bodies of 0, 2, 10 and 11 bytes, chunks of 1 and 2, buffer of 10, counter of 9 values, 2 messages |

**What the passing runs show.** Under any pattern of loss, corruption and delay
within the bound, and with timeouts that fire while the answer is still on its
way, bytes come out in order and at most once; a session that is done has
delivered everything; a closed receiver stays closed until the next START; each
flight ends.

A pump that merges two outcomes into one event loses no byte of a caller that polls by hand, until it reports an error or an abort. Every end of every session, the
own and the peer's, is told (`EndTold`): in its own poll, or in the next one when `Completed` gave way to a byte. Only the peer's FINISH may be covered by the error or abort *of the same
poll*, and its ABORT by the error; what was told of an earlier session never stands for a later one, and no `Completed` is given for nothing. `send_all`
returns Ok only when everything was delivered, or when the peer's own FINISH was what it met. Two peers that take turns keep
to one speaker, hand every byte over in order, though DATA, START and FINISH are hit and sent again, and pass the turn on for as long
as ACKs get through and nobody aborts; an abort changes no turn, but see below. (As ACKs get through, no frame is repeated that was taken; duplicates are `link_restart`'s matter.)

With a window the same holds: order, at-most-once and completeness survive ACKs that
arrive out of order, frames late by a whole window and limits that differ at the two
ends (a sender with the wider limit may run out of retries, never deliver wrongly).
An ACKed byte, of which the sender keeps no copy, is delivered or in the reorder
buffer; no slot starves although the array is not scanned by age.

`Callers` adds the end of polling. Ok of `send_all` or of `recv_all` is end to end, also with a sink that refuses a byte already ACKed. With a timeout
longer than the round trip as many hits as retries never exhaust a budget while the receiver is polled; `send_all` runs out only because `recv_all` gave up, or because
it or the actor returned with FINISH and the ACK of that was hit.

Two nodes agree on the configuration, hello and payload are told apart, and no send window outgrows the window it faces, though each end raises its
own when it likes. A neighbour is listed once however often it connects. Pages and statuses pair up. Each reader gets its own frames through full rings; a lost byte
costs at most two frames. Messages are rebuilt at every boundary length.

**What the violations show.**

* `link_stale_ack`: an ACK is matched by SEQ alone and a sender without a flight
  reads nothing, so ACKs of a failed session stay on the wire and may open the
  next one although its START was lost. The receiver takes the first byte for a
  duplicate, and the sender reports `TransferDone`. A caller avoids it by draining the line
  before `offer_start`: the constant `DrainedRestart`.
* `turn_lost_ack`: a FINISH whose ACK is lost is repeated and completes twice; the
  second `Completed` makes the peer that was just granted the turn yield it. Both listen for ever.
  Hence `turn_alternates` spares the ACKs.

The following were met without a run of their own; the properties state them as exceptions.

* `docs/PROTOCOL.md:164` calls ABORT reliable like FINISH. `offer_abort` drops a frame whose
  first bytes are on the line; the receiver never finds a boundary again, and the ABORT ends in
  `RetriesExhausted`. A `Turn` whose sender failed that way never opens another session: the exception of `TurnIsPassed`.
* A peer's ABORT leaves the own sender in `Aborted`, which every later `Pump::poll` reports before it looks at the receiver (`pump.rs:211`). The
  cancelled session is sent again as `turn.rs:129` says ("Same turn, same payload: open START again."), ACKed to the end and yielded, and the listener's caller gets neither
  bytes nor turn. It is the predicate `Deaf` of `Turn`.
* `docs/PROTOCOL.md:142` has the receiver re-ACK a repeated FINISH. `recv_all` and `RxActor` return with the first one and nobody polls on, so a lost ACK
  turns a complete transfer into `RetriesExhausted` at the sender: `GivesUpOnlyIf`.
* `CHANGELOG.md:5`, "A dropped UART byte no longer pins every later frame to the wrong boundary", holds for frames without a byte of 1 to 6 behind the first. Otherwise a
  window that begins there is consumed whole and the next one too: `LossIsLocal`.
* The ACK of the listener's last hello byte may be read in the poll that delivers a payload byte; `Received` outranks it, and `Established` is not
  reported until the listener sends something: `HellosCross`.
* `sync` stores the session into its slot also after the application removed it, and may overwrite a newer neighbour: `spoilt` in `Node`.
* A message begun in the middle of another, without reset or behind a late byte, may be taken for one with it, nothing in the header tells: `NeverMixed`.
* `Completed` does not say whose session ended: the peer's FINISH makes `send_all` (`pump.rs:239`)
  return Ok at `pump.rs:289` with bytes unsent. It is the case `SendAllDrains` excepts.
* START and DATA 0 are both acknowledged by ACK 0, so
  the second ACK of a retransmitted START acknowledges a lost DATA 0: `TxPoll::Acked` ("A DATA byte was ACKed",
  `tx.rs:63`) is then not true, and the session fails later. `AckedLead` (and `AckedIsHeld` for the window)
  says how far that goes: only the first byte can be ahead.
* `docs/PROTOCOL.md:322` ranks `Completed` above `Received`, `Pump::poll` the other way round. The code's
  order is the one that loses no byte; the documented order is a mutant of `PumpEvent` that breaks
  `SwallowedIsReported`.

**Bounds.** `SeqMod` is 256 in the code. The protocol tells the expected
position from its two neighbours, so 3 is the smallest width at which it can work
and the one with the most aliasing; four bytes plus FINISH go round it once.
Two faults
hit a frame and its retry, or an answer. Two starts give a session with no START, one after it,
and one after that. TLC does not need larger values because `InOrder`, `CloseIsComplete`, `AckedLead`,
`ClosedIsQuiet` and the refinement are proved for all of them; so are the invariants of `PumpPair` and the safety properties of `Window`.

One byte per peer is enough for the pumps, where the question is which outcomes
fall into one poll; `MaxSessions = 1` adds a session after the first. A queue of 2 with 3
bytes makes a peer speak twice and find its queue full. `EarlyAborts` keeps a peer
from aborting in the other's turn or after its FINISH: such an ABORT meets a
finished receiver, which ignores it, or repeats the history of
`turn_lost_ack`, and no property of a turn survives that. NACKs are not hit and one abort is allowed: the reply to a
damaged NACK, or a second ABORT, would be written into a frame, as two halves share the output.

A window of N needs `3 * N <= SeqMod`, not the usual two: the second ACK of START may
free the slot of a lost first byte, and the sender is then up to a window further ahead than
the receiver takes for possible. With `SeqMod = 2 * N` TLC finds `AckedIsHeld` violated. The code has 24
at most, of 256; N = 1 gives the 3 of stop-and-wait. A window of 2 is the smallest that reorders; seven
bytes and FINISH go round the six SEQ values. After a START two bytes are enough, as the first session has been round.

The handshake has one fault because `MaxRetries = 1`. Two wires to the same neighbour are the case in which the table can go wrong, and three opened links let one be dropped and opened again. A
page of 3 over a window of 2 is longer than the window, and in `page` no ACK that ends a session is hit (see `turn_lost_ack`). A ring of one frame is full after one; a wire of 6 bytes cuts a frame.
A third slot that stays free, and two links, make the scheduler's cursor walk over an empty and a done one. Ten fragments of one byte are one more than a counter of nine values.

`PatientTimeout` is the assumption that `timeout_ticks` exceeds every round trip; the
timeout then fires only when nothing is under way. Without it a timeout fires whenever
the input is empty. Deadlock checking is off: the bounds end the application's calls,
and a finished link really is silent.

**Fairness.** For `StopWait` and `Window`, weak fairness of `TxPoll` and of `RxPoll`: each side keeps being polled. The
loops of `stream.rs` and the round-robin `tick` of `actors/system.rs` do that. Nothing
is assumed of the application or of the line (which can only hit `FaultBudget` frames).
For `Turn`, `Page` and `Handshake`, weak fairness says for each peer that its receiver half moves its frame on
(`RxMoves`), its sender half does (`TxMoves`) and an owed `Completed` is paid (`Pays`): the
peers' loops call `poll` for ever, as the examples, `establish` and `turn.rs`'s tests do, and four polls move a frame.
`TurnIsPassed` assumes nothing of `Push`; `PageIsAnswered` assumes that the listener calls `ack`.
In `Demux` both halves write and read for ever, which is what a pump's poll does. In `Callers` each loop runs until it returns, and nothing polls
what no loop polls: that is the point of the module.

## 5. Proofs

Proved for every value of the constants that the named assumptions of the modules allow: every
SEQ width of at least 3, every window of at most a third of it, every timeout and retry policy, every table length, number of wires,
buffer length and fragment size, every finite set of links, capacity of a `System` and idle limit, and every value of the bounds:

| Theorem | Says |
|---|---|
| `StopWaitSafety!TypeCorrect` | `Spec => []TypeOK`, with or without drained restarts |
| `StopWaitSafety!Invariance` | `Spec => []IInv` when sessions open on a drained line |
| `StopWaitSafety!DeliversInOrder` | `Spec => []InOrder`, same assumption |
| `StopWaitSafety!ClosesComplete` | `Spec => []CloseIsComplete`, same assumption |
| `StopWaitSafety!AcksLeadByOne` | `Spec => []AckedLead`, same assumption |
| `StopWaitSafety!Refinement` | `Spec => ImplementsByteStream`, same assumption |
| `StopWaitSafety!ClosedStaysQuiet` | `Spec => ClosedIsQuiet`, same assumption |
| `PumpProofs!PairInvariance` | `Spec => []PairInv` |
| `PumpProofs!NoByteSwallowed` | `Spec => []SwallowedIsReported` |
| `PumpProofs!EndsAreTold` | `Spec => []EndTold` |
| `WindowSafety!TypeCorrect` | `Spec => []TypeOK` of `Window`, with or without drained restarts |
| `WindowSafety!WindowInvariance` | `Spec => []WInv` when sessions open on a drained line |
| `WindowSafety!DeliversInOrder` | `Spec => []InOrder`, same assumption |
| `WindowSafety!ClosesComplete` | `Spec => []CloseIsComplete`, same assumption |
| `WindowSafety!AcksWhatIsHeld` | `Spec => []AckedIsHeld`, same assumption |
| `WindowSafety!Refinement` | `Spec => ImplementsByteStream`, same assumption |
| `NodeProofs!NodeInvariance` | `Spec => []NodeInv` |
| `NodeProofs!ListedOnce` | `Spec => []OneSlotPerPeer` |
| `NodeProofs!TableAgrees` | `Spec => []SlotMirrorsLink` |
| `FragmentsProofs!FragmentsInvariance` | `Spec => []FragmentsInv` |
| `FragmentsProofs!SentIsRebuilt` | `Spec => []Rebuilt` |
| `FragmentsProofs!TrueIsOurs` | `Spec => []NeverMixed` |
| `TurnProofs!TurnTypeCorrect` | `Spec => []TurnType` of `Turn`, aborts included |
| `TurnProofs!TurnsAreTaken` | `Spec => []TurnInv` under `TurnTaking` |
| `TurnProofs!TurnTalksAlone` | `Spec => [](aborts = 0 => NoTalkOver)`, same assumption |
| `TurnProofs!TurnIsHeld` | `Spec => [](aborts = 0 => SomeoneSpeaks)`, same assumption |
| `TurnProofs!TurnDelivers` | `Spec => [](aborts = 0 => YieldedIsReceived)`, same assumption |
| `TurnProofs!TurnYieldsForOwn` | `Spec => [][aborts = 0 => YieldStep]_vars`, same assumption |
| `TurnProofs!YieldsWithoutAborts` | `Spec => YieldsForOwnFinish`, same assumption, when `MaxAborts = 0` |
| `CallersProofs!RoundRobin` | `Spec => []NoActorStarves` |
| `CallersProofs!CallersInvariance` | `Spec => []CallersInv` |
| `CallersProofs!OkIsEndToEnd` | `Spec => []EndToEnd` |
| `CallersProofs!RetriesSuffice` | `Spec => []GivesUpOnlyIf` when `FaultBudget <= MaxRetries` |

The assumption `DrainedRestart = TRUE` is needed: `link_stale_ack` is the
counterexample without it. The theorems on `PumpPair`, `Node`, `Fragments` and `Callers` assume nothing but the
`ASSUME`s of their modules, but for the premise of `RetriesSuffice`: what a pump reports is right on any line, drained or not.

**Stop-and-wait.** SEQ values repeat, so nothing about them is inductive alone. Everything is
stated over *positions*: START is 0, the i-th byte is i, FINISH and ABORT are one past
the last byte. `IInv` says that no wire holds a frame behind one of a later position
(`FwdInv`, `BackInv`); that every DATA frame on the way is at or after the last one taken, so
the receiver can meet only the expected position, its predecessor or its successor, which
three SEQ values tell apart (`ModInjective` in `HalvesProofs`); that every ACK on
its way to an active sender is for the flight, its predecessor or, the one exception,
START (`AckFrame`); and that the receiver's SEQ is its count of delivered bytes modulo the width
(`RxCoherent`). `InOrder`, `CloseIsComplete` and `AckedLead` are conjuncts or
consequences. Each action has its own lemma in `StopWaitSafety`.

**Pump.** A poll returns one event for two halves, reports `TransferDone` by its edge only
and an owed `Completed` one poll late. `EndTold` compares what ended with what was told, session by session, so it needs that the edge detector is armed again in
time, which nothing in it says. `Edge` does: while `tx_done_seen` is set the sender is `Finished` without a flight, or its next flight has not written a byte yet. Since a poll writes
that byte before the flight can end, and writing it re-arms the detector, every end of the sender is an edge and every edge an end (`PollEdge`, from `Finishes` and `Starts`).
`PollEdge` also has the reason why no abort outranks it: a sender whose FINISH is in flight is cancelled by the peer's ABORT before it reads, so the two are never in one poll. `PollEnds`
then has one case per event: what has yet to be told afterwards is the one `Completed` that the pump owes (`OnlyOwed`). While `send_all` runs nothing is owed, because a byte
does not end its loop; hence the property holds from its return on. `PollReceives` is the priority of the events. `PairTyped` carries the types of both pumps and that a
sender writes only the frame of a flight.

**Turn.** `TurnTaking` is what the run assumes: no reply is hit and the timeout outlasts every round trip. Neither can be
dropped: with one ACK of a FINISH hit the turn is lost (`turn_lost_ack`), and so it is when the timeout fires before that ACK
is read and FINISH is repeated (TLC finds it with `PatientTimeout = FALSE` and no fault at all). Either way `YieldedIsReceived` fails with `SomeoneSpeaks`: the queue that is yielded a second time was not
sent. So `TurnDelivers` is about order and completeness over any number of turns and any number of DATA, START and FINISH hit and sent again; a frame that was taken is never repeated under its hypothesis,
and the suppression of such duplicates is what `StopWaitSafety!DeliversInOrder` shows. The theorems speak of a turn until its first abort; aborts and the frames they tear are in the type theorem only, and in the run.

None of the four properties is inductive. Who speaks depends on what the last `Completed` meant, and that on
what is on the line. `TurnInv` therefore describes the conversation as a whole, in two parts. `Exchange` is what one peer says: its turn, its
sender, the control frames on their way back to it, the payload frames on their way out, the receiver they reach, and the number of bytes
that arrived. It is `Silent`, `Between` two flights, `Stuck` (retries exhausted), or `Flying`, and a flight is at one of
six stages from `AtHome` to `Answered`; each fixes the only frame or reply there is, and how many bytes the receiver has
(`Ready`, `Accepts`, `Taken`). `Floor` says who may do so. Mostly one peer is `Alone`. But the ACK of a FINISH makes the listener a
speaker as it is written, before the old speaker has read it: then both have `speak` set (`Handing`), the new one may have written its START, and
the old one may be answering that START. What saves `NoTalkOver` and the turn is that both halves of a pump move a byte in
every poll: the ACK, which came first, is read before a reply to the START is complete (`behind`). `Orderly` says that pump and turn agree on
who is finished, so the edge of `TransferDone` and the owed `Completed` are not taken for one another.

`PollKeeps` splits a poll by where the own exchange and the other's stand: the steps of the own sender (`TxKept`) and of the
own receiver (`RxKept`) each move one exchange by at most a stage, and the event of the poll is that of the one half that
had something to say (`QuietPoll`). Then there is one lemma per polling peer and floor: the speaker (`SpeakerPolls`), the listener, whose ACK
of FINISH opens the hand-over (`ListenerPolls`), the old speaker during it, waiting or reading the ACK (`HanderWaits`,
`HanderYields`), and the new one (`StarterPolls`). `YieldStep` is proved along with them.

**Window.** Positions again, but several frames are in the air at once and the order of the
wires is lost: a DATA frame may be met a window late, its ACK later still. `WInv` bounds both.
`SlotInv`: every byte offered is acknowledged or in one slot, and no slot is `tx.limit` or more
behind the last byte offered. `FwdInv`: nothing beyond `pos + N - 1` was taken by the receiver
when DATA `pos` is under way, and DATA on the wire is at most a window out of order. `Counts`:
the sender is at most two windows ahead of what has left the reorder buffer (one window in
flight, and one more because the second ACK of START may free the slot of a lost first byte).
So a DATA frame that is read lies between `N` behind the expected byte and `2N - 1` ahead of
it, which are the three windows that `WindowAssumption` lets SEQ tell apart (`DataPlace`,
`SubMod`); `handle_data` then takes no late frame for one of the next window. Backwards, `AckFrame` says
that the byte an ACK names is held, and `Unacked`, the part that is easy to miss, that some
position up to two windows after it is acknowledged neither to the sender nor by an ACK before
it on the wire: hence the sender cannot have offered the byte whose SEQ the late ACK would match
(`MatchedData`). `OldestIsLeast` shows that `oldest_unacked`, a scan in array order with a
wrapping comparison, finds the oldest slot. `drain_in_order` keeps all of it by shifting the
buffer by the bytes it emits (`DrainedBytes`). The refinement then has one case per action.

**Node.** That no remote is listed twice says nothing of who may write a slot, and `sync` writes
the link's whole session into its slot: a second link with the same slot, or a link whose slot was
given away meanwhile, would overwrite a neighbour. `NodeInv` therefore adds sole ownership
(`OwnsAlone`: an open link that was not removed is the only one with its slot), that the slot holds
the link's session (`Mirrors`), what the fields of a session may be in each state, and that a listener without a
hello has no slot (`Coherent`), and that the history variables name slots and links that exist
(`Histories`). A slot that `sync` wrote after `remove` is `spoilt` and stays out of every
conjunct. Each operation of the table and of a link has a lemma, each action one that cites them.

**Fragments.** A body, a fragment and a header are cut and joined byte by byte, so the invariant
names the *place* of the sender: `k` bytes of the body cut, fragment number `x`, `p` bytes of the
fragment delivered. `Good` says that the Defragmenter is at this place: between two fragments it holds
exactly the first `k` bytes and waits for header `x`; inside one it holds the header and `p`
bytes. `Doomed` says that it holds something else and that its name or its counter is not that
of the first header, which it then refuses. `HeaderRoundTrip` (`from_bytes` undoes
`to_bytes`, halves of a `u16` included) and one lemma per branch of `push` (`PushWaiting`, `PushInside`,
`PushRefused`) carry it over a step. The length of a body is never
bounded: a step of the sender takes one fragment, and the invariant holds for every place.

**Callers.** Two invariants that share no variable but the slots. `SchedInv` is the scheduler: an actor's wait is
bounded by no counter, so it is bounded by a *set*, the actors that the cursor has passed since it last stood behind it
(`Passed`, by wrapping distance from the cursor). A tick that moves the cursor to a slot adds at most the actor of that slot to
the set of each other (`RoundRobin` is then the cardinality of a set that lacks the actor itself). `LinkInv` is a link:
that Ok of a loop is end to end follows from nothing that one side knows, because the byte in flight is ACKed before the
sink takes it and the other loop may have stopped. `OneUnderWay` says that a flight has at most one frame or answer under
way while the receiver is polled, and `BackOK` that an answer is about the flight; between two flights nothing is under way
(`RestOK`). What a loop left on the line when it stopped is exempt, for nobody reads it. A loop that returned Ok, and an actor
that is `Done`, have all bytes (`LinkInv`), and the sender is Ok only if FINISH was heard by a receiver
that had them (`TxOK`, `FinishHeard`). That a timeout only fires when nothing of the flight is under way is part of the model
(section 4), not proved: `StopWait` has no such premise.

`RetriesSuffice` needs the premise that the line does not hit more frames than `max_retries`: with more, a sender runs out while its
receiver is polled, as it should. Its invariant `RetryInv`, inductive relative to `CallersInv`, counts. While the receiver
is polled, the attempts a flight has used are at most the hits so far, and one less when the attempt under way can no longer be
acknowledged (`Doomed`: nothing under way, or only what was damaged or refused), for then its hit is already counted. An intact
frame cannot be doomed: the receiver answers it with an ACK, new or repeated, because its SEQ is the expected one or the one before
(`GoodFrame`). Once the loop has stopped nothing bounds the attempts, and `StoppedOK` says why it stopped: a hit, a full sink or
an idle budget, or FINISH, whose ACK is then on the line.

**Only model-checked.** Liveness (`FlightResolves`, `SlotResolves`, `TurnIsPassed`, `PageIsAnswered`, `HellosCross`,
`EveryFrameIsRead`, `EveryCallReturns`), because the prover has no fairness rules. `SendAllDrains`, which is about both
directions of two pumps end to end. `Turn` after an abort: what may then be on the line is garbled, and the exceptions of the
properties (`Deaf`) are exact on the run but follow from no short invariant. `Page` and `Demux`: the loops of `fill_window` and of
`ingest` are recursive operators, out of the prover's reach. `Handshake`: it needs, for two windowed pumps at once, what `WInv`
says of one link and `PairInv` of an event, and that hello bytes are delivered in order is `DeliversInOrder`
of `Window`, proved there for sessions over a drained line.

## 6. Not modelled

* `send_all_windowed` and `DuplexWire::copy`: loops around operations that are modelled.
* `WindowTurn::abort`: `Page` has no abort; `Turn` shows what one does to a turn.
* Bytes and retries in one module: the reset of an assembler that holds part of an ACK (`tx.rs:276`, `window/tx.rs:333`) needs both.
* A damaged ACK or NACK on a line that two halves share: sorted with the payload and answered, it breaks `NoTalkOver`.
* The bits of the CRC, frame values and labels: data. `SessionStats` and its `record_stats`: no branch reads them.
* `error.rs`, `prelude.rs`, `lib.rs`: no state. `boards/`, `examples/` and the tests: I/O around the library.
