# TLA+ models of quinn-proto

Model-checked specifications of the QUIC protocol state machine in
`src/quinn-proto/src/connection.rs` (one connection) and
`src/quinn-proto/src/endpoint.rs` (the endpoint that owns the connections).

## The system

`Endpoint` owns a slab of `Connection`s and a shared `Context`. The context
holds an I/O queue, an event queue, the set of dirty connections and the
accept queue. The driver calls into the endpoint in four ways:

- `handle` for a datagram;
- `timeout` for a timer;
- the stream calls: `write`, `finish`, `read`, `reset`, `close`;
- `poll_io` and `poll` to drain the queues.

The parts, and how they meet:

| Part | Code | State | Interacts with |
|---|---|---|---|
| Demux and connection table | `Endpoint::handle`, `handle_decode`, `add_connection`, `handle_initial`, `forget`, `accept` | `connection_ids`, `connection_ids_initial`, `connection_remotes`, `incoming`, `incoming_handshakes` | creates connections, routes datagrams to `Connection::handle_decode` |
| Connection state machine | `handle_packet`, `handle_connected_inner`, `close`, `Endpoint::timeout` | `State` (Handshake, Established, HandshakeFailed, Closed, Draining, Drained) | loss recovery, streams, endpoint timers |
| Loss detection and congestion control | `on_packet_sent`, `on_ack_received`, `on_packet_acked`, `detect_lost_packets`, `check_packet_loss`, `set_loss_detection_alarm`, `handshake_cleanup` | `sent_packets`, `bytes_in_flight`, `congestion_window`, `ssthresh`, `end_of_recovery`, the TLP/RTO/handshake counters, `loss_time`, `awaiting_handshake` | packet assembly (what is resent), streams (what is acknowledged), endpoint timers |
| Packet assembly | `next_packet`, `force_transmit`, `make_close` | `pending`, `handshake_pending`, `pending_acks`, `permit_ack_only` | loss recovery, streams |
| Streams and flow control | `write`, `transmit`, `finish`, `read*`, `reset`, `stop_sending`, `process_payload`, `maybe_cleanup` | per-stream send/receive halves, `max_data`, `data_sent`, `blocked_streams`, `finished` | packet assembly, events |
| Endpoint I/O and timers | `poll_io`, `flush_pending`, `timeout` | `io`, `dirty_conns`, the connection's `set_idle` / `set_loss_detection` intents | every connection |

A connection never arms a timer directly. It records an intent in
`set_loss_detection` or `set_idle`. `flush_pending`, run from `poll_io`,
turns the intent into an `Io::TimerStart` or `Io::TimerStop` for the driver.
The driver therefore acts on timer changes only when it polls. Until then a
timer that the connection has already cancelled can still fire.

## Modules

### `LossRecovery.tla` (with `MC_LossRecovery.tla`)

This module models the sending half of one client connection. It covers the
handshake as seen by the client, then 1-RTT data on one client-initiated
unidirectional stream. The loss detection, congestion control, packet
assembly and timer plumbing all sit in between.

Variables, and the code they stand for:

- The connection fields keep their names: `largest_sent_packet`,
  `largest_acked_packet`, `sent_packets`, `bytes_in_flight`,
  `congestion_window`, `ssthresh`, `end_of_recovery`, `handshake_count`,
  `tlp_count`, `rto_count`, `largest_sent_before_rto`, `awaiting_handshake`,
  `pending_acks`, `permit_ack_only`, `set_loss_detection`, `max_data`,
  `data_sent`, `blocked_streams`.
- `loss_time` and `rtt_sampled` keep only whether `loss_time` and
  `smoothed_rtt` are non-zero.
- `handshake_pending` and `pending` keep the STREAM frames of the two
  `Retransmits`. A frame is (stream, offset, length in units, fin).
- `send_stream` is the stream's `stream::Send`: offset, bytes in flight and
  state. `finished` is `Streams.finished`, and `events` holds this
  connection's `Context.events`.
- `dirty` is membership in `dirty_conns`. `flushing` marks a
  `flush_pending` in progress. `ld_timer` is the driver's LossDetection
  timer.
- `peer_pn` counts the server's packets.
- History variables: `initial_pns` and `finished_pns` are the packets that
  carried the ClientHello or the ClientFinished, and `acked_frames` is the
  application frames the peer acknowledged. `crashed` records a panic.

Every handler is one action. All the calls it makes are composed in source
order as operators on a record of the state (`C`, written back by `Commit`).

| Action | Code |
|---|---|
| `Write`, `WriteBlocked` | `Connection::write` and `transmit` (`Endpoint::write`) |
| `finish` | `Connection::finish` (`Endpoint::finish`) |
| `StartFlush`, `SendPacket`, `FinishFlush` | `poll_io`, then `flush_pending`: `next_packet` until `None`, then the timer intent. The `flushing` flag keeps the loop atomic. |
| `LossDetectionTimeout` | `Endpoint::timeout(LossDetection)` → `check_packet_loss` |
| `PeerHandshakePacket` | `handle_packet` / `handle_connected_inner` for a server Handshake packet in state Handshake |
| `PeerShortPacket` | `handle_packet` / `handle_connected_inner` for a 1-RTT packet in Established: `handshake_cleanup`, then `process_payload` (ACK, MAX_DATA) |

Abstractions:

- **Peer and network.** A server packet may acknowledge any subset of the
  packets sent so far. This stands for loss, delay, reordering, and stale or
  partial ACK frames. The server answers once some Initial exists and sends
  1-RTT packets once some packet has carried the ClientFinished. TLS is a
  nondeterministic outcome for each Handshake packet: still handshaking, or
  complete. Handshake failure is not modelled yet.
- **ACK range order.** `on_ack_received` visits each range in ascending
  order. The frame iterator's order of ranges lies outside `src/`, so every
  order is allowed (`AckOrders`).
- **Time.** A timer may fire whenever it is armed. The time-threshold test of
  `detect_lost_packets` holds for the packets sent before some instant.
  Since packet numbers grow with send time, that set is the packets up to a
  nondeterministic cut (`Cuts`). The delay is infinite unless time loss
  detection is on or the largest acknowledged is the largest sent. It is 0
  while no RTT has been sampled, as in the code.
- **Sizes.** Sizes are in thirds of the MTU. A full packet is 3. A padded
  Initial is the MTU. Other packets count one unit each for the header, the
  ACK frame and each STREAM frame. A PING probe is 1.
- **Discarded stream.** The stream is discarded by `maybe_cleanup` the moment
  it becomes DataRecvd, because it is client-initiated and unidirectional.
- **Stream credit.** The stream-level credit is taken to exceed the writes.

Properties:

- `TypeOK`.
- `BytesInFlightConservation`: `bytes_in_flight` equals the sum of the sizes
  in `sent_packets`. The code's `-=` on a u64 relies on this.
- `StreamBytesInFlight`: the stream's `bytes_in_flight` counts exactly the
  data units still queued or in unacknowledged packets.
- `NoDataLoss`: every written unit has been acknowledged or is still queued
  or in flight.
- `AlarmMatchesInFlight`: once the driver is up to date, its LossDetection
  timer is armed exactly when bytes are in flight.
- `NoPanic`: `force_transmit` never runs without 1-RTT keys.
- `FinDelivered`: a stream declared DataRecvd has had its fin acknowledged.
  This is the promise in `Endpoint::finish`'s doc comment.

### `ConnectionState.tla` (with `MC_ConnectionState.tla`)

This module models the life of one connection, client or server, as the
endpoint sees it. It covers the `State` enum, the packet path that moves it,
the application's `close`, `accept` and `write`, the three endpoint timers,
and `forget`. Loss recovery, streams and packet contents are abstract here;
`LossRecovery` models them.

Variables, and the code they stand for:

- `side` is `Connection::side`, chosen in `Init` from the constant `Sides`.
- `state` is `Connection::state`; `"None"` while it is `None`.
- `live` is membership in `Endpoint::connections` and the routing tables.
- `crypto` is whether `Connection::crypto` (the 1-RTT keys) is `Some`.
- `reset_token` is whether `params.stateless_reset_token` is `Some`.
- `app_closed`, `set_idle` and `set_loss_detection` keep the field names.
  An intent is `"none"`, `"start"` or `"stop"`, for `None`,
  `Some(Some(t))` and `Some(None)`.
- `dirty` is membership in `dirty_conns`.
- `io` holds the timer operations in `Context.io`, in order. `Transmit`s are
  left out.
- `timers` is the set of timers the driver has armed for the handle.
- `events` holds this connection's `Context.events`, in order.
- `incoming_handshakes`, `incoming` and `accepted` are the accept queue and
  its slot counter. `accepted` means the application holds the handle.
- `rx` counts delivered datagrams, and `crashed` records a panic.

Actions:

| Action | Code |
|---|---|
| `Init` | `Connection::connect` (client); `Endpoint::handle_initial` → `Connection::handle_initial` → `handshake_complete` (server), or the failed `handle_initial` that leaves state `None` |
| `ReceivePacket` | `Endpoint::handle_decode` for a routed datagram → `Connection::handle_decode` (the 1-RTT key `unwrap`) → `handle_packet`: `decrypt_packet`, `on_packet_authenticated`, `handle_connected_inner`, the error-to-state mapping, `close_common`, the close answers with their idle reset, the slot return and the dirty mark |
| `StatelessReset` | the reset-token branch at the top of `handle_packet` |
| `AppClose` | `Endpoint::close` → `forget` for Drained, else `Connection::close` |
| `accept`, `AppWrite` | `Endpoint::accept`; `Endpoint::write` → `Connection::write` (refused once closed) |
| `PollIo`, `flush_pending` | `Endpoint::poll_io`: the head of `io`, or `flush_pending` for the dirty handle (`next_packet` until `None`, the idle reset if something was sent, then the Idle and LossDetection intents) |
| `CloseTimeout`, `IdleTimeout`, `LossDetectionTimeout` | the three arms of `Endpoint::timeout` |
| `ForgottenTimeout` | `Endpoint::timeout` indexing the slab with a forgotten handle |

Abstractions:

- **Packets.** A packet is its header (Initial, Handshake, Short), whether it
  authenticates, and what its frames do: ordinary frames, a close frame, or
  a protocol violation. `tls` is what TLS makes of a Handshake packet's
  stream-0 data: ongoing, complete or failed.
- **Environment classes.** Boolean constants switch on the packets a
  conforming peer and network do not produce:
  - `LateLong`: a long-header packet after our Handshake state.
  - `KeylessShort`: a client's 1-RTT packet reaching a server without keys.
  - `Forged`: a datagram that fails authentication.
  - `Resets`: a stateless reset.
  - `InitialFails`: a failed `handle_initial`.

  `IdleFirst` lets the Idle timer expire while the Close timer is pending.
  The idle timeout is normally far longer than 3 RTO.
- **The driver.** `StaleTimers` lets the driver fire a timer before it has
  polled the Io that changes it. Otherwise, a timer fires only once `io` is
  drained and the handle is clean.
- **What is abstract.** Which ACKs arrive, and so what `on_ack_received` does
  to the loss-detection alarm, is a nondeterministic intent `ld`. The same
  holds for whether `next_packet` finds something to send, and for what a
  LossDetection expiry does.

Fairness: weak fairness of `PollIo`, `flush_pending` and the three timer
expiries. The driver keeps calling `poll_io`, and an armed timer eventually
expires. The peer, the network and the application owe nothing: no fairness
is assumed for packets, `close`, `accept` or `write`.

Properties:

- `TypeOK`, with `incoming_handshakes` a natural number because it is a
  `usize`.
- `StateMachine`: every state change of a live connection is a transition of
  spec §4.1.
- `ConnectionLostOnce`: ConnectionLost is reported at most once. The
  pass run has no stateless resets and no Idle-before-Close, so it checks
  the `handle_packet`, `close` and Close-timer paths only. Both omitted
  paths break it: see `idle_after_close` and the stateless-reset
  disagreement under Findings.
- `DrainedIsQuiet`: once drained or forgotten, with the Io queue applied, no
  timer is armed.
- `NoPanic`: no `unwrap` on a missing state or key, and no slab index with a
  forgotten handle.
- `ImplementsLifecycle`: the connection implements `ConnectionLifecycle`,
  the abstract lifecycle below.
- `AppCloseReleases`: a connection the application has closed is forgotten.
  This is a liveness property, and it is the spec §1 lifecycle. Only the
  `reset_after_close_leaks` run checks it on its own; the pass run checks
  it as part of `ImplementsLifecycle`.
- `ConnectedOnce`: Connected is reported at most once, and never after
  ConnectionLost.
- `HandshakeSlots`: a server holds an `incoming_handshakes` slot exactly
  while it handshakes.

Bounds: `MC_MaxRx = 6` datagrams allow a duplicated Initial, two Handshake
packets, a 1-RTT packet, a close, and a packet after it. With stale timers, a
LossDetection probe can re-arm Idle on a closed connection indefinitely, so
the hostile run also bounds `events` to 4 and `io` to 6 (`MC_Bound`). That is
room for Connected, ConnectionLost twice and ConnectionDrained.

### `ConnectionLifecycle.tla`

This is the abstract specification of what a connection promises its
application, from spec §1 ("Lifecycle") and §4.1. A connection handshakes,
then is open. Once closed, by an error, the peer, an idle timeout or the
application, it drains and never reopens. A stateless reset drains it at
once. It is released once it is drained and the application has closed it.

The variables are `phase` (handshake, open, closing, drained, released) and
`app_closed`. Weak fairness applies to `Drain` and `ReleaseOnClose` only,
so the peer and the application owe nothing.

`ConnectionState` implements it under the refinement mapping
`lifecycle_phase`:

| Concrete | Abstract phase |
|---|---|
| a forgotten connection | released |
| Handshake or None | handshake |
| Established | open |
| HandshakeFailed, Closed, Draining | closing |
| Drained | drained |

`app_closed` maps to itself. The property `ImplementsLifecycle` is
`Lifecycle!Spec`, including its fairness. It holds in the `connection_state`
run.

### `StreamRecv.tla`

The receive half of the unidirectional streams a peer opens, with the
connection-level flow control that covers them, against a conforming
quinn-proto peer.

State:

- **The receiver.** `streams` is `Streams::streams`, from stream index to
  receive half. `max_remote_uni`, `data_recvd`, `local_max_data`,
  `readable_streams` and the flags of `pending` (`max_data`,
  `max_uni_stream_id`, `stop_sending`) keep their code names. `error` holds
  the TransportError `process_payload` returned, and `panicked` records a
  failed `unwrap`.
- **The application.** `unordered` says whether it reads with
  `read_unordered`, chosen in `Init`. `reading` holds the streams it was told
  are readable and is reading until Blocked, Finished or Reset.
- **The peer.** `sent` holds its stream offsets. `fin_sent` and
  `reset_sent` record the streams it finished and reset.
  `peer_max_data` and `peer_max_uni` are the credit it has learned.
  `peer_error` holds its own TransportError.
- **The network.** `wire` and `to_peer` are sets of frames. A frame may
  be delivered any number of times, in any order, or never. `rx` counts
  deliveries.

| Action | Code |
|---|---|
| `ReceiveStream` | `process_payload`, `Frame::Stream`: `get_recv_stream`, the final-offset and flow-control checks in code order, the size, range set, assembler, DataRecvd, `readable_streams` and `data_recvd` |
| `ReceiveRst` | `process_payload`, `Frame::RstStream`, which counts `final - limit` with no flow-control check |
| `Read`, `ReadUnordered` | `Endpoint::read` / `read_unordered` over `Connection::read` / `read_unordered` (credit per chunk), and `maybe_cleanup` on Finished or Reset |
| `StopSending` | `Endpoint::stop_sending` over `Connection::stop_sending` |
| `Poll` | `Endpoint::poll` over `Connection::poll` (the `get_recv_mut` unwrap) |
| `Transmit` | `next_packet`'s STOP_SENDING, MAX_DATA and MAX_STREAM_ID frames |
| `PeerWrite`, `PeerFinish`, `PeerReset` | the peer's `write` (within its learned credit), `finish`, `reset` |
| `PeerMaxData`, `PeerMaxStreamId`, `PeerStopSending` | the peer's handlers of those frames |

`Recv` (its states, `limit`, `final_offset`, `read_blocked`), the range set
and the assembler are in `stream.rs` and `range_set.rs`. Those files are
not in this tree, so they are modelled from spec.md §2 and §4.3 and marked
`spec_modelled`. MAX_STREAM_DATA is left out, because nothing in this code
raises a receive half's `max_data`. The bounds (one stream slot at first,
two streams, a window of two units each, five deliveries) are enough for
`maybe_cleanup` to open the second slot and advertise it.
`CHECK_DEADLOCK FALSE` is set because a connection that has failed takes
no more steps, and the deliveries run out.

### Runs

| Run | Config | Expect | Shows |
|---|---|---|---|
| `loss_recovery` | `LossRecovery.cfg` | pass (~232k states, ~2.5 min) | The `config` variable takes each of two Configs in `Init`. Under the defaults (FACK, max_tlps 2, reordering threshold 3, halving on loss), the invariants hold through handshake retransmission, `handshake_cleanup`, TLPs, FACK and early-retransmit loss, recovery epochs and connection-level flow-control blocking. Under time loss detection with max_tlps 0, they also hold through RTOs (two probes), RTO verification and time-threshold loss. |
| `fin_delivered` | `LossRecoveryFin.cfg` | violation | Finding 1 below. |
| `stale_loss_timer` | `LossRecoveryStale.cfg` | violation | Finding 2 below. |
| `connection_state` | `ConnectionState.cfg` | pass (~6k states, a few s) | Both sides, conforming peer and network: `TypeOK`, `ConnectionLostOnce`, `DrainedIsQuiet`, `NoPanic`, `StateMachine` and `ImplementsLifecycle` hold. |
| `connection_state_hostile` | `ConnectionStateHostile.cfg` | pass (~570k states, ~30 s) | Every fault class and stale timers on: `ConnectedOnce` still holds. |
| `late_long_resurrects` | `ConnectionStateLateLong.cfg` | violation | Finding 3. |
| `idle_after_close` | `ConnectionStateIdleFirst.cfg` | violation | Finding 4. |
| `reset_rearms_timers` | `ConnectionStateReset.cfg` | violation | Finding 5. |
| `reset_after_close_leaks` | `ConnectionStateResetAfterClose.cfg` | violation | Finding 6. |
| `handshake_slot_leak` | `ConnectionStateSlots.cfg` | violation | Finding 7. |
| `datagram_panics` | `ConnectionStatePanics.cfg` | violation | Findings 8 and 9. |
| `poll_after_cleanup` | `StreamRecvPanic.cfg` | violation | Finding 10. |

Bounds of the `LossRecovery` runs, and why they are enough:

- **Packet numbers.** `MaxPn = 5` allows the Initial, a retransmission or
  the ClientFinished, two data/fin packets and a probe. It also allows the
  FACK threshold case (`largest_acked - p > 3`). A timer only fires while
  its retransmissions still fit under this bound, which also bounds
  `handshake_count`.
- **Peer packets.** `Bounds(config)` allows two peer packets under the
  default Config: a completing Handshake packet and one 1-RTT packet with
  any ACK set. Under time loss detection it allows three, so that a second
  1-RTT packet can acknowledge an RTO probe and verify the RTO. Under that
  Config it allows one write instead of two, which keeps the run under
  three minutes.
- **Writes and credit.** Two writes with `InitialMaxData = 1` make the
  second write block until a MAX_DATA grant.
- **Window.** `InitialWindow = 6` and `MinimumWindow = 3` make the window two
  packets, then one packet, so `congestion_blocked` and both window branches
  of `on_packet_acked` occur.

Throwaway invariants were used to confirm that these runs reach TLP, RTO,
loss with recovery, `loss_time`, DataRecvd and StreamWritable.
`CHECK_DEADLOCK FALSE` is used because every bounded run ends with all
counters exhausted. The real connection also goes idle when nothing is in
flight.

`LossRecovery` assumes no fairness: all its properties are safety
properties. The fairness of `ConnectionState` is described with that module.

## Findings

1. **Premature DataRecvd drops the fin** (`connection.rs:449`, run
   `fin_delivered`). Take a stream whose last data frame was sent before
   `finish()`. `finish` then queues an empty fin frame. When the data is
   acknowledged, the stream's `bytes_in_flight` reaches 0, so
   `on_packet_acked` declares DataRecvd and `maybe_cleanup` discards the
   stream. `next_packet` skips frames of discarded streams, so the fin is
   never sent. `Endpoint::finish` promises that previously transmitted data
   will still be delivered.
2. **Stale LossDetection timer panics** (`connection.rs:1898`, run
   `stale_loss_timer`). The sequence is:
   1. A server Handshake packet acknowledges the Initial.
   2. `handshake_cleanup` empties the flight and cancels the alarm, but only
      as an intent.
   3. If the driver delivers the old timer's expiry before polling
      `Io::TimerStop`, `check_packet_loss` takes the TLP branch
      (`awaiting_handshake` is false).
   4. `force_transmit` unwraps the absent 1-RTT keys and panics.

3. **A packet that fails authentication reopens the connection**
   (`connection.rs:922`, run `late_long_resurrects`). `handle_packet` maps
   `Err(None)` from `decrypt_packet` to `Ok(State::Established)` whatever the
   previous state. `Err(None)` means a failed AEAD check, or a long header
   once past Handshake. So a retransmitted Handshake packet takes a Closed,
   HandshakeFailed, Draining or Drained connection back to Established. A
   forged or corrupted long-header packet makes a handshaking connection
   Established without 1-RTT keys, and `next_packet` then unwraps them
   (`connection.rs:1662`).
4. **Idle expiry in any state** (`endpoint.rs:656`, run
   `idle_after_close`). `timeout(Idle)` runs `close_common`, sets Draining and
   reports ConnectionLost(TimedOut) in every state. When the Idle timer
   expires before the Close timer, a closed connection reports its loss a
   second time. A Drained connection goes back to Draining.
5. **A stateless reset leaves timer intents behind** (`connection.rs:858`,
   run `reset_rearms_timers`). The reset branch queues three `TimerStop`s and
   returns without clearing `set_idle` or `set_loss_detection`. The next
   `flush_pending` then arms those timers again on a Drained connection.
   Spec §4.1 says all timers are cancelled.
6. **A stateless reset after `close` leaks the connection**
   (`connection.rs:858`, run `reset_after_close_leaks`). Only the Close
   timer forgets an app-closed connection. A reset that arrives after
   `Endpoint::close` stops that timer and sets Drained. The connection is
   released only if the application calls `close` a second time. Spec §1
   says it is destroyed once drained and closed by the application.
7. **Handshake slots leak** (`endpoint.rs:534`, run `handshake_slot_leak`).
   `incoming_handshakes` is returned only on completion or on a
   `TransportError` in Handshake. A peer close, an Idle timeout, or an
   unauthenticated packet that "establishes" the connection keep the slot.
   Once `accept_buffer` slots have leaked, every Initial is refused with
   SERVER_BUSY.
8. **A short header without keys panics** (`connection.rs:834`, run
   `datagram_panics`). `handle_decode` unwraps the 1-RTT keys for every
   short-header packet. That panics in three cases:
   - a server gets the client's first 1-RTT packet before its Finished;
   - a server's handshake failed or timed out after the client completed;
   - a handshaking client gets a forged short header with its CID.
9. **A failed `handle_initial` leaves a routable connection with no state**
   (`endpoint.rs:554`, run `datagram_panics`). The connection stays in
   `connection_ids_initial` with state `None`. The client's retransmitted
   Initial reaches it, and `handle_packet` panics at
   `state.take().unwrap()`.

10. **`poll` panics on a cleaned-up stream** (`connection.rs:2255`, run
    `poll_after_cleanup`). `maybe_cleanup` removes a closed stream from the
    table but leaves it in `readable_streams`, and `Connection::poll`
    unwraps `get_recv_mut` for whatever that set holds. The peer conforms
    throughout. TLC's shortest trace takes seven states:
    1. An RST_STREAM is delivered and the stream is polled.
    2. A retransmitted copy of the RST_STREAM makes the stream readable
       again.
    3. The application reads Reset, and the stream is cleaned up.
    4. The next `poll` panics.

    Data followed by the peer's reset reaches the same state with no
    duplicate.

**A stateless reset reports ConnectionLost a second time**
(`connection.rs:860`). The stateless-reset branch tests only `is_drained`.
So a connection already lost through a peer close or a ConnectionError
reports ConnectionLost(Reset) again when the peer, which has forgotten it,
answers with a stateless reset. TLC reaches this in four states with
`ConnectionState.cfg` and `Resets = TRUE`:

1. A packet completes the handshake (Connected).
2. The peer's close makes the connection Draining (ConnectionLost).
3. A stateless reset drains it and pushes ConnectionLost again.

It has no run of its own: the `ConnectionLostOnce` violation run,
`idle_after_close`, is spent on the Idle path.

Two more disagreements were reached in `StreamRecv` with throwaway
invariants. They have no run of their own, because the project keeps one
run per question and the run budget is spent. Both are listed as hazards
in `PROJECT.json`.

- **A repeated frame is counted twice.** `new_bytes` is measured against
  `rs.limit()`, and a fin-only frame or an RST_STREAM does not move that
  limit. A duplicate of the fin-only frame, or the stream's data after its
  RST_STREAM, is therefore counted a second time, and a conforming peer
  gets FLOW_CONTROL_ERROR (`connection.rs:1372`).
- **STOP_SENDING on an empty stream fails the peer.** A stream that
  received only a fin never becomes DataRecvd, so `stop_sending` queues
  STOP_SENDING for it. The peer treats that frame as a PROTOCOL_VIOLATION,
  because it wrote nothing to the stream (`connection.rs:1553`).

## Plan

The project is complete within its twelve-run budget. Each run answers a
distinct question, and nine of them carry a finding. Further work would
need more runs:

1. `Endpoint`: demux over several connections and remotes. It would cover
   the `connection_remotes` overwrite (`endpoint.rs:504`) and slab handles
   reused under stale timers.
2. A `StreamRecv` pass run with a credit bound. The bound would be
   `local_max_data` at most the window plus the data consumed.
   `read_unordered` breaks it (`connection.rs:2107`).
3. `LossArithmetic`: pure operators for `delay_until_lost`, `rto` and the
   alarm durations at u64 width (`connection.rs:523`, 596).

## Not modelled

These are out of reach or outside `src/`:

- the TLS session, AEAD and header protection;
- the packet and frame codecs, range sets and the stream assembler;
- transport parameter encoding;
- logging.

Their effects enter the models as nondeterministic inputs. The stream
receive state machine of `stream.rs` is the exception: `StreamRecv` models
it from spec.md.

The project keeps at most twelve runs. Some hazards have no property:

- The hazards at `connection.rs:523`, 596 and 634 are time and
  width arithmetic. The models keep timers only as armed or stopped, so no
  module computes a deadline. The `2u64.pow` shifts at 587 and 617 are
  not listed: the counts would need dozens of unanswered timeouts, and the
  idle timer, re-armed on every retransmission, ends the connection first.
- The missed-wakeup hazard at `connection.rs:366` has no property. Any
  bound that finishes in time unblocks the writer only by MAX_DATA. The
  congestion case, room freed by an ACK, `handshake_cleanup` or a timer,
  needs a third peer packet under the default Config, and the run then
  takes about 7 minutes.
- The endpoint-level hazards need several connections in one module. No
  such module was built.
- The ACK-range order at `connection.rs:420` is the order of the range
  iterator in `frame.rs`, outside `src/`. `LossRecovery` leaves that order
  open, so a property of the comment's intent would also reject orders the
  real iterator may never produce.
- Retry (`connection.rs:1028`) is not modelled. The client handshake starts
  from a single Initial.

Their notes in `PROJECT.json` say so.
