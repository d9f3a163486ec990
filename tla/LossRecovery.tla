---------------------------- MODULE LossRecovery ----------------------------
(***************************************************************************)
(* The sending half of one client connection of quinn-proto               *)
(* (src/quinn-proto/src/connection.rs): packet emission (next_packet,     *)
(* force_transmit, on_packet_sent), ACK processing (on_ack_received,      *)
(* on_packet_acked), loss detection (detect_lost_packets,                 *)
(* check_packet_loss, handshake_cleanup), the loss-detection alarm and    *)
(* NewReno congestion control, together with the one application stream  *)
(* whose frames travel in those packets and the client side of the       *)
(* handshake that decides between long-header and 1-RTT packets.          *)
(*                                                                         *)
(* The peer (a server) and the network are abstract: each server packet  *)
(* may carry an ACK frame naming any subset of the packets we have sent,  *)
(* which covers loss, delay and reordering on the wire (a packet never    *)
(* acknowledged was lost, one acknowledged late was delayed) as well as   *)
(* stale and partial ACKs.                                                *)
(*                                                                         *)
(* Time is abstract: a timer fires whenever it is armed, and the          *)
(* time-threshold test of detect_lost_packets, which holds for the       *)
(* packets sent before some instant, is a nondeterministic cut in packet  *)
(* number order.  Byte counts are kept, in scaled units.                  *)
(***************************************************************************)
EXTENDS Naturals, Sequences, FiniteSets, SequencesExt, FiniteSetsExt, TLC

CONSTANTS
    MaxPn,               \* bound on our packet numbers (get_tx_number)
    MaxPeerPn,           \* bound on the peer's packet numbers
    Bounds(_),           \* the peer's packets and the writes explored under a
                         \* Config, at most MaxPeerPn and NWrites
    NWrites,             \* bound on application writes (one unit each)
    MTU,                 \* Connection::mtu, in scaled bytes
    PacketCapacity,      \* STREAM frames that fit in one packet
    ProbeBytes,          \* size of a PING-only probe from force_transmit
    Configs,             \* the Configs the endpoint may run with: records of
                         \* using_time_loss_detection and max_tlps
    ReorderingThreshold, \* Config::reordering_threshold
    DefaultMss,          \* Config::default_mss
    InitialWindow,       \* Config::initial_window
    MinimumWindow,       \* Config::minimum_window
    LossReductionFactor, \* Config::loss_reduction_factor, 0.16 fixed point
    InitialMaxData,      \* the peer's initial_max_data transport parameter
    MaxDataLimit,        \* bound on the MAX_DATA values the peer grants
    NoSsthresh,          \* stands for u64::max_value(), the initial ssthresh
    StaleTimers          \* may the driver fire a timer whose change is not yet polled?

ASSUME MTU >= 2 + PacketCapacity /\ ProbeBytes > 0 /\ ProbeBytes < MTU
ASSUME \A c \in Configs : Bounds(c).peer_packets \in 1..MaxPeerPn
                          /\ Bounds(c).writes \in 1..NWrites
ASSUME MinimumWindow <= InitialWindow /\ InitialWindow < NoSsthresh

Pn     == 1..MaxPn
PeerPn == 1..MaxPeerPn

(* A STREAM frame.  Stream 0 carries the TLS handshake; stream 1 is the   *)
(* application stream.  Frames are identified by stream and offset; an    *)
(* application write is one unit of data, a fin-only frame has len 0.     *)
AppStream == 1
Frame == [sid : {0, AppStream}, off : 0..NWrites, len : {0, 1}, fin : BOOLEAN]
ClientHello    == [sid |-> 0, off |-> 0, len |-> 1, fin |-> FALSE]
ClientFinished == [sid |-> 0, off |-> 1, len |-> 1, fin |-> FALSE]

(* SentPacket: the bytes that count toward bytes_in_flight (0 iff         *)
(* ack-only), the handshake flag, the ACK ranges it carried and the       *)
(* STREAM frames of its retransmit bundle.                                *)
SentPacket == [bytes : 0..MTU, handshake : BOOLEAN, acks : SUBSET PeerPn,
               frames : Seq(Frame)]

SendState == {"Ready", "DataSent", "DataRecvd"}

VARIABLES
    state,                    \* "Handshake" or "Established"; 1-RTT keys iff Established
    largest_sent_packet,
    largest_acked_packet,
    sent_packets,             \* BTreeMap<u64, SentPacket> as a function
    bytes_in_flight,
    congestion_window,
    ssthresh,
    end_of_recovery,
    handshake_count,
    tlp_count,
    rto_count,
    largest_sent_before_rto,
    loss_time,                \* loss_time # 0
    rtt_sampled,              \* smoothed_rtt # 0
    awaiting_handshake,
    config,                   \* the Config fields loss recovery reads; fixed at creation
    handshake_pending,        \* Retransmits.stream of handshake_pending
    pending,                  \* Retransmits.stream of pending
    pending_acks,
    permit_ack_only,
    set_loss_detection,       \* "none" (no change), "stop" or "start"
    max_data,
    data_sent,
    blocked_streams,
    send_stream,              \* stream::Send of the application stream
    finished,                 \* Streams.finished
    events,                   \* Context.events of this connection
    dirty,                    \* handle is in Context.dirty_conns
    flushing,                 \* Endpoint::flush_pending is running
    ld_timer,                 \* the driver's LossDetection timer
    peer_pn,                  \* the peer's last packet number
    initial_pns,              \* history: packets sent with an Initial header
    finished_pns,             \* history: packets that carried the ClientFinished
    acked_frames,             \* history: application frames the peer acknowledged
    crashed                   \* the connection panicked (unwrap on None)

conn_vars  == <<state, largest_sent_packet, largest_acked_packet, sent_packets,
                bytes_in_flight, congestion_window, ssthresh, end_of_recovery,
                handshake_count, tlp_count, rto_count, largest_sent_before_rto,
                loss_time, rtt_sampled, awaiting_handshake, config>>
queue_vars == <<handshake_pending, pending, pending_acks, permit_ack_only,
                set_loss_detection, max_data, data_sent, blocked_streams,
                send_stream, finished, events>>
env_vars   == <<dirty, flushing, ld_timer, peer_pn,
                initial_pns, finished_pns, acked_frames, crashed>>
vars == <<conn_vars, queue_vars, env_vars>>

TypeOK ==
    /\ state \in {"Handshake", "Established"}
    /\ largest_sent_packet \in 0..MaxPn
    /\ largest_acked_packet \in 0..MaxPn
    /\ DOMAIN sent_packets \subseteq 1..largest_sent_packet
    /\ \A p \in DOMAIN sent_packets : sent_packets[p] \in SentPacket
    /\ bytes_in_flight \in Nat /\ congestion_window \in Nat
    /\ ssthresh \in Nat /\ end_of_recovery \in 0..MaxPn
    /\ {handshake_count, tlp_count, rto_count} \subseteq Nat
    /\ largest_sent_before_rto \in 0..MaxPn
    /\ {loss_time, rtt_sampled, awaiting_handshake, permit_ack_only} \subseteq BOOLEAN
    /\ config \in Configs
    /\ handshake_pending \in Seq(Frame) /\ pending \in Seq(Frame)
    /\ pending_acks \subseteq PeerPn
    /\ set_loss_detection \in {"none", "stop", "start"}
    /\ max_data \in 0..MaxDataLimit /\ data_sent \in 0..NWrites
    /\ blocked_streams \subseteq {AppStream}
    /\ send_stream \in [offset : 0..NWrites, bif : 0..NWrites, state : SendState]
    /\ finished \in Seq({AppStream})
    /\ events \in Seq([type : {"StreamWritable", "StreamFinished", "Connected"},
                       stream : {0, AppStream}])
    /\ {dirty, flushing, crashed} \subseteq BOOLEAN
    /\ ld_timer \in {"armed", "stopped"}
    /\ peer_pn \in 0..MaxPeerPn
    /\ initial_pns \subseteq Pn /\ finished_pns \subseteq Pn
    /\ acked_frames \subseteq Frame

(* Connection::new for a client followed by connect(): the ClientHello is *)
(* queued on stream 0 by transmit_handshake; Endpoint::connect marks the  *)
(* connection dirty.                                                       *)
Init ==
    /\ state = "Handshake"
    /\ largest_sent_packet = 0
    /\ largest_acked_packet = 0
    /\ sent_packets = <<>>
    /\ bytes_in_flight = 0
    /\ congestion_window = InitialWindow
    /\ ssthresh = NoSsthresh
    /\ end_of_recovery = 0
    /\ handshake_count = 0 /\ tlp_count = 0 /\ rto_count = 0
    /\ largest_sent_before_rto = 0
    /\ loss_time = FALSE
    /\ rtt_sampled = FALSE
    /\ awaiting_handshake = TRUE
    /\ config \in Configs
    /\ handshake_pending = <<ClientHello>>
    /\ pending = <<>>
    /\ pending_acks = {}
    /\ permit_ack_only = FALSE
    /\ set_loss_detection = "none"
    /\ max_data = 0
    /\ data_sent = 0
    /\ blocked_streams = {}
    /\ send_stream = [offset |-> 0, bif |-> 0, state |-> "Ready"]
    /\ finished = <<>>
    /\ events = <<>>
    /\ dirty = TRUE
    /\ flushing = FALSE
    /\ ld_timer = "stopped"
    /\ peer_pn = 0
    /\ initial_pns = {} /\ finished_pns = {}
    /\ acked_frames = {}
    /\ crashed = FALSE

-----------------------------------------------------------------------------
(* The connection's state as one record, so that the calls a handler makes *)
(* in sequence compose as operators; Commit writes a record back.          *)
C == [state |-> state, largest_sent_packet |-> largest_sent_packet,
      largest_acked_packet |-> largest_acked_packet, sent_packets |-> sent_packets,
      bytes_in_flight |-> bytes_in_flight, congestion_window |-> congestion_window,
      ssthresh |-> ssthresh, end_of_recovery |-> end_of_recovery,
      handshake_count |-> handshake_count, tlp_count |-> tlp_count,
      rto_count |-> rto_count, largest_sent_before_rto |-> largest_sent_before_rto,
      loss_time |-> loss_time, rtt_sampled |-> rtt_sampled,
      awaiting_handshake |-> awaiting_handshake, config |-> config,
      handshake_pending |-> handshake_pending,
      pending |-> pending, pending_acks |-> pending_acks,
      permit_ack_only |-> permit_ack_only, set_loss_detection |-> set_loss_detection,
      max_data |-> max_data, data_sent |-> data_sent, blocked_streams |-> blocked_streams,
      send_stream |-> send_stream, finished |-> finished, events |-> events,
      initial_pns |-> initial_pns,
      finished_pns |-> finished_pns, acked_frames |-> acked_frames, crashed |-> crashed]

Commit(r) ==
    /\ state' = r.state /\ largest_sent_packet' = r.largest_sent_packet
    /\ largest_acked_packet' = r.largest_acked_packet /\ sent_packets' = r.sent_packets
    /\ bytes_in_flight' = r.bytes_in_flight /\ congestion_window' = r.congestion_window
    /\ ssthresh' = r.ssthresh /\ end_of_recovery' = r.end_of_recovery
    /\ handshake_count' = r.handshake_count /\ tlp_count' = r.tlp_count
    /\ rto_count' = r.rto_count /\ largest_sent_before_rto' = r.largest_sent_before_rto
    /\ loss_time' = r.loss_time /\ rtt_sampled' = r.rtt_sampled
    /\ awaiting_handshake' = r.awaiting_handshake /\ config' = r.config
    /\ handshake_pending' = r.handshake_pending
    /\ pending' = r.pending /\ pending_acks' = r.pending_acks
    /\ permit_ack_only' = r.permit_ack_only /\ set_loss_detection' = r.set_loss_detection
    /\ max_data' = r.max_data /\ data_sent' = r.data_sent
    /\ blocked_streams' = r.blocked_streams /\ send_stream' = r.send_stream
    /\ finished' = r.finished /\ events' = r.events
    /\ initial_pns' = r.initial_pns /\ finished_pns' = r.finished_pns
    /\ acked_frames' = r.acked_frames /\ crashed' = r.crashed

Ascending(S) == SetToSortSeq(S, LAMBDA a, b : a < b)

(* The application stream is client-initiated and unidirectional, so      *)
(* maybe_cleanup discards it as soon as its send half is DataRecvd; from  *)
(* then on get_send_mut and streams.get find nothing.                      *)
Discarded(r) == r.send_stream.state = "DataRecvd"

in_recovery(r, packet) == packet <= r.end_of_recovery

congestion_blocked(r) ==
    (IF r.congestion_window > r.bytes_in_flight
     THEN r.congestion_window - r.bytes_in_flight ELSE 0) < MTU

blocked(r) == r.data_sent >= r.max_data \/ congestion_blocked(r)

(* The deadline is abstract: only whether the alarm is set or cancelled.   *)
set_loss_detection_alarm(r) ==
    [r EXCEPT !.set_loss_detection = IF r.bytes_in_flight = 0 THEN "stop" ELSE "start"]

Event(type, s) == [type |-> type, stream |-> s]

(* The writability wakeup of on_ack_received and the MaxData handler.      *)
WakeBlocked(before, r) ==
    IF blocked(before) /\ ~blocked(r)
    THEN [r EXCEPT !.events = @ \o [i \in 1..Cardinality(r.blocked_streams) |->
                                      Event("StreamWritable", SetToSeq(r.blocked_streams)[i])],
                   !.blocked_streams = {}]
    ELSE r

(* on_packet_acked, the loop over the acknowledged STREAM frames.  Stream  *)
(* 0's byte count is not tracked: its send half never leaves Ready.        *)
AckStreamFrame(r, f) ==
    IF f.sid # AppStream \/ Discarded(r) THEN r
    ELSE LET ss    == [r.send_stream EXCEPT !.bif = @ - f.len]
             recvd == ss.state = "DataSent" /\ ss.bif = 0
         IN [r EXCEPT !.send_stream = IF recvd THEN [ss EXCEPT !.state = "DataRecvd"] ELSE ss,
                      !.finished    = IF recvd THEN Append(@, AppStream) ELSE @]

on_packet_acked(r, packet) ==
    IF packet \notin DOMAIN r.sent_packets THEN r
    ELSE LET info == r.sent_packets[packet]
             cw   == r.congestion_window
             grown == IF info.bytes = 0 \/ in_recovery(r, packet) THEN cw
                      ELSE IF cw < r.ssthresh THEN cw + info.bytes
                      ELSE cw + (DefaultMss * info.bytes) \div cw
             r1 == [r EXCEPT
                      !.sent_packets = Restrict(@, DOMAIN @ \ {packet}),
                      !.bytes_in_flight = @ - info.bytes,
                      !.congestion_window =
                          IF r.rto_count > 0 /\ packet > r.largest_sent_before_rto
                          THEN MinimumWindow ELSE grown,
                      !.handshake_count = 0, !.tlp_count = 0, !.rto_count = 0,
                      !.pending_acks = @ \ info.acks,
                      !.acked_frames = @ \cup {f \in Range(info.frames) : f.sid = AppStream}]
         IN FoldLeft(AckStreamFrame, r1, info.frames)

(* Mutant: a lost packet's bytes are not taken out of bytes_in_flight. *)
Requeue_keep_bytes(r, packet) ==
    LET info == r.sent_packets[packet]
    IN [r EXCEPT !.sent_packets = Restrict(@, DOMAIN @ \ {packet}),
                 !.handshake_pending = IF info.handshake THEN @ \o info.frames ELSE @,
                 !.pending = IF info.handshake THEN @ ELSE @ \o info.frames]

(* Mutant: only handshake frames are requeued; 1-RTT frames are dropped. *)
Requeue_drop_stream(r, packet) ==
    LET info == r.sent_packets[packet]
    IN [r EXCEPT !.sent_packets = Restrict(@, DOMAIN @ \ {packet}),
                 !.handshake_pending = IF info.handshake THEN @ \o info.frames ELSE @,
                 !.bytes_in_flight = @ - info.bytes]

(* A packet deemed lost: its frames rejoin the queue of its level.         *)
Requeue(r, packet) ==
    LET info == r.sent_packets[packet]
    IN [r EXCEPT !.sent_packets = Restrict(@, DOMAIN @ \ {packet}),
                 !.handshake_pending = IF info.handshake THEN @ \o info.frames ELSE @,
                 !.pending = IF info.handshake THEN @ ELSE @ \o info.frames,
                 !.bytes_in_flight = @ - info.bytes]

(* detect_lost_packets.  A packet below largest_acked is lost when it is  *)
(* more than reordering_threshold behind, or when it was sent at least    *)
(* delay_until_lost ago.  Send times grow with packet numbers, so the     *)
(* packets old enough are those up to some cut.  The delay is infinite    *)
(* unless time loss detection is on or largest_acked is the largest sent; *)
(* it is 0 while no RTT has been measured.                                *)
(* Under time loss detection reordering_threshold is u32::MAX            *)
(* (Connection::new), so the packet-count test never fires.              *)
detect_lost_packets(r, largest_acked, cut) ==
    LET finite     == r.config.using_time_loss_detection \/ largest_acked = r.largest_sent_packet
        candidates == {p \in DOMAIN r.sent_packets : p < largest_acked}
        lost == {p \in candidates :
                    \/ finite /\ (~r.rtt_sampled \/ p <= cut)
                    \/ ~r.config.using_time_loss_detection
                       /\ largest_acked - p > ReorderingThreshold}
        r1 == FoldLeft(Requeue,
                       [r EXCEPT !.loss_time = finite /\ candidates \ lost # {}],
                       Ascending(lost))
        cw == Max({(r.congestion_window * LossReductionFactor) \div 65536, MinimumWindow})
    IN IF lost # {} /\ r1.bytes_in_flight # r.bytes_in_flight
             /\ ~in_recovery(r, Max(lost))
       THEN [r1 EXCEPT !.end_of_recovery = r.largest_sent_packet,
                       !.congestion_window = cw, !.ssthresh = cw]
       ELSE r1

(* The maximal ranges of an ACK frame, and the orders in which            *)
(* on_ack_received may visit its packets: each range ascending (a          *)
(* BTreeMap range), the ranges in the order the frame iterator yields      *)
(* them, which is left open.                                               *)
(* update_rtt: only whether smoothed_rtt is non-zero is kept; a sample   *)
(* exists once an ACK names a packet still in sent_packets.                *)
update_rtt(r) == [r EXCEPT !.rtt_sampled = TRUE]

(* on_packet_authenticated: the packet joins pending_acks (MAX_ACK_BLOCKS *)
(* is never reached within the bounds; rx_packet and the idle timer are   *)
(* not modelled here).                                                     *)
on_packet_authenticated(r, number) == [r EXCEPT !.pending_acks = @ \cup {number}]

(* transmit_handshake: the client's next TLS flight is the ClientFinished. *)
transmit_handshake(r) ==
    [r EXCEPT !.handshake_pending = Append(@, ClientFinished), !.awaiting_handshake = TRUE]

(* set_params: the peer's initial_max_data becomes the connection limit.   *)
set_params(r) == [r EXCEPT !.max_data = InitialMaxData]

(* transmit: one unit of application data is queued on the stream.        *)
transmit(r) ==
    [r EXCEPT !.pending = Append(@, [sid |-> AppStream, off |-> r.send_stream.offset,
                                     len |-> 1, fin |-> FALSE]),
              !.send_stream = [@ EXCEPT !.offset = @ + 1, !.bif = @ + 1],
              !.data_sent = @ + 1]

(* The cuts worth telling apart when detect_lost_packets runs for        *)
(* largest_acked: none unless the delay is finite.                         *)
Cuts(largest_acked) ==
    IF config.using_time_loss_detection \/ largest_acked = largest_sent_packet
    THEN 0..(IF largest_acked > 0 THEN largest_acked - 1 ELSE 0) ELSE {0}

AckRanges(acks) ==
    {{q \in s..Max(acks) : \A x \in s..q : x \in acks} : s \in {p \in acks : p - 1 \notin acks}}

AckOrders(acks) ==
    {FlattenSeq([i \in DOMAIN perm |-> Ascending(perm[i])]) : perm \in SetToSeqs(AckRanges(acks))}

on_ack_received(r, acks, order, cut) ==
    LET largest == Max(acks)
        r0 == [r EXCEPT !.largest_acked_packet = Max({@, largest})]
        r1 == IF largest \in DOMAIN r.sent_packets THEN update_rtt(r0) ELSE r0
        r2 == FoldLeft(on_packet_acked, r1, order)
    IN WakeBlocked(r, set_loss_detection_alarm(detect_lost_packets(r2, largest, cut)))

(* process_payload's ACK arm: on_ack_received, then the drain of         *)
(* streams.finished into StreamFinished events.                            *)
ProcessAck(r, acks, order, cut) ==
    LET a == on_ack_received(r, acks, order, cut)
    IN [a EXCEPT !.events = @ \o [i \in DOMAIN a.finished |->
                                   Event("StreamFinished", a.finished[i])],
                 !.finished = <<>>]

(* process_payload's MAX_DATA arm.                                         *)
ProcessMaxData(r, bytes) == WakeBlocked(r, [r EXCEPT !.max_data = Max({@, bytes})])

(* handshake_cleanup: every handshake packet still outstanding is taken as *)
(* delivered and the handshake retransmit queue is dropped.                *)
handshake_cleanup(r) ==
    IF ~r.awaiting_handshake THEN r
    ELSE set_loss_detection_alarm(
           FoldLeft(on_packet_acked,
                    [r EXCEPT !.awaiting_handshake = FALSE, !.handshake_pending = <<>>],
                    Ascending({p \in DOMAIN r.sent_packets : r.sent_packets[p].handshake})))

(* Mutant: the alarm is computed before the packet's bytes are counted. *)
on_packet_sent_alarm_first(r, packet) ==
    LET number == r.largest_sent_packet + 1
        r1 == [set_loss_detection_alarm(r) EXCEPT !.largest_sent_packet = number,
                        !.awaiting_handshake = @ \/ packet.handshake,
                        !.sent_packets = @ @@ (number :> packet)]
    IN [r1 EXCEPT !.bytes_in_flight = @ + packet.bytes]

(* get_tx_number followed by on_packet_sent.                              *)
on_packet_sent(r, packet) ==
    LET number == r.largest_sent_packet + 1
        r1 == [r EXCEPT !.largest_sent_packet = number,
                        !.awaiting_handshake = @ \/ packet.handshake,
                        !.sent_packets = @ @@ (number :> packet)]
    IN IF packet.bytes = 0 THEN r1
       ELSE set_loss_detection_alarm([r1 EXCEPT !.bytes_in_flight = @ + packet.bytes])

(* force_transmit: a PING in a 1-RTT packet.  Without 1-RTT keys the      *)
(* unwrap of self.crypto panics.                                           *)
force_transmit(r) ==
    IF r.state # "Established" THEN [r EXCEPT !.crashed = TRUE]
    ELSE on_packet_sent(r, [bytes |-> ProbeBytes, handshake |-> FALSE, acks |-> {}, frames |-> <<>>])

(* check_packet_loss: the handshake alarm, the early-retransmit/time-loss *)
(* alarm, the tail loss probe or the retransmission timeout.              *)
check_packet_loss(r, cut) ==
    LET r1 == CASE r.awaiting_handshake ->
                     [FoldLeft(Requeue, r, Ascending({p \in DOMAIN r.sent_packets :
                                                       r.sent_packets[p].handshake}))
                        EXCEPT !.handshake_count = @ + 1]
                [] r.loss_time ->
                     detect_lost_packets(r, r.largest_acked_packet, cut)
                [] r.tlp_count < r.config.max_tlps ->
                     [force_transmit(r) EXCEPT !.tlp_count = @ + 1]
                [] OTHER ->
                     LET r0 == IF r.rto_count = 0
                               THEN [r EXCEPT !.largest_sent_before_rto = r.largest_sent_packet]
                               ELSE r
                     IN [force_transmit(force_transmit(r0)) EXCEPT !.rto_count = @ + 1]
    IN set_loss_detection_alarm(r1)

(* Packet numbers check_packet_loss consumes, or the one the retransmission *)
(* it schedules will take: the timer is not fired once the packet-number  *)
(* bound leaves no room, which also bounds handshake_count.               *)
ProbeCount(r) ==
    CASE r.awaiting_handshake \/ r.loss_time -> 1
      [] r.tlp_count < r.config.max_tlps -> 1
      [] OTHER -> 2

(* next_packet's choice between a long-header handshake packet and a      *)
(* 1-RTT packet, and its early returns.                                    *)
HandshakeMode(r) ==
    /\ r.state = "Handshake" \/ r.awaiting_handshake
    /\ r.handshake_pending # <<>> \/ (r.pending_acks # {} /\ r.permit_ack_only)

OneRttMode(r) ==
    /\ ~HandshakeMode(r)
    /\ r.state = "Established"
    /\ ~congestion_blocked(r)
    /\ ~(r.pending = <<>> /\ (~r.permit_ack_only \/ r.pending_acks = {}))

(* Mutant: the room test is off by one, one frame too many is packed. *)
RECURSIVE TakeStreamFrames_overfill(_, _, _, _)
TakeStreamFrames_overfill(queue, room, sent, discarded) ==
    IF queue = <<>> \/ room < 0 THEN <<sent, queue>>
    ELSE IF Head(queue).sid # 0 /\ discarded
         THEN TakeStreamFrames_overfill(Tail(queue), room, sent, discarded)
         ELSE TakeStreamFrames_overfill(Tail(queue), room - 1, Append(sent, Head(queue)), discarded)

(* next_packet's STREAM loop: frames of a discarded stream are skipped,   *)
(* the others are taken while the packet has room.                        *)
RECURSIVE TakeStreamFrames(_, _, _, _)
TakeStreamFrames(queue, room, sent, discarded) ==
    IF queue = <<>> \/ room = 0 THEN <<sent, queue>>
    ELSE IF Head(queue).sid # 0 /\ discarded
         THEN TakeStreamFrames(Tail(queue), room, sent, discarded)
         ELSE TakeStreamFrames(Tail(queue), room - 1, Append(sent, Head(queue)), discarded)

(* Mutant: the 1-RTT frames put in the packet stay at the head of pending. *)
next_packet_keep_queue(r) ==
    LET handshake == HandshakeMode(r)
        queue     == IF handshake THEN r.handshake_pending ELSE r.pending
        initial   == handshake /\ queue # <<>> /\ Head(queue).off = 0
        acks      == r.pending_acks
        take      == TakeStreamFrames(queue, PacketCapacity, <<>>, Discarded(r))
        size      == 1 + (IF acks # {} THEN 1 ELSE 0) + Len(take[1])
        number    == r.largest_sent_packet + 1
        r1 == [r EXCEPT !.handshake_pending = IF handshake THEN take[2] ELSE @,
                        !.permit_ack_only = @ /\ acks = {},
                        !.initial_pns = IF initial THEN @ \cup {number} ELSE @,
                        !.finished_pns = IF ClientFinished \in Range(take[1])
                                         THEN @ \cup {number} ELSE @]
    IN on_packet_sent(r1, [bytes |-> IF queue = <<>> THEN 0
                                     ELSE IF initial THEN MTU ELSE size,
                           handshake |-> handshake, acks |-> acks, frames |-> take[1]])

(* next_packet when it returns a packet.  A client Initial (the queue     *)
(* starts at offset 0 of stream 0) is padded to the MTU; otherwise the    *)
(* size counts a header, an ACK frame and one unit per STREAM frame.      *)
next_packet(r) ==
    LET handshake == HandshakeMode(r)
        queue     == IF handshake THEN r.handshake_pending ELSE r.pending
        initial   == handshake /\ queue # <<>> /\ Head(queue).off = 0
        acks      == r.pending_acks
        take      == TakeStreamFrames(queue, PacketCapacity, <<>>, Discarded(r))
        size      == 1 + (IF acks # {} THEN 1 ELSE 0) + Len(take[1])
        number    == r.largest_sent_packet + 1
        r1 == [r EXCEPT !.handshake_pending = IF handshake THEN take[2] ELSE @,
                        !.pending = IF handshake THEN @ ELSE take[2],
                        !.permit_ack_only = @ /\ acks = {},
                        !.initial_pns = IF initial THEN @ \cup {number} ELSE @,
                        !.finished_pns = IF ClientFinished \in Range(take[1])
                                         THEN @ \cup {number} ELSE @]
    IN on_packet_sent(r1, [bytes |-> IF queue = <<>> THEN 0
                                   ELSE IF initial THEN MTU ELSE size,
                         handshake |-> handshake, acks |-> acks, frames |-> take[1]])

-----------------------------------------------------------------------------
(* Connection::write on the application stream, one unit.  The stream is  *)
(* opened after Connected, and the application stops writing once it has  *)
(* called finish (transmit asserts Ready).                                 *)
AppCanWrite ==
    /\ ~flushing /\ ~crashed
    /\ state = "Established"
    /\ send_stream.state = "Ready"
    /\ send_stream.offset < Bounds(config).writes

(* write when blocked(): the stream is remembered for a StreamWritable.   *)
WriteBlocked ==
    /\ AppCanWrite
    /\ blocked(C)
    /\ blocked_streams' = blocked_streams \cup {AppStream}
    /\ UNCHANGED <<conn_vars, handshake_pending, pending, pending_acks, permit_ack_only,
                   set_loss_detection, max_data, data_sent, send_stream, finished,
                   events, env_vars>>

(* write within both budgets: transmit queues a STREAM frame.  The stream *)
(* window is taken to exceed NWrites, so the budget is the connection's.   *)
Write ==
    /\ AppCanWrite
    /\ ~blocked(C)
    /\ Commit(transmit(C))
    /\ dirty' = TRUE
    /\ UNCHANGED <<flushing, ld_timer, peer_pn>>

(* Connection::finish (and Endpoint::finish, which marks the connection   *)
(* dirty): the fin rides on the queued frame that ends at the write        *)
(* offset, else an empty fin frame is queued.                              *)
finish ==
    /\ ~flushing /\ ~crashed
    /\ state = "Established"
    /\ send_stream.state = "Ready"
    /\ LET ends == {i \in DOMAIN pending : pending[i].sid = AppStream
                                         /\ pending[i].off + pending[i].len = send_stream.offset}
       IN pending' = IF ends # {} THEN [pending EXCEPT ![Min(ends)].fin = TRUE]
                     ELSE Append(pending, [sid |-> AppStream, off |-> send_stream.offset,
                                           len |-> 0, fin |-> TRUE])
    /\ send_stream' = [send_stream EXCEPT !.state = "DataSent"]
    /\ dirty' = TRUE
    /\ UNCHANGED <<conn_vars, handshake_pending, pending_acks, permit_ack_only,
                   set_loss_detection, max_data, data_sent, blocked_streams, finished,
                   events, flushing, ld_timer, peer_pn,
                   initial_pns, finished_pns, acked_frames, crashed>>

(* Endpoint::poll_io takes a dirty connection and runs flush_pending: it   *)
(* calls next_packet until it returns None, then hands the pending timer  *)
(* change to the driver.  flush_pending runs to completion before any     *)
(* other call on the endpoint; the flushing flag keeps its steps together. *)
StartFlush ==
    /\ dirty /\ ~flushing /\ ~crashed
    /\ flushing' = TRUE
    /\ UNCHANGED <<conn_vars, queue_vars, dirty, ld_timer,
                   peer_pn, initial_pns, finished_pns, acked_frames, crashed>>

SendPacket ==
    /\ flushing
    /\ HandshakeMode(C) \/ OneRttMode(C)
    /\ largest_sent_packet < MaxPn
    /\ Commit(next_packet(C))
    /\ UNCHANGED <<dirty, flushing, ld_timer, peer_pn>>

(* next_packet returned None (or the packet-number bound is reached).     *)
FinishFlush ==
    /\ flushing
    /\ ~(HandshakeMode(C) \/ OneRttMode(C)) \/ largest_sent_packet = MaxPn
    /\ ld_timer' = CASE set_loss_detection = "start" -> "armed"
                     [] set_loss_detection = "stop"  -> "stopped"
                     [] OTHER -> ld_timer
    /\ set_loss_detection' = "none"
    /\ dirty' = FALSE
    /\ flushing' = FALSE
    /\ UNCHANGED <<conn_vars, handshake_pending, pending, pending_acks, permit_ack_only,
                   max_data, data_sent, blocked_streams, send_stream, finished, events,
                   peer_pn, initial_pns, finished_pns,
                   acked_frames, crashed>>

(* Endpoint::timeout(LossDetection): the driver's timer expires and       *)
(* check_packet_loss runs.  The driver learns of a timer change only when *)
(* it polls it; unless StaleTimers, it fires only a timer that is current. *)
LossDetectionTimeout ==
    /\ ~flushing /\ ~crashed
    /\ ld_timer = "armed"
    /\ StaleTimers \/ set_loss_detection = "none"
    /\ largest_sent_packet + ProbeCount(C) <= MaxPn
    /\ \E cut \in IF loss_time THEN Cuts(largest_acked_packet) ELSE {0} :
           Commit(check_packet_loss(C, cut))
    /\ ld_timer' = "stopped"
    /\ dirty' = TRUE
    /\ UNCHANGED <<flushing, peer_pn>>

(* handle_packet for a server Handshake packet while the client is in    *)
(* Handshake: on_packet_authenticated, then the frames (ACK first, as the *)
(* peer's next_packet orders them; its STREAM 0 data sets permit_ack_only *)
(* and feeds TLS), then the TLS outcome.  A finished handshake applies    *)
(* set_params, runs handshake_cleanup, queues the ClientFinished with     *)
(* transmit_handshake and reports Connected; an ongoing one runs          *)
(* handshake_cleanup and, the client having nothing to say until the      *)
(* server's Finished, queues nothing.  The server answers only once it    *)
(* has a ClientHello.                                                      *)
PeerHandshakePacket ==
    /\ ~flushing /\ ~crashed
    /\ state = "Handshake"
    /\ initial_pns # {}
    /\ peer_pn < Bounds(config).peer_packets
    /\ \E acks \in SUBSET (1..largest_sent_packet), complete \in BOOLEAN :
       \E order \in AckOrders(acks), cut \in Cuts(Max(acks \cup {0})) :
         LET r0 == [on_packet_authenticated(C, peer_pn + 1) EXCEPT !.permit_ack_only = TRUE]
             r1 == IF acks = {} THEN r0 ELSE on_ack_received(r0, acks, order, cut)
             r2 == transmit_handshake(handshake_cleanup(set_params(r1)))
         IN Commit(IF complete
                   THEN [r2 EXCEPT !.events = Append(@, Event("Connected", 0)),
                                   !.state = "Established"]
                   ELSE handshake_cleanup(r1))
    /\ peer_pn' = peer_pn + 1
    /\ dirty' = TRUE
    /\ UNCHANGED <<flushing, ld_timer>>

(* handle_packet for a server 1-RTT packet while Established: the server  *)
(* sends them once it has the ClientFinished.  on_packet_authenticated,   *)
(* handshake_cleanup if still awaiting the handshake, then process_payload *)
(* over the frames in the peer's order: ACK (followed by the drain of     *)
(* streams.finished into StreamFinished events), then MAX_DATA; any       *)
(* frame but ACK sets permit_ack_only.                                     *)
PeerShortPacket ==
    /\ ~flushing /\ ~crashed
    /\ state = "Established"
    /\ finished_pns # {}
    /\ peer_pn < Bounds(config).peer_packets
    /\ \E acks \in SUBSET (1..largest_sent_packet), elicit \in BOOLEAN,
          grant \in {0} \cup (max_data + 1..MaxDataLimit) :
       \E order \in AckOrders(acks), cut \in Cuts(Max(acks \cup {0})) :
         /\ grant > 0 => elicit
         /\ acks # {} \/ elicit
         /\ LET r0 == handshake_cleanup(on_packet_authenticated(C, peer_pn + 1))
                r1 == [r0 EXCEPT !.permit_ack_only = @ \/ elicit]
                r2 == IF acks = {} THEN r1 ELSE ProcessAck(r1, acks, order, cut)
            IN Commit(IF grant = 0 THEN r2 ELSE ProcessMaxData(r2, grant))
    /\ peer_pn' = peer_pn + 1
    /\ dirty' = TRUE
    /\ UNCHANGED <<flushing, ld_timer>>

Next ==
    \/ WriteBlocked \/ Write \/ finish
    \/ StartFlush \/ SendPacket \/ FinishFlush
    \/ LossDetectionTimeout
    \/ PeerHandshakePacket \/ PeerShortPacket

Spec == Init /\ [][Next]_vars

-----------------------------------------------------------------------------
(* Units of application data in a sequence of STREAM frames.               *)
AppUnits(frames) ==
    FoldLeft(LAMBDA n, f : n + (IF f.sid = AppStream THEN f.len ELSE 0), 0, frames)

(* The frames the connection will still (re)send or is waiting to have     *)
(* acknowledged.                                                           *)
Outstanding ==
    Range(pending) \cup UNION {Range(sent_packets[p].frames) : p \in DOMAIN sent_packets}

(* bytes_in_flight, a u64 that on_packet_acked, detect_lost_packets and    *)
(* check_packet_loss decrease with "-=", is always the sum of the sizes of *)
(* the packets still in sent_packets: every path that removes a packet     *)
(* (acknowledgement, loss, handshake retransmission, handshake_cleanup)    *)
(* subtracts exactly what on_packet_sent added, so it never underflows and *)
(* congestion_blocked sees the real load.                                  *)
BytesInFlightConservation ==
    bytes_in_flight = MapThenSumSet(LAMBDA p : sent_packets[p].bytes, DOMAIN sent_packets)

(* The stream's bytes_in_flight, which on_packet_acked uses to decide     *)
(* DataRecvd, counts exactly the data units queued in pending or carried  *)
(* by an unacknowledged packet, across losses, requeues and spurious      *)
(* retransmissions, until the stream is discarded.                        *)
StreamBytesInFlight ==
    ~Discarded(C) =>
        send_stream.bif = AppUnits(pending)
                          + MapThenSumSet(LAMBDA p : AppUnits(sent_packets[p].frames),
                                          DOMAIN sent_packets)

(* No written data is forgotten: every unit below the write offset has    *)
(* been acknowledged by the peer or is still queued or in flight.  Lost   *)
(* packets must hand their frames back to pending, and handshake_cleanup  *)
(* may drop only handshake data.                                           *)
NoDataLoss ==
    \A o \in 0..send_stream.offset - 1 :
        \E f \in acked_frames \cup Outstanding : f.sid = AppStream /\ f.off = o /\ f.len = 1

(* Whenever the driver is up to date (no flush running and no timer       *)
(* change waiting), its loss-detection timer is armed exactly when bytes  *)
(* are in flight: data in flight is never left without a retransmission   *)
(* timer, and no timer is left running over an empty flight.              *)
AlarmMatchesInFlight ==
    (~flushing /\ set_loss_detection = "none") =>
        (ld_timer = "armed" <=> bytes_in_flight > 0)

(* The connection never panics: force_transmit's unwrap of the 1-RTT keys *)
(* is reached only once the handshake is complete.                         *)
NoPanic == ~crashed

(* Endpoint::finish promises that all previously transmitted data will    *)
(* still be delivered: once on_packet_acked declares the stream DataRecvd *)
(* (and maybe_cleanup discards it), the peer has acknowledged its fin.    *)
FinDelivered ==
    Discarded(C) => \E f \in acked_frames : f.fin

=============================================================================
