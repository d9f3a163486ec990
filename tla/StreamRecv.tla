----------------------------- MODULE StreamRecv -----------------------------
(***************************************************************************)
(* The receiving half of the unidirectional streams a peer opens on one  *)
(* quinn-proto connection (src/quinn-proto/src/connection.rs), with the  *)
(* connection-level flow control that covers them: the stream table made  *)
(* at creation, the STREAM and RST_STREAM branches of process_payload,    *)
(* get_recv_stream, the application's read, read_unordered and           *)
(* stop_sending (Endpoint and Connection), maybe_cleanup, Connection::poll *)
(* and the flow-control frames of next_packet.                            *)
(*                                                                         *)
(* The peer is a conforming quinn-proto sender: it writes within the      *)
(* credit it has learned (write, set_params, the MAX_DATA and             *)
(* MAX_STREAM_ID handlers), finishes and resets streams, and answers      *)
(* STOP_SENDING with a reset.  The wire is a set in each direction: a     *)
(* frame once sent may be delivered any number of times, in any order,    *)
(* or never, which covers loss, retransmission, duplication and           *)
(* reordering.  Data is counted in units; a STREAM frame carries one unit *)
(* or, fin-only, none.                                                    *)
(*                                                                         *)
(* The receive state machine, range set and assembler live in stream.rs   *)
(* and range_set.rs, which are not part of this source tree; they are     *)
(* modelled from spec.md §2 and §4.3.                                     *)
(***************************************************************************)
EXTENDS Integers, FiniteSets, FiniteSetsExt, Functions, Bags, BagsExt

CONSTANTS
    MaxRemoteUniStreams, \* Config::max_remote_uni_streams
    StreamReceiveWindow, \* Config::stream_receive_window, in units
    ReceiveWindow,       \* Config::receive_window, in units
    NStreams,            \* the peer opens streams of index below NStreams
    MaxRx                \* frames delivered, in both directions, at most

ASSUME MaxRemoteUniStreams \in 1..NStreams /\ ReceiveWindow >= 1
       /\ StreamReceiveWindow >= 1 /\ MaxRx \in Nat

NoSize  == -1          \* Recv { size: None }
NoError == "none"
Ids     == 0..(NStreams - 1)
Offsets == 0..(StreamReceiveWindow - 1)

VARIABLES
    (* the receiving connection *)
    streams,          \* Streams::streams: stream index -> receive half
    max_remote_uni,   \* Streams::max_remote_uni
    data_recvd,       \* Connection::data_recvd
    local_max_data,   \* Connection::local_max_data
    pending,          \* max_data, max_uni_stream_id and stop_sending of Retransmits
    readable_streams, \* Connection::readable_streams
    error,            \* the TransportError process_payload returned, if any
    panicked,         \* an unwrap or expect of the receiver has failed
    (* the application *)
    unordered,        \* does it read with read_unordered?
    reading,          \* streams it was told are readable and reads until blocked
    (* the peer *)
    sent,             \* stream index -> SendStream::offset
    fin_sent,         \* streams it has finished
    reset_sent,       \* streams it has reset
    peer_max_data,    \* its Connection::max_data
    peer_max_uni,     \* its Streams::max_uni
    peer_error,       \* the TransportError its process_payload returned, if any
    (* the network *)
    wire,             \* frames sent to the receiver
    to_peer,          \* frames sent to the peer
    rx                \* frames delivered so far

recv_vars == <<streams, max_remote_uni, data_recvd, local_max_data, pending,
               readable_streams, error, panicked>>
app_vars  == <<unordered, reading>>
peer_vars == <<sent, fin_sent, reset_sent, peer_max_data, peer_max_uni, peer_error>>
net_vars  == <<wire, to_peer, rx>>
vars      == <<recv_vars, app_vars, peer_vars, net_vars>>

RecvStates == {"Recv", "DataRecvd", "ResetRecvd", "Closed"}
StreamFrame == [kind : {"STREAM"}, id : Ids, off : Offsets, len : {0, 1}, fin : BOOLEAN]
RstFrame    == [kind : {"RST_STREAM"}, id : Ids, final : 0..StreamReceiveWindow]
PeerFrame   == [kind : {"MAX_DATA", "MAX_STREAM_ID"}, v : Nat]
               \cup [kind : {"STOP_SENDING"}, id : Ids]

TypeOK ==
    /\ DOMAIN streams \subseteq Nat
    /\ \A i \in DOMAIN streams : streams[i].state \in RecvStates
    /\ max_remote_uni \in Nat /\ data_recvd \in Nat /\ local_max_data \in Nat
    /\ pending \in [max_data : BOOLEAN, max_uni_stream_id : BOOLEAN, stop_sending : SUBSET Ids]
    /\ readable_streams \subseteq Ids /\ reading \subseteq Ids
    /\ unordered \in BOOLEAN /\ panicked \in BOOLEAN
    /\ sent \in [Ids -> 0..StreamReceiveWindow]
    /\ fin_sent \subseteq Ids /\ reset_sent \subseteq Ids
    /\ wire \subseteq StreamFrame \cup RstFrame /\ to_peer \subseteq PeerFrame
    /\ rx \in 0..MaxRx

-----------------------------------------------------------------------------
(* The receive half of stream.rs: Recv::new, limit (the high-water mark of *)
(* recvd), final_offset, is_finished and is_closed.                        *)

NewRecv == [recvd |-> {}, state |-> "Recv", size |-> NoSize,
            read_off |-> 0, buffered |-> EmptyBag]

limit(rs) == IF rs.recvd = {} THEN 0 ELSE Max(rs.recvd) + 1

final_offset(rs) == IF rs.state = "Closed" THEN NoSize ELSE rs.size

is_finished(rs) == rs.state # "Recv"

is_closed(rs) == rs.state = "Closed"

(* Assembler::insert: the unit a frame carries, unless the ordered reader  *)
(* has already consumed it.                                                 *)
buffer(rs, f) ==
    IF f.len = 1 /\ f.off >= rs.read_off THEN BagAdd(rs.buffered, f.off)
                                         ELSE rs.buffered

(* Recv::read_blocked, when no data is ready: the reset or the end of the  *)
(* stream is reported once and closes the receive half.                    *)
at_end(rs) == rs.state \in {"DataRecvd", "ResetRecvd"}

SatSub(a, b) == IF a > b THEN a - b ELSE 0

-----------------------------------------------------------------------------
(* The receiving connection. *)

Init_recv ==
    /\ streams = [i \in 0..(MaxRemoteUniStreams - 1) |-> NewRecv]
    /\ max_remote_uni = MaxRemoteUniStreams
    /\ data_recvd = 0
    /\ local_max_data = ReceiveWindow
    /\ pending = [max_data |-> FALSE, max_uni_stream_id |-> FALSE, stop_sending |-> {}]
    /\ readable_streams = {}
    /\ error = NoError
    /\ panicked = FALSE

(* Streams::get_recv_stream for a peer-initiated unidirectional stream.    *)
get_recv_stream(id) ==
    IF id >= max_remote_uni THEN "STREAM_ID_ERROR"
    ELSE IF id \in DOMAIN streams THEN "Some" ELSE "None"

Live == error = NoError /\ peer_error = NoError /\ ~panicked

Deliver(f, set) == f \in set /\ rx < MaxRx /\ rx' = rx + 1

(* process_payload, Frame::Stream: the checks in the order the code makes  *)
(* them, then the range set, the assembler, the DataRecvd transition,      *)
(* readable_streams and data_recvd.                                         *)
ReceiveStream(f) ==
    /\ Live /\ f.kind = "STREAM" /\ Deliver(f, wire)
    /\ LET rs        == streams[f.id]
           end       == f.off + f.len
           fo        == final_offset(rs)
           new_bytes == SatSub(end, limit(rs))
           size      == IF f.fin /\ rs.state = "Recv" THEN end ELSE rs.size
           recvd     == IF f.len = 1 THEN rs.recvd \cup {f.off} ELSE rs.recvd
           complete  == rs.state = "Recv" /\ size # NoSize /\ size > 0
                        /\ recvd = 0..(size - 1)
           final_err == fo # NoSize /\ (end > fo \/ (f.fin /\ end # fo))
           flow_err  == end > StreamReceiveWindow
                        \/ data_recvd + new_bytes > local_max_data
       IN \/ /\ get_recv_stream(f.id) = "STREAM_ID_ERROR"
             /\ error' = "STREAM_ID_ERROR"
             /\ UNCHANGED <<streams, data_recvd, readable_streams>>
          \/ /\ get_recv_stream(f.id) = "None"
             /\ UNCHANGED <<streams, data_recvd, readable_streams, error>>
          \/ /\ get_recv_stream(f.id) = "Some"
             /\ final_err
             /\ error' = "FINAL_OFFSET_ERROR"
             /\ UNCHANGED <<streams, data_recvd, readable_streams>>
          \/ /\ get_recv_stream(f.id) = "Some"
             /\ ~final_err /\ flow_err
             /\ error' = "FLOW_CONTROL_ERROR"
             /\ UNCHANGED <<streams, data_recvd, readable_streams>>
          \/ /\ get_recv_stream(f.id) = "Some"
             /\ ~final_err /\ ~flow_err
             /\ streams' = [streams EXCEPT ![f.id] =
                   [rs EXCEPT !.size = size, !.recvd = recvd,
                              !.buffered = buffer(rs, f),
                              !.state = IF complete THEN "DataRecvd" ELSE rs.state]]
             /\ readable_streams' = readable_streams \cup {f.id}
             /\ data_recvd' = data_recvd + new_bytes
             /\ UNCHANGED error
    /\ UNCHANGED <<max_remote_uni, local_max_data, pending, panicked,
                   app_vars, peer_vars, wire, to_peer>>

(* process_payload, Frame::RstStream: a final offset that contradicts a    *)
(* known one is an error; otherwise the stream is reset unless closed and  *)
(* the bytes past its limit are counted, with no flow-control check.       *)
ReceiveRst(f) ==
    /\ Live /\ f.kind = "RST_STREAM" /\ Deliver(f, wire)
    /\ LET rs == streams[f.id]
           fo == final_offset(rs)
       IN \/ /\ get_recv_stream(f.id) = "STREAM_ID_ERROR"
             /\ error' = "STREAM_ID_ERROR"
             /\ UNCHANGED <<streams, data_recvd, readable_streams>>
          \/ /\ get_recv_stream(f.id) = "None"
             /\ UNCHANGED <<streams, data_recvd, readable_streams, error>>
          \/ /\ get_recv_stream(f.id) = "Some"
             /\ fo # NoSize /\ fo # f.final
             /\ error' = "FINAL_OFFSET_ERROR"
             /\ UNCHANGED <<streams, data_recvd, readable_streams>>
          \/ /\ get_recv_stream(f.id) = "Some"
             /\ fo = NoSize \/ fo = f.final
             /\ streams' = [streams EXCEPT ![f.id] =
                   IF is_closed(rs) THEN rs
                   ELSE [rs EXCEPT !.state = "ResetRecvd", !.size = f.final]]
             /\ data_recvd' = data_recvd + SatSub(f.final, limit(rs))
             /\ readable_streams' = readable_streams \cup {f.id}
             /\ UNCHANGED error
    /\ UNCHANGED <<max_remote_uni, local_max_data, pending, panicked,
                   app_vars, peer_vars, wire, to_peer>>

(* Connection::maybe_cleanup for a peer-initiated unidirectional stream: a *)
(* closed receive half is removed from the table and replaced by a fresh   *)
(* stream slot one past the old limit, whose new value is advertised.      *)
(* readable_streams is left as it is.                                      *)
maybe_cleanup(id, table) ==
    IF is_closed(table[id])
    THEN /\ streams' = [i \in (DOMAIN table \ {id}) \cup {max_remote_uni} |->
                           IF i = max_remote_uni THEN NewRecv ELSE table[i]]
         /\ max_remote_uni' = max_remote_uni + 1
         /\ pending' = [pending EXCEPT !.max_uni_stream_id = TRUE]
    ELSE /\ streams' = table
         /\ UNCHANGED <<max_remote_uni, pending>>

(* Connection::read when the assembler has the unit at the read offset:   *)
(* it is consumed and granted back as connection credit.                   *)
read(id) ==
    LET rs == streams[id] IN
    /\ rs.read_off \in BagToSet(rs.buffered)
    /\ streams' = [streams EXCEPT ![id] =
          [rs EXCEPT !.read_off = @ + 1,
                     !.buffered = [o \in {x \in DOMAIN rs.buffered : x > rs.read_off}
                                     |-> rs.buffered[o]]]]
    /\ local_max_data' = local_max_data + 1
    /\ pending' = [pending EXCEPT !.max_data = TRUE]

(* Connection::read_unordered: any buffered segment, a duplicate included, *)
(* is returned and its length granted back as connection credit.          *)
read_unordered(id) ==
    \E o \in BagToSet(streams[id].buffered) :
       /\ streams' = [streams EXCEPT ![id].buffered = BagRemove(@, o)]
       /\ local_max_data' = local_max_data + 1
       /\ pending' = [pending EXCEPT !.max_data = TRUE]

(* Recv::read_blocked, as the endpoint sees it when nothing is ready:      *)
(* Blocked ends this round of reading; Finished or Reset is reported once, *)
(* closes the receive half, and the endpoint calls maybe_cleanup.  No      *)
(* credit is granted.                                                       *)
EndRead(id) ==
    /\ reading' = reading \ {id}
    /\ UNCHANGED local_max_data
    /\ IF at_end(streams[id])
       THEN maybe_cleanup(id, [streams EXCEPT ![id].state = "Closed"])
       ELSE UNCHANGED <<streams, max_remote_uni, pending>>

(* Endpoint::read: the application reads a stream it was told is readable. *)
Read(id) ==
    /\ Live /\ ~unordered /\ id \in reading
    /\ \/ read(id) /\ UNCHANGED <<max_remote_uni, reading>>
       \/ streams[id].read_off \notin BagToSet(streams[id].buffered) /\ EndRead(id)
    /\ UNCHANGED <<data_recvd, readable_streams, error, panicked, unordered,
                   peer_vars, net_vars>>

(* Endpoint::read_unordered. *)
ReadUnordered(id) ==
    /\ Live /\ unordered /\ id \in reading
    /\ \/ read_unordered(id) /\ UNCHANGED <<max_remote_uni, reading>>
       \/ streams[id].buffered = EmptyBag /\ EndRead(id)
    /\ UNCHANGED <<data_recvd, readable_streams, error, panicked, unordered,
                   peer_vars, net_vars>>

(* Connection::stop_sending: a STOP_SENDING is queued unless the stream   *)
(* is already finished.                                                     *)
stop_sending(id) ==
    pending' = IF is_finished(streams[id]) THEN pending
               ELSE [pending EXCEPT !.stop_sending = @ \cup {id}]

(* Endpoint::stop_sending: the application abandons a stream it reads.     *)
StopSending(id) ==
    /\ Live /\ id \in reading
    /\ stop_sending(id)
    /\ UNCHANGED <<streams, max_remote_uni, data_recvd, local_max_data,
                   readable_streams, error, panicked, app_vars, peer_vars, net_vars>>

(* Connection::poll: some readable stream is taken and its receive half  *)
(* looked up with get_recv_mut(..).unwrap().                                *)
poll(id) ==
    /\ readable_streams' = readable_streams \ {id}
    /\ IF id \in DOMAIN streams
       THEN reading' = reading \cup {id} /\ UNCHANGED panicked
       ELSE panicked' = TRUE /\ UNCHANGED reading

(* Endpoint::poll: once the endpoint's own events are out, each readable  *)
(* connection is polled.                                                    *)
Poll ==
    /\ Live
    /\ \E id \in readable_streams : poll(id)
    /\ UNCHANGED <<streams, max_remote_uni, data_recvd, local_max_data, pending,
                   error, unordered, peer_vars, net_vars>>

(* next_packet: the pending STOP_SENDING frames of streams still present   *)
(* and unfinished, MAX_DATA with local_max_data, and MAX_STREAM_ID with    *)
(* the highest stream index the peer may open.                             *)
Transmit ==
    /\ Live
    /\ pending # [max_data |-> FALSE, max_uni_stream_id |-> FALSE, stop_sending |-> {}]
    /\ to_peer' = to_peer
          \cup {[kind |-> "STOP_SENDING", id |-> id] :
                   id \in {i \in pending.stop_sending \cap DOMAIN streams :
                              ~is_finished(streams[i])}}
          \cup (IF pending.max_data
                THEN {[kind |-> "MAX_DATA", v |-> local_max_data]} ELSE {})
          \cup (IF pending.max_uni_stream_id
                THEN {[kind |-> "MAX_STREAM_ID", v |-> max_remote_uni - 1]} ELSE {})
    /\ pending' = [max_data |-> FALSE, max_uni_stream_id |-> FALSE, stop_sending |-> {}]
    /\ UNCHANGED <<streams, max_remote_uni, data_recvd, local_max_data,
                   readable_streams, error, panicked, app_vars, peer_vars, wire, rx>>


-----------------------------------------------------------------------------
(* The peer, a conforming quinn-proto endpoint. *)

(* Its Connection::data_sent: every unit written, reset streams included. *)
data_sent == SumFunction(sent)

(* set_params: the credit of the receiver's transport parameters.         *)
Init_peer ==
    /\ sent = [i \in Ids |-> 0]
    /\ fin_sent = {} /\ reset_sent = {}
    /\ peer_max_data = ReceiveWindow
    /\ peer_max_uni = MaxRemoteUniStreams
    /\ peer_error = NoError

CanSend(id) == Live /\ id < peer_max_uni /\ id \notin fin_sent \cup reset_sent

(* Connection::write of one unit, within the stream's and the connection's *)
(* credit, and possibly Connection::finish, whose fin joins the frame.    *)
PeerWrite(id) ==
    /\ CanSend(id)
    /\ sent[id] < StreamReceiveWindow /\ data_sent < peer_max_data
    /\ \E fin \in BOOLEAN :
          /\ wire' = wire \cup {[kind |-> "STREAM", id |-> id, off |-> sent[id],
                                 len |-> 1, fin |-> fin]}
          /\ fin_sent' = IF fin THEN fin_sent \cup {id} ELSE fin_sent
    /\ sent' = [sent EXCEPT ![id] = @ + 1]
    /\ UNCHANGED <<recv_vars, app_vars, reset_sent, peer_max_data, peer_max_uni,
                   peer_error, to_peer, rx>>

(* Connection::finish with no data pending: a fin-only frame.              *)
PeerFinish(id) ==
    /\ CanSend(id)
    /\ wire' = wire \cup {[kind |-> "STREAM", id |-> id, off |-> sent[id],
                           len |-> 0, fin |-> TRUE]}
    /\ fin_sent' = fin_sent \cup {id}
    /\ UNCHANGED <<recv_vars, app_vars, sent, reset_sent, peer_max_data,
                   peer_max_uni, peer_error, to_peer, rx>>

(* Connection::reset: RST_STREAM with the final offset, on a stream not    *)
(* already reset.                                                          *)
ResetFrame(id) == [kind |-> "RST_STREAM", id |-> id, final |-> sent[id]]

PeerReset(id) ==
    /\ Live /\ id < peer_max_uni /\ id \notin reset_sent
    /\ wire' = wire \cup {ResetFrame(id)}
    /\ reset_sent' = reset_sent \cup {id}
    /\ UNCHANGED <<recv_vars, app_vars, sent, fin_sent, peer_max_data,
                   peer_max_uni, peer_error, to_peer, rx>>

(* The peer's process_payload for the frames the receiver sends.          *)
PeerUnchanged == UNCHANGED <<recv_vars, app_vars, sent, fin_sent, to_peer>>

(* Frame::MaxData: the limit only ever rises.                              *)
PeerMaxData(f) ==
    /\ Live /\ f.kind = "MAX_DATA" /\ Deliver(f, to_peer)
    /\ peer_max_data' = Max({f.v, peer_max_data})
    /\ PeerUnchanged
    /\ UNCHANGED <<peer_max_uni, peer_error, reset_sent, wire>>

(* Frame::MaxStreamId: the stream limit rises to the index named plus one. *)
PeerMaxStreamId(f) ==
    /\ Live /\ f.kind = "MAX_STREAM_ID" /\ Deliver(f, to_peer)
    /\ peer_max_uni' = Max({f.v + 1, peer_max_uni})
    /\ PeerUnchanged
    /\ UNCHANGED <<peer_max_data, peer_error, reset_sent, wire>>

(* Frame::StopSending: on a stream it has written nothing to, a            *)
(* PROTOCOL_VIOLATION; otherwise Connection::reset, a no-op on a stream    *)
(* already reset.                                                           *)
PeerStopSending(f) ==
    /\ Live /\ f.kind = "STOP_SENDING" /\ Deliver(f, to_peer)
    /\ \/ /\ sent[f.id] = 0
          /\ peer_error' = "PROTOCOL_VIOLATION"
          /\ UNCHANGED <<reset_sent, wire>>
       \/ /\ sent[f.id] > 0
          /\ wire' = IF f.id \in reset_sent THEN wire ELSE wire \cup {ResetFrame(f.id)}
          /\ reset_sent' = reset_sent \cup {f.id}
          /\ UNCHANGED peer_error
    /\ PeerUnchanged
    /\ UNCHANGED <<peer_max_data, peer_max_uni>>

-----------------------------------------------------------------------------

Init ==
    /\ Init_recv /\ Init_peer
    /\ unordered \in BOOLEAN /\ reading = {}
    /\ wire = {} /\ to_peer = {} /\ rx = 0

Next ==
    \/ \E f \in wire : ReceiveStream(f) \/ ReceiveRst(f)
    \/ \E id \in Ids : Read(id) \/ ReadUnordered(id) \/ StopSending(id)
    \/ Poll
    \/ Transmit
    \/ \E id \in Ids : PeerWrite(id) \/ PeerFinish(id) \/ PeerReset(id)
    \/ \E f \in to_peer : PeerMaxData(f) \/ PeerMaxStreamId(f) \/ PeerStopSending(f)

Spec == Init /\ [][Next]_vars

(* Connection::poll never panics: every stream in readable_streams still   *)
(* has its receive half when the application polls (the unwrap of          *)
(* get_recv_mut in Connection::poll).                                      *)
NoPanic == ~panicked

=============================================================================
