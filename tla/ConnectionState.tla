--------------------------- MODULE ConnectionState ---------------------------
(***************************************************************************)
(* The life of one quinn-proto connection as the endpoint sees it         *)
(* (src/quinn-proto/src/connection.rs and endpoint.rs): the State enum    *)
(* (Handshake, Established, HandshakeFailed, Closed, Draining, Drained),  *)
(* the packet path that moves it (Endpoint::handle_decode ->              *)
(* Connection::handle_decode -> handle_packet -> decrypt_packet ->        *)
(* handle_connected_inner), the application's close and accept, the      *)
(* three endpoint timers (Close, Idle, LossDetection) with the intent     *)
(* records the connection leaves for flush_pending, the driver that       *)
(* applies the Io queue to its timers, and Endpoint::forget.              *)
(*                                                                         *)
(* Loss recovery, streams and the packet contents are abstract here (see  *)
(* LossRecovery): a packet is its header kind, whether it authenticates,  *)
(* and what its frames do to the state machine; what an ACK does to the   *)
(* loss-detection alarm, and whether next_packet finds something to send, *)
(* are nondeterministic.                                                  *)
(***************************************************************************)
EXTENDS Integers, Sequences, FiniteSets

CONSTANTS
    Sides,          \* the values Connection::side may take: {"Client"}, {"Server"} or both
    MaxRx,          \* bound on the datagrams delivered to the connection
    Forged,         \* may datagrams that fail authentication arrive?
    LateLong,       \* may a peer's long-header packet arrive after our Handshake state?
    KeylessShort,   \* may a client's 1-RTT packet reach a server without 1-RTT keys?
    Resets,         \* may the peer send a stateless reset?
    IdleFirst,      \* may the Idle timer expire while the Close timer is pending?
    InitialFails,   \* may Connection::handle_initial fail on a server?
    StaleTimers     \* may the driver fire a timer before polling the Io that changes it?

ASSUME Sides \subseteq {"Client", "Server"} /\ MaxRx \in Nat

States == {"Handshake", "Established", "HandshakeFailed", "Closed", "Draining", "Drained"}
Timers == {"Close", "LossDetection", "Idle"}
TimerOp == [timer : Timers, op : {"start", "stop"}]
Start(t) == [timer |-> t, op |-> "start"]
Stop(t)  == [timer |-> t, op |-> "stop"]

(* A datagram delivered to the connection: its header (Initial or        *)
(* Handshake long header, or Short), whether it authenticates under the   *)
(* keys decrypt_packet picks, and what its frames are: ordinary frames,   *)
(* a CONNECTION_CLOSE/APPLICATION_CLOSE, or a frame that is a protocol    *)
(* violation.  tls is what TLS makes of the STREAM 0 data of a Handshake  *)
(* packet.                                                                 *)
Packet == [hdr : {"Initial", "Handshake", "Short"}, auth : BOOLEAN,
           body : {"data", "close", "illegal"},
           tls : {"ongoing", "complete", "failed"}]

VARIABLES
    side,               \* Connection::side
    state,              \* Connection::state; "None" while it is None
    live,               \* the connection is in Endpoint::connections
    crypto,             \* Connection::crypto is Some (1-RTT keys)
    reset_token,        \* params.stateless_reset_token is Some
    app_closed,
    set_idle,           \* "none" or "start": Connection::set_idle
    set_loss_detection, \* "none", "start" or "stop"
    dirty,              \* the handle is in Context.dirty_conns
    io,                 \* the timer operations in Context.io, in order
    timers,             \* the timers the driver has armed for this handle
    events,             \* this connection's Context.events, in order
    incoming_handshakes,
    incoming,           \* the handle is in Context.incoming
    accepted,           \* the application holds the handle
    rx,                 \* datagrams delivered so far
    crashed             \* a panic (unwrap on None, slab index) took the endpoint down

vars == <<side, state, live, crypto, reset_token, app_closed, set_idle, set_loss_detection,
          dirty, io, timers, events, incoming_handshakes, incoming, accepted, rx, crashed>>

TypeOK ==
    /\ side \in Sides
    /\ state \in States \cup {"None"}
    /\ {live, crypto, reset_token, app_closed, dirty, incoming, accepted, crashed}
         \subseteq BOOLEAN
    /\ set_idle \in {"none", "start"}
    /\ set_loss_detection \in {"none", "start", "stop"}
    /\ io \in Seq(TimerOp)
    /\ timers \subseteq Timers
    /\ events \in Seq({"Connected", "ConnectionLost", "ConnectionDrained"})
    /\ incoming_handshakes \in Nat    \* Context.incoming_handshakes is a usize
    /\ rx \in 0..MaxRx

(* State::is_closed *)
is_closed(s) == s \in {"HandshakeFailed", "Closed", "Draining", "Drained"}

(* Connection::reset_idle_timeout: set_idle = Some(Some(now + dt)).       *)
reset_idle_timeout == "start"

-----------------------------------------------------------------------------
(* Creation.  A client: Endpoint::connect -> add_connection ->            *)
(* Connection::new -> connect (state Handshake, ClientHello queued), and   *)
(* the handle marked dirty.  A server: Endpoint::handle_initial ->        *)
(* add_connection (state None) -> Connection::handle_initial, which on    *)
(* success runs handshake_complete (on_packet_authenticated resets the    *)
(* idle timer, state Handshake, dirty, incoming_handshakes += 1) and on   *)
(* an unparsable Initial or a TLS failure returns leaving state None.     *)
Init ==
    /\ side \in Sides
    /\ live = TRUE /\ crypto = FALSE /\ reset_token = FALSE /\ app_closed = FALSE
    /\ set_loss_detection = "none"
    /\ io = <<>> /\ timers = {} /\ events = <<>>
    /\ incoming = FALSE /\ accepted = (side = "Client")
    /\ rx = 0 /\ crashed = FALSE
    /\ \/ /\ side = "Client"
          /\ state = "Handshake" /\ set_idle = "none" /\ dirty = TRUE
          /\ incoming_handshakes = 0
       \/ /\ side = "Server"
          /\ state = "Handshake" /\ set_idle = reset_idle_timeout /\ dirty = TRUE
          /\ incoming_handshakes = 1
       \/ /\ side = "Server" /\ InitialFails
          /\ state = "None" /\ set_idle = "none" /\ dirty = FALSE
          /\ incoming_handshakes = 0

-----------------------------------------------------------------------------
(* The packets the peer and the network can deliver in our current state. *)
(* A conforming peer sends long-header packets while we handshake and     *)
(* 1-RTT packets once both sides have keys; LateLong lets a retransmitted *)
(* or delayed long-header packet arrive afterwards, and Forged lets any    *)
(* datagram that fails authentication arrive.  KeylessShort lets a        *)
(* client's 1-RTT packet reach a server that has no 1-RTT keys: one that  *)
(* overtook the client's Finished, or one sent by a client that completed *)
(* its side while the server's handshake failed or timed out.             *)
Deliverable ==
    {p \in Packet :
        /\ p.tls # "ongoing" => p.hdr = "Handshake" /\ p.body = "data"
        /\ p.hdr = "Initial" => p.body = "data"
        /\ IF p.auth
           THEN IF state \in {"Handshake", "None"}
                THEN \/ p.hdr = "Handshake"
                     \/ p.hdr = "Initial" /\ side = "Server"
                     \/ p.hdr = "Short" /\ KeylessShort /\ side = "Server"
                ELSE \/ p.hdr = "Short" /\ (crypto \/ (KeylessShort /\ side = "Server"))
                     \/ p.hdr # "Short" /\ LateLong
           ELSE Forged /\ p.body = "data"}

(* Connection::decrypt_packet: handshake keys for an Initial or Handshake *)
(* header while in Handshake, 1-RTT keys for a Short header otherwise;    *)
(* any other pairing, like a failed AEAD check, is Err(None).             *)
decrypt_packet(was_handshake, p) ==
    /\ p.auth
    /\ IF was_handshake THEN p.hdr \in {"Initial", "Handshake"} ELSE p.hdr = "Short"

(* Slip: a close frame received in HandshakeFailed or Closed reported as  *)
(* a new ConnectionLost.                                                    *)
handle_connected_inner_lost_closed(s, p) ==
    CASE s = "Handshake" /\ p.hdr = "Initial" -> [next |-> "Handshake", lost |-> FALSE]
      [] s = "Handshake" /\ p.body = "close"  -> [next |-> "Draining", lost |-> TRUE]
      [] s = "Handshake" /\ p.body = "illegal" -> [next |-> "Err", lost |-> FALSE]
      [] s = "Handshake" ->
            [next |-> CASE p.tls = "complete" -> "Established"
                        [] p.tls = "ongoing"  -> "Handshake"
                        [] OTHER              -> "Err",
             lost |-> FALSE]
      [] s \in {"Established", "HandshakeFailed", "Closed"} /\ p.body = "close" ->
            [next |-> "Draining", lost |-> TRUE]
      [] s = "Established" /\ p.body = "illegal" -> [next |-> "Err", lost |-> FALSE]
      [] OTHER -> [next |-> s, lost |-> FALSE]

(* Connection::handle_connected_inner for an authenticated packet: the    *)
(* next state, or "Err" for a ConnectionError, and whether a              *)
(* ConnectionLost event was pushed on the way (a received close frame).   *)
handle_connected_inner(s, p) ==
    CASE s = "Handshake" /\ p.hdr = "Initial" -> [next |-> "Handshake", lost |-> FALSE]
      [] s = "Handshake" /\ p.body = "close"  -> [next |-> "Draining", lost |-> TRUE]
      [] s = "Handshake" /\ p.body = "illegal" -> [next |-> "Err", lost |-> FALSE]
      [] s = "Handshake" ->
            [next |-> CASE p.tls = "complete" -> "Established"
                        [] p.tls = "ongoing"  -> "Handshake"
                        [] OTHER              -> "Err",
             lost |-> FALSE]
      [] s = "Established" /\ p.body = "close" -> [next |-> "Draining", lost |-> TRUE]
      [] s = "Established" /\ p.body = "illegal" -> [next |-> "Err", lost |-> FALSE]
      [] s \in {"HandshakeFailed", "Closed"} /\ p.body = "close" ->
            [next |-> "Draining", lost |-> FALSE]
      [] OTHER -> [next |-> s, lost |-> FALSE]

(* Slips: close_common leaving the loss-detection alarm armed, or never    *)
(* arming the Close timer.                                                 *)
close_common_keep_alarm == [set_loss_detection |-> set_loss_detection,
                            io |-> Append(io, Start("Close"))]
close_common_no_timer == [set_loss_detection |-> "stop", io |-> io]

(* Connection::close_common: cancel the loss-detection alarm (an intent) *)
(* and arm the Close timer at now + 3 RTO.                                 *)
close_common == [set_loss_detection |-> "stop", io |-> Append(io, Start("Close"))]

(* Slip: the key choice of handle_decode inverted, the 1-RTT keys taken   *)
(* for a long header.                                                       *)
decode_panics_inverted(p) == (p.hdr # "Short" /\ ~crypto) \/ state = "None"

(* Connection::handle_decode picks the 1-RTT keys for a short header with *)
(* crypto.as_ref().unwrap(), and handle_packet takes state.unwrap(): both  *)
(* panic on None.                                                          *)
decode_panics(p) == (p.hdr = "Short" /\ ~crypto) \/ state = "None"

(* Slip: the handshake taken as complete whenever TLS is done and the    *)
(* packet authenticates, in whatever state it arrives.                    *)
completes_unguarded(was_handshake, authenticated, next) ==
    authenticated /\ next = "Established"

(* handle_connected_inner's handshake branch: TLS completes the handshake *)
(* of an authenticated packet received in Handshake.                      *)
completes(was_handshake, authenticated, next) ==
    authenticated /\ was_handshake /\ next = "Established"

(* handle_packet: a server whose handshake fails gives its                *)
(* incoming_handshakes slot back, unless it was already closed.           *)
returns_slot(was_closed, next) == next = "HandshakeFailed" /\ ~was_closed /\ side = "Server"

(* Slip: the two error states swapped.                                    *)
error_state_swapped(was_handshake) == IF was_handshake THEN "Closed" ELSE "HandshakeFailed"

(* handle_packet's state for a ConnectionError: HandshakeFailed if it     *)
(* arose in Handshake, Closed otherwise.                                   *)
error_state(was_handshake) == IF was_handshake THEN "HandshakeFailed" ELSE "Closed"

(* Connection::handle_packet for a datagram that decodes: decrypt_packet, *)
(* on_packet_authenticated unless already closed (it resets the idle      *)
(* timer; the ACK frames it carries re-arm or cancel the loss-detection   *)
(* alarm: ld), handle_connected_inner, the error-to-state mapping with    *)
(* its ConnectionLost event, close_common on entering a closed state, the *)
(* CONNECTION_CLOSE answer (which resets the idle timer) in               *)
(* HandshakeFailed and Closed, the slot a failed server handshake gives   *)
(* back, and the dirty mark.  A completed handshake installs the 1-RTT    *)
(* keys and the peer's transport parameters, reports Connected to a       *)
(* client and moves a server's handle to the accept queue.                *)
handle_packet(p, ld) ==
    LET was_handshake == state = "Handshake"
        was_closed    == is_closed(state)
        authenticated == decrypt_packet(was_handshake, p)
        r    == IF authenticated THEN handle_connected_inner(state, p)
                ELSE [next |-> "Established", lost |-> FALSE]
        err  == r.next = "Err"
        next == IF err THEN error_state(was_handshake) ELSE r.next
        completed == completes(was_handshake, authenticated, next)
        closing   == ~was_closed /\ is_closed(next)
        server    == side = "Server"
    IN /\ state' = next
       /\ crypto' = (crypto \/ completed)
       /\ reset_token' = (reset_token \/ (completed /\ ~server))
       /\ events' = events \o (IF completed /\ ~server THEN <<"Connected">> ELSE <<>>)
                           \o (IF r.lost \/ err THEN <<"ConnectionLost">> ELSE <<>>)
       /\ incoming_handshakes' = incoming_handshakes
              - (IF completed /\ server THEN 1 ELSE 0)
              - (IF returns_slot(was_closed, next) THEN 1 ELSE 0)
       /\ incoming' = (incoming \/ (completed /\ server))
       /\ set_idle' = IF (authenticated /\ ~was_closed) \/ next \in {"HandshakeFailed", "Closed"}
                      THEN reset_idle_timeout ELSE set_idle
       /\ set_loss_detection' = CASE closing -> close_common.set_loss_detection
                                  [] authenticated /\ ~was_closed -> ld
                                  [] OTHER -> set_loss_detection
       /\ io' = IF closing THEN close_common.io ELSE io
       /\ dirty' = TRUE

(* Endpoint::handle -> handle_decode -> Connection::handle_decode for one *)
(* datagram routed to this connection.                                    *)
ReceivePacket ==
    /\ live /\ ~crashed /\ rx < MaxRx
    /\ rx' = rx + 1
    /\ \E p \in Deliverable, ld \in {set_loss_detection, "start", "stop"} :
         IF decode_panics(p)
         THEN /\ crashed' = TRUE
              /\ UNCHANGED <<side, state, crypto, reset_token, events, incoming_handshakes,
                             incoming, set_idle, set_loss_detection, io, dirty>>
         ELSE /\ handle_packet(p, ld)
              /\ UNCHANGED crashed
    /\ UNCHANGED <<side, live, app_closed, timers, accepted>>

(* handle_packet for a datagram ending in the peer's stateless-reset      *)
(* token (known once set_params installed the server's parameters): stop *)
(* all three timers, report ConnectionLost(Reset) and go to Drained,      *)
(* unless already Drained.  It returns before marking the handle dirty.   *)
StatelessReset ==
    /\ Resets /\ live /\ ~crashed /\ rx < MaxRx /\ reset_token
    /\ rx' = rx + 1
    /\ state # "Drained"
    /\ io' = io \o <<Stop("LossDetection"), Stop("Close"), Stop("Idle")>>
    /\ events' = Append(events, "ConnectionLost")
    /\ state' = "Drained"
    /\ UNCHANGED <<side, live, crypto, reset_token, app_closed, set_idle, set_loss_detection,
                   dirty, timers, incoming_handshakes, incoming, accepted, crashed>>

(* Endpoint::forget: the handle leaves the tables, dirty_conns and the     *)
(* slab.                                                                   *)
forget == live' = FALSE /\ dirty' = FALSE

(* Slip: a handshaking connection closed by the application taken to      *)
(* Closed, as if it were established.                                      *)
close_state_closed(s) == IF s \in {"Handshake", "Established"} THEN "Closed" ELSE s

(* Connection::close: unless already closed, close_common, the            *)
(* CONNECTION_CLOSE, an idle-timer reset and the dirty mark; then         *)
(* app_closed and the state change.                                        *)
close_state(s) ==
    CASE s = "Handshake"   -> "HandshakeFailed"
      [] s = "Established" -> "Closed"
      [] OTHER             -> s

(* Endpoint::close: a Drained connection is forgotten at once; any other  *)
(* is closed by Connection::close.                                         *)
AppClose ==
    /\ live /\ accepted /\ ~crashed
    /\ IF state = "Drained"
       THEN /\ forget
            /\ UNCHANGED <<side, state, app_closed, set_idle, set_loss_detection, io>>
       ELSE /\ IF is_closed(state)
               THEN UNCHANGED <<side, set_idle, set_loss_detection, io, dirty>>
               ELSE /\ set_loss_detection' = close_common.set_loss_detection
                    /\ io' = close_common.io
                    /\ set_idle' = reset_idle_timeout
                    /\ dirty' = TRUE
            /\ app_closed' = TRUE
            /\ state' = close_state(state)
            /\ UNCHANGED live
    /\ UNCHANGED <<side, crypto, reset_token, timers, events, incoming_handshakes, incoming,
                   accepted, rx, crashed>>

(* Endpoint::accept pops the handle from Context.incoming.                 *)
accept ==
    /\ incoming /\ ~crashed
    /\ incoming' = FALSE /\ accepted' = TRUE
    /\ UNCHANGED <<side, state, live, crypto, reset_token, app_closed, set_idle,
                   set_loss_detection, dirty, io, timers, events, incoming_handshakes,
                   rx, crashed>>

(* Endpoint::write (or ping) on an open connection queues data and marks  *)
(* the handle dirty; Connection::write refuses a closed connection.       *)
AppWrite ==
    /\ live /\ accepted /\ ~crashed /\ ~dirty
    /\ ~is_closed(state)
    /\ dirty' = TRUE
    /\ UNCHANGED <<side, state, live, crypto, reset_token, app_closed, set_idle,
                   set_loss_detection, io, timers, events, incoming_handshakes,
                   incoming, accepted, rx, crashed>>

-----------------------------------------------------------------------------
(* The driver and the endpoint's poll_io.                                 *)

(* What the driver does with an Io::TimerStart or Io::TimerStop.          *)
apply(armed, op) == IF op.op = "start" THEN armed \cup {op.timer} ELSE armed \ {op.timer}

(* Endpoint::poll_io hands out the head of Context.io.                     *)
PollIo ==
    /\ io # <<>> /\ ~crashed
    /\ timers' = apply(timers, Head(io))
    /\ io' = Tail(io)
    /\ UNCHANGED <<side, state, live, crypto, reset_token, app_closed, set_idle,
                   set_loss_detection, dirty, events, incoming_handshakes, incoming,
                   accepted, rx, crashed>>

(* The timer operations flush_pending appends for the two intents, Idle   *)
(* first, each only when the intent is Some.                               *)
intent_io(idle, ld) ==
    (IF idle = "start" THEN <<Start("Idle")>> ELSE <<>>)
    \o (CASE ld = "start" -> <<Start("LossDetection")>>
          [] ld = "stop"  -> <<Stop("LossDetection")>>
          [] OTHER        -> <<>>)

(* poll_io with Context.io empty runs flush_pending for the dirty handle: *)
(* next_packet until None (nothing once closed; whether an open           *)
(* connection finds something to send is a choice here, LossRecovery      *)
(* models what), an idle-timer reset if anything was sent, a              *)
(* retransmittable packet arming the loss-detection alarm, then the two   *)
(* intents turned into Io and cleared, and the handle leaves dirty_conns. *)
(* next_packet in Established takes crypto.as_ref().unwrap().              *)
flush_pending ==
    /\ io = <<>> /\ dirty /\ ~crashed
    /\ \E sent \in BOOLEAN, ld \in {set_loss_detection, "start"} :
         /\ sent => state \in {"Handshake", "Established"}
         /\ ~sent => ld = set_loss_detection
         /\ IF sent /\ state = "Established" /\ ~crypto
            THEN /\ crashed' = TRUE
                 /\ UNCHANGED <<side, set_idle, set_loss_detection, io, dirty>>
            ELSE /\ io' = intent_io(IF sent THEN reset_idle_timeout ELSE set_idle, ld)
                 /\ set_idle' = "none" /\ set_loss_detection' = "none"
                 /\ dirty' = FALSE
                 /\ UNCHANGED crashed
    /\ UNCHANGED <<side, state, live, crypto, reset_token, app_closed, timers, events,
                   incoming_handshakes, incoming, accepted, rx>>

(* The driver fires an armed timer.  It learns of timer changes only by   *)
(* polling; unless StaleTimers it has drained poll_io before a timer      *)
(* fires.  Endpoint::timeout indexes the slab by handle and panics on a   *)
(* forgotten connection.                                                   *)
Fires(t) ==
    /\ t \in timers /\ ~crashed
    /\ StaleTimers \/ (io = <<>> /\ ~dirty)
    /\ timers' = timers \ {t}

ForgottenTimeout ==
    /\ \E t \in Timers : Fires(t)
    /\ ~live
    /\ crashed' = TRUE
    /\ UNCHANGED <<side, state, live, crypto, reset_token, app_closed, set_idle,
                   set_loss_detection, dirty, io, events, incoming_handshakes,
                   incoming, accepted, rx>>

(* Slip: the Close timer leaving every connection Drained, app-closed or  *)
(* not.                                                                     *)
CloseTimeoutDrainOnly ==
    /\ Fires("Close") /\ live
    /\ io' = Append(io, Stop("Idle"))
    /\ events' = Append(events, "ConnectionDrained")
    /\ state' = "Drained"
    /\ UNCHANGED <<side, live, dirty, crypto, reset_token, app_closed, set_idle,
                   set_loss_detection, incoming_handshakes, incoming, accepted, rx, crashed>>

(* Endpoint::timeout(Close): stop the Idle timer, report                  *)
(* ConnectionDrained, then forget the connection if the application has   *)
(* closed it, or leave it Drained for Endpoint::close to forget.          *)
CloseTimeout ==
    /\ Fires("Close") /\ live
    /\ io' = Append(io, Stop("Idle"))
    /\ events' = Append(events, "ConnectionDrained")
    /\ IF app_closed THEN forget /\ UNCHANGED state
       ELSE state' = "Drained" /\ UNCHANGED <<side, live, dirty>>
    /\ UNCHANGED <<side, crypto, reset_token, app_closed, set_idle, set_loss_detection,
                   incoming_handshakes, incoming, accepted, rx, crashed>>

(* Endpoint::timeout(Idle): close_common, Draining, ConnectionLost        *)
(* (TimedOut) and the dirty mark, in whatever state the connection is.    *)
(* Unless IdleFirst, the idle timeout outlasts 3 RTO, and an Idle timer   *)
(* re-armed on closing expires after the Close timer.                     *)
IdleTimeout ==
    /\ Fires("Idle") /\ live
    /\ IdleFirst \/ "Close" \notin timers
    /\ set_loss_detection' = close_common.set_loss_detection
    /\ io' = close_common.io
    /\ state' = "Draining"
    /\ events' = Append(events, "ConnectionLost")
    /\ dirty' = TRUE
    /\ UNCHANGED <<side, live, crypto, reset_token, app_closed, set_idle,
                   incoming_handshakes, incoming, accepted, rx, crashed>>

(* Endpoint::timeout(LossDetection) -> check_packet_loss: handshake       *)
(* retransmission, loss detection, or a TLP/RTO probe by force_transmit   *)
(* (which resets the idle timer; LossRecovery checks that it has keys),   *)
(* then set_loss_detection_alarm and the dirty mark.                      *)
LossDetectionTimeout ==
    /\ Fires("LossDetection") /\ live
    /\ \E probe \in BOOLEAN, ld \in {"start", "stop"} :
         /\ probe => crypto
         /\ set_idle' = IF probe THEN reset_idle_timeout ELSE set_idle
         /\ set_loss_detection' = ld
    /\ dirty' = TRUE
    /\ UNCHANGED <<side, state, live, crypto, reset_token, app_closed, io, events,
                   incoming_handshakes, incoming, accepted, rx, crashed>>

Next ==
    \/ ReceivePacket \/ StatelessReset
    \/ AppClose \/ accept \/ AppWrite
    \/ PollIo \/ flush_pending
    \/ CloseTimeout \/ IdleTimeout \/ LossDetectionTimeout \/ ForgottenTimeout

(* The driver keeps polling, and a timer it has armed expires; the peer,  *)
(* the network and the application owe nothing.                           *)
Fairness ==
    /\ WF_vars(PollIo) /\ WF_vars(flush_pending)
    /\ WF_vars(CloseTimeout) /\ WF_vars(IdleTimeout) /\ WF_vars(LossDetectionTimeout)

Spec == Init /\ [][Next]_vars /\ Fairness

-----------------------------------------------------------------------------
(* Properties.                                                              *)

(* The transitions the State enum documents (spec section 4.1): Handshake *)
(* to Established, HandshakeFailed or Draining; Established to Closed or   *)
(* Draining; every closed state onward to Draining and Drained; and any   *)
(* live state to Drained on a stateless reset.  A closed connection never *)
(* opens again: this is about handle_packet's Err(None) arm, which        *)
(* answers Ok(State::Established) whatever the state was, and about the   *)
(* Idle timeout, which drains a connection in any state.                  *)
Legal ==
    {<<"Handshake", s>> : s \in {"Established", "HandshakeFailed", "Draining", "Drained"}}
    \cup {<<"Established", s>> : s \in {"Closed", "Draining", "Drained"}}
    \cup {<<c, s>> : c \in {"HandshakeFailed", "Closed"}, s \in {"Draining", "Drained"}}
    \cup {<<"Draining", "Drained">>}

StateMachine == [][state # state' /\ live' => <<state, state'>> \in Legal]_vars

(* A connection is reported lost at most once: handle_packet (a close     *)
(* frame or a ConnectionError), a stateless reset and the Idle timer each *)
(* push ConnectionLost, and each must find the connection still open.     *)
(* Two of these paths do not check: the Idle timer (run idle_after_close) *)
(* and the stateless reset, whose branch tests only is_drained            *)
(* (connection.rs:860; with Resets TRUE, TLC reaches Established, a peer  *)
(* close, then a reset).  The passing run, without either, checks the     *)
(* handle_packet, close and Close-timer paths against each other.         *)
ConnectionLostOnce ==
    Cardinality({i \in DOMAIN events : events[i] = "ConnectionLost"}) <= 1

(* Context.incoming_handshakes counts the server connections still in     *)
(* Handshake: handshake_complete takes the slot and only establishment or *)
(* a failure through handle_packet's HandshakeFailed arm gives it back;   *)
(* the accept buffer (handle_initial) refuses connections once the slots  *)
(* and the accept queue are full.                                          *)
HandshakeSlots ==
    incoming_handshakes = IF side = "Server" /\ live /\ state = "Handshake" THEN 1 ELSE 0

(* No datagram, timer or flush makes the endpoint panic.                   *)
NoPanic == ~crashed

(* Once a connection is Drained or forgotten and the driver has taken all *)
(* its Io, none of its timers is armed: close_common cancels the loss-    *)
(* detection alarm, the Close timeout stops Idle and a stateless reset    *)
(* stops all three; an intent left for flush_pending must not re-arm one. *)
DrainedIsQuiet == (~live \/ state = "Drained") /\ io = <<>> /\ ~dirty => timers = {}

(* A connection the application has closed is eventually forgotten, its  *)
(* slot and table entries released, without a second Endpoint::close.      *)
AppCloseReleases == app_closed ~> ~live

(* A client reports Connected when handle_connected_inner completes its  *)
(* handshake: at most once, and never after it has reported the          *)
(* connection lost, whatever the network, the peer and the driver's      *)
(* timers do (an unauthenticated packet "re-establishes" a connection    *)
(* without the event).                                                    *)
ConnectedOnce ==
    \A i, j \in DOMAIN events :
        (events[j] = "Connected" /\ i # j) =>
            /\ events[i] # "Connected"
            /\ (i < j => events[i] # "ConnectionLost")


-----------------------------------------------------------------------------
(* Refinement of ConnectionLifecycle.  A connection the endpoint has      *)
(* forgotten is released; otherwise the phase is read off the State:      *)
(* Handshake (or None, before handle_initial succeeded) is handshaking,  *)
(* HandshakeFailed, Closed and Draining are closing.                      *)
lifecycle_phase ==
    IF ~live THEN "released"
    ELSE CASE state \in {"Handshake", "None"} -> "handshake"
           [] state = "Established"           -> "open"
           [] state = "Drained"               -> "drained"
           [] OTHER                           -> "closing"

Lifecycle == INSTANCE ConnectionLifecycle WITH phase <- lifecycle_phase

(* The connection, with the endpoint's timers and forget, implements the *)
(* lifecycle of spec.md §1 and §4.1: no state change outside it, a        *)
(* closed connection drains by its Close timer, and one the application  *)
(* has closed is released, all under the fairness of the driver alone.  *)
ImplementsLifecycle == Lifecycle!Spec

====
