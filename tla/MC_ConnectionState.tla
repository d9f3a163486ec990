------------------------ MODULE MC_ConnectionState ------------------------
(* Model values for ConnectionState: up to six datagrams reach the        *)
(* connection, enough for a duplicated Initial, two Handshake packets, a  *)
(* 1-RTT packet, a close and a packet after it.                           *)
EXTENDS ConnectionState

MC_MaxRx == 6

(* Under stale timers a LossDetection probe can re-arm the Idle timer of  *)
(* a closed connection again and again; the hostile run stops exploring   *)
(* once a connection has reported this many events or queued this much   *)
(* Io.                                                                     *)
MC_MaxEvents == 4
MC_MaxIo == 6
MC_Bound == Len(events) <= MC_MaxEvents /\ Len(io) <= MC_MaxIo
=============================================================================
