------------------------- MODULE ConnectionLifecycle -------------------------
(***************************************************************************)
(* What a connection promises the application that owns it (spec.md §1,  *)
(* "Lifecycle", and §4.1): it handshakes, is open, and once closed -- by  *)
(* an error, the peer, an idle timeout or the application -- it drains   *)
(* and is never reopened; a stateless reset drains it at once.  Its       *)
(* resources are released when it is drained and the application has     *)
(* acknowledged the closure: at once if the application closed it first, *)
(* at the application's close otherwise.                                   *)
(*                                                                         *)
(* ConnectionState is checked to implement this specification.           *)
(***************************************************************************)

VARIABLES
    phase,       \* "handshake", "open", "closing", "drained" or "released"
    app_closed   \* the application has called close

avars == <<phase, app_closed>>

Phases == {"handshake", "open", "closing", "drained", "released"}

TypeOK == phase \in Phases /\ app_closed \in BOOLEAN

Init == phase = "handshake" /\ app_closed = FALSE

Establish ==
    /\ phase = "handshake"
    /\ phase' = "open"
    /\ UNCHANGED app_closed

(* An error, a peer close or an idle timeout. *)
Close ==
    /\ phase \in {"handshake", "open"}
    /\ phase' = "closing"
    /\ UNCHANGED app_closed

AppClose ==
    /\ phase \in {"handshake", "open", "closing"}
    /\ phase' = "closing"
    /\ app_closed' = TRUE

Reset ==
    /\ phase \in {"handshake", "open", "closing"}
    /\ phase' = "drained"
    /\ UNCHANGED app_closed

(* The drain period ends while the application still holds the          *)
(* connection.                                                             *)
Drain ==
    /\ phase = "closing" /\ ~app_closed
    /\ phase' = "drained"
    /\ UNCHANGED app_closed

(* The drain period ends, or has ended, after the application closed.   *)
ReleaseOnClose ==
    /\ phase \in {"closing", "drained"} /\ app_closed
    /\ phase' = "released"
    /\ UNCHANGED app_closed

(* The application closes a drained connection.                          *)
ReleaseDrained ==
    /\ phase = "drained"
    /\ phase' = "released"
    /\ UNCHANGED app_closed

Next ==
    \/ Establish \/ Close \/ AppClose \/ Reset
    \/ Drain \/ ReleaseOnClose \/ ReleaseDrained

(* Draining ends, and an application-closed connection is released, with *)
(* nobody else's help; the peer and the application owe nothing.          *)
Spec == Init /\ [][Next]_avars /\ WF_avars(Drain) /\ WF_avars(ReleaseOnClose)
=============================================================================
