---------------------------- MODULE HubLifecycle ----------------------------
(***************************************************************************)
(* What serve_hub_with_clients promises the author of a hub about one      *)
(* connection, in terms of the hub's callbacks only: on_connect runs once  *)
(* and first; messages are taken from the peer between its return and the  *)
(* end of the connection; on_disconnect runs once, when nobody can reach   *)
(* the connection any more and nothing will be written to its socket.      *)
(*                                                                         *)
(* When on_message is called for a message taken, and when it ends, is     *)
(* promised nowhere: it may be during on_disconnect or after it.  A        *)
(* message is left without its call only once the connection is given up.  *)
(***************************************************************************)
CONSTANTS
  Conn,     \* connections
  Handler   \* names for the messages of a connection being handled at one time

VARIABLES
  phase,      \* of the hub's view of each connection
  reachable,  \* connections that the registry delivers to
  wired,      \* connections with somebody writing to their socket
  taken,      \* messages taken, with on_message not yet called
  running     \* on_message handlers under way

vars == <<phase, reachable, wired, taken, running>>

Phases ==
  {"waiting", "connecting", "live", "ending", "disconnecting", "over"}

TypeOK ==
  /\ phase \in [Conn -> Phases]
  /\ reachable \subseteq Conn
  /\ wired \subseteq Conn
  /\ taken \in [Conn -> SUBSET Handler]
  /\ running \in [Conn -> SUBSET Handler]

Init ==
  /\ phase = [c \in Conn |-> "waiting"]
  /\ reachable = {}
  /\ wired = {}
  /\ taken = [c \in Conn |-> {}]
  /\ running = [c \in Conn |-> {}]

\* The connection becomes reachable, then writable, before on_connect begins.
Reach(c) ==
  /\ phase[c] = "waiting"
  /\ reachable' = reachable \cup {c}
  /\ UNCHANGED <<phase, wired, taken, running>>

Wire(c) ==
  /\ phase[c] = "waiting"
  /\ wired' = wired \cup {c}
  /\ phase' = [phase EXCEPT ![c] = "connecting"]
  /\ UNCHANGED <<reachable, taken, running>>

\* An eviction or the teardown makes it unreachable, ...
Unreach(c) ==
  /\ reachable' = reachable \ {c}
  /\ UNCHANGED <<phase, wired, taken, running>>

\* ... and its writer stops.
Unwire(c) ==
  /\ phase[c] # "waiting"
  /\ wired' = wired \ {c}
  /\ UNCHANGED <<phase, reachable, taken, running>>

Move(c, from, to) ==
  /\ phase[c] = from
  /\ phase' = [phase EXCEPT ![c] = to]

Live(c) ==
  Move(c, "connecting", "live") /\ UNCHANGED <<reachable, wired, taken, running>>

End(c) ==
  Move(c, "live", "ending") /\ UNCHANGED <<reachable, wired, taken, running>>

\* Teardown is complete before on_disconnect begins.
Disconnect(c) ==
  /\ Move(c, "ending", "disconnecting")
  /\ c \notin reachable
  /\ c \notin wired
  /\ UNCHANGED <<reachable, wired, taken, running>>

Over(c) ==
  Move(c, "disconnecting", "over") /\ UNCHANGED <<reachable, wired, taken, running>>

Take(c, h) ==
  /\ phase[c] = "live"
  /\ h \notin taken[c] \cup running[c]
  /\ taken' = [taken EXCEPT ![c] = @ \cup {h}]
  /\ UNCHANGED <<phase, reachable, wired, running>>

StartHandler(c, h) ==
  /\ h \in taken[c]
  /\ taken' = [taken EXCEPT ![c] = @ \ {h}]
  /\ running' = [running EXCEPT ![c] = @ \cup {h}]
  /\ UNCHANGED <<phase, reachable, wired>>

\* The connection is out of reach, or being torn down.
GivenUp(c) == c \notin reachable \/ phase[c] \in {"ending", "disconnecting", "over"}

Skip(c, h) ==
  /\ GivenUp(c)
  /\ taken' = [taken EXCEPT ![c] = @ \ {h}]
  /\ UNCHANGED <<phase, reachable, wired, running>>

EndHandler(c, h) ==
  /\ running' = [running EXCEPT ![c] = @ \ {h}]
  /\ UNCHANGED <<phase, reachable, wired, taken>>

Next == \E c \in Conn :
  \/ Reach(c) \/ Wire(c) \/ Unreach(c) \/ Unwire(c)
  \/ Live(c) \/ End(c) \/ Disconnect(c) \/ Over(c)
  \/ \E h \in Handler :
       Take(c, h) \/ StartHandler(c, h) \/ Skip(c, h) \/ EndHandler(c, h)

Spec == Init /\ [][Next]_vars
=============================================================================
