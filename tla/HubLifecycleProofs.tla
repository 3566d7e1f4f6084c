------------------------- MODULE HubLifecycleProofs -------------------------
(***************************************************************************)
(* What the author of a hub may conclude from the specification            *)
(* HubLifecycle, for any connections and handlers, without a look at the   *)
(* tasks of serve.rs that implement it.                                    *)
(***************************************************************************)
EXTENDS HubLifecycle, TLAPS

\* The phases in the order of the callbacks.
Follows ==
  {<<"waiting", "connecting">>, <<"connecting", "live">>, <<"live", "ending">>,
   <<"ending", "disconnecting">>, <<"disconnecting", "over">>}

\* on_connect, the messages and on_disconnect come in this order, each phase
\* once: no phase is skipped or entered again (hub.rs:81, 106).  A message is
\* taken between the return of on_connect and the end of the connection only;
\* on_message is called for a message taken before, hence never before
\* on_connect has returned, but possibly during on_disconnect or after it; and
\* for every message taken, unless the connection is given up first (hub.rs:129
\* makes no exception, see "Cancelled handlers" in the README).
CallbacksInOrder ==
  [][\A c \in Conn :
       /\ phase'[c] # phase[c] => <<phase[c], phase'[c]>> \in Follows
       /\ ~(taken'[c] \subseteq taken[c]) => phase[c] = "live"
       /\ running'[c] \subseteq running[c] \cup taken[c]
       /\ taken[c] \subseteq taken'[c] \cup running'[c] \/ GivenUp(c)]_vars

\* A hub has heard of a connection when it is first reachable or writable, and
\* has neither given up a connection nor its writer only to take it back: once
\* on_connect has begun, what is unreachable or has no writer stays so.
OffForGood ==
  [][\A c \in Conn : phase[c] # "waiting" =>
       /\ c \in reachable' => c \in reachable
       /\ c \in wired' => c \in wired]_vars

\* No message is taken or handled before on_connect has returned, and on_disconnect sees
\* a connection that nobody reaches and nobody writes to (hub.rs:106, "fully torn
\* down"), and so does whatever runs after it.
Quiet ==
  \A c \in Conn :
    /\ phase[c] \in {"waiting", "connecting"} => taken[c] = {} /\ running[c] = {}
    /\ phase[c] \in {"disconnecting", "over"} => c \notin reachable \cup wired

Inv == TypeOK /\ Quiet

LEMMA InvInit == Init => Inv
  BY DEF Init, Inv, TypeOK, Phases, Quiet

\* Where a step may take the phase of a connection.
LEMMA MoveFacts ==
  ASSUME TypeOK, NEW c \in Conn, NEW from, NEW to \in Phases, Move(c, from, to)
  PROVE  /\ phase' \in [Conn -> Phases]
         /\ phase[c] = from /\ phase'[c] = to
         /\ \A d \in Conn : d # c => phase'[d] = phase[d]
  BY DEF TypeOK, Move

LEMMA InvStep == Inv /\ [Next]_vars => Inv'
<1> SUFFICES ASSUME Inv, [Next]_vars PROVE Inv'
  OBVIOUS
<1> USE DEF Inv, TypeOK, Phases, Quiet
<1>1. ASSUME NEW c \in Conn, Reach(c) PROVE Inv'
  BY <1>1 DEF Reach
<1>2. ASSUME NEW c \in Conn, Wire(c) PROVE Inv'
  BY <1>2 DEF Wire
<1>3. ASSUME NEW c \in Conn, Unreach(c) \/ Unwire(c) PROVE Inv'
  BY <1>3 DEF Unreach, Unwire
<1>4. ASSUME NEW c \in Conn, Live(c) \/ End(c) PROVE Inv'
  BY <1>4, MoveFacts DEF Live, End
<1>5. ASSUME NEW c \in Conn, Disconnect(c) PROVE Inv'
  BY <1>5, MoveFacts DEF Disconnect
<1>6. ASSUME NEW c \in Conn, Over(c) PROVE Inv'
  BY <1>6, MoveFacts DEF Over
<1>7. ASSUME NEW c \in Conn, NEW h \in Handler, Take(c, h) \/ Skip(c, h) PROVE Inv'
  BY <1>7 DEF Take, Skip
<1>8. ASSUME NEW c \in Conn, NEW h \in Handler, StartHandler(c, h) PROVE Inv'
  BY <1>8 DEF StartHandler
<1>9. ASSUME NEW c \in Conn, NEW h \in Handler, EndHandler(c, h) PROVE Inv'
  BY <1>9 DEF EndHandler
<1>10. CASE UNCHANGED vars
  BY <1>10 DEF vars
<1> QED
  BY <1>1, <1>2, <1>3, <1>4, <1>5, <1>6, <1>7, <1>8, <1>9, <1>10 DEF Next

\* on_disconnect is called when the connection is out of reach and has no writer,
\* on_message when on_connect has returned.
THEOREM QuietHolds == Spec => []Quiet
<1>1. Inv => Quiet
  BY DEF Inv
<1> QED BY <1>1, InvInit, InvStep, PTL DEF Spec

\* The callbacks of a connection come in order, each once, and messages in between
\* are taken, handled or given up with the connection.
THEOREM CallbacksInOrderHolds == Spec => CallbacksInOrder
<1> DEFINE InOrder ==
      \A c \in Conn :
        /\ phase'[c] # phase[c] => <<phase[c], phase'[c]>> \in Follows
        /\ ~(taken'[c] \subseteq taken[c]) => phase[c] = "live"
        /\ running'[c] \subseteq running[c] \cup taken[c]
        /\ taken[c] \subseteq taken'[c] \cup running'[c] \/ GivenUp(c)
<1>1. Inv /\ [Next]_vars => [InOrder]_vars
  <2> SUFFICES ASSUME Inv, Next PROVE InOrder
    OBVIOUS
  <2> USE DEF Inv, TypeOK
  <2>1. ASSUME NEW d \in Conn, Wire(d) \/ Live(d) \/ End(d) \/ Disconnect(d) \/ Over(d)
        PROVE  InOrder
    BY <2>1 DEF Wire, Live, End, Disconnect, Over, Move, Follows
  <2>2. ASSUME NEW d \in Conn, Reach(d) \/ Unreach(d) \/ Unwire(d)
        PROVE  InOrder
    BY <2>2 DEF Reach, Unreach, Unwire
  <2>3. ASSUME NEW d \in Conn, NEW h \in Handler, Take(d, h) \/ StartHandler(d, h)
        PROVE  InOrder
    BY <2>3 DEF Take, StartHandler
  <2>4. ASSUME NEW d \in Conn, NEW h \in Handler, Skip(d, h) \/ EndHandler(d, h)
        PROVE  InOrder
    BY <2>4 DEF Skip, EndHandler
  <2> QED BY <2>1, <2>2, <2>3, <2>4 DEF Next
<1> QED BY <1>1, InvInit, InvStep, PTL DEF Spec, CallbacksInOrder

\* What has been given up is not taken back.
THEOREM OffForGoodHolds == Spec => OffForGood
<1> DEFINE Off ==
      \A c \in Conn : phase[c] # "waiting" =>
        /\ c \in reachable' => c \in reachable
        /\ c \in wired' => c \in wired
<1>1. [Next]_vars => [Off]_vars
  BY DEF Next, Reach, Wire, Unreach, Unwire, Live, End, Disconnect, Over,
     Take, StartHandler, Skip, EndHandler
<1> QED BY <1>1, PTL DEF Spec, OffForGood
=============================================================================
