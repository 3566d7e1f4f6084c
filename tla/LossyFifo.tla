----------------------------- MODULE LossyFifo ------------------------------
(***************************************************************************)
(* What `broadcast` promises the sockets of a hub type: each receives a    *)
(* subsequence of the messages sent since it subscribed, in order and each *)
(* at most once.                                                           *)
(***************************************************************************)
EXTENDS Naturals, Sequences

CONSTANTS Hub, Socket, HubOf

VARIABLES
  cast,       \* messages sent to each hub, which number them
  listening,  \* sockets that receive
  next,       \* the last message a socket has received or lost
  got         \* the messages it has received

vars == <<cast, listening, next, got>>

Init ==
  /\ cast = [h \in Hub |-> 0]
  /\ listening = {}
  /\ next = [s \in Socket |-> 0]
  /\ got = [s \in Socket |-> <<>>]

Join(s) ==
  /\ s \notin listening
  /\ listening' = listening \cup {s}
  /\ next' = [next EXCEPT ![s] = cast[HubOf[s]]]
  /\ UNCHANGED <<cast, got>>

Cast(h) ==
  /\ cast' = [cast EXCEPT ![h] = @ + 1]
  /\ UNCHANGED <<listening, next, got>>

Receive(s) ==
  /\ s \in listening
  /\ \E m \in next[s] + 1 .. cast[HubOf[s]] :
       /\ next' = [next EXCEPT ![s] = m]
       /\ got' = [got EXCEPT ![s] = Append(@, m)]
  /\ UNCHANGED <<cast, listening>>

Lose(s) ==
  /\ s \in listening
  /\ \E m \in next[s] + 1 .. cast[HubOf[s]] : next' = [next EXCEPT ![s] = m]
  /\ UNCHANGED <<cast, listening, got>>

Leave(s) ==
  /\ s \in listening
  /\ listening' = listening \ {s}
  /\ UNCHANGED <<cast, next, got>>

Next ==
  \/ \E h \in Hub : Cast(h)
  \/ \E s \in Socket : Join(s) \/ Receive(s) \/ Lose(s) \/ Leave(s)

Spec == Init /\ [][Next]_vars

-----------------------------------------------------------------------------
(* Properties                                                              *)

TypeOK ==
  /\ HubOf \in [Socket -> Hub]
  /\ cast \in [Hub -> Nat]
  /\ listening \subseteq Socket
  /\ next \in [Socket -> Nat]
  /\ got \in [Socket -> Seq(Nat)]

\* What a socket has received was sent to its hub, comes in the order in which
\* it was sent, and comes once.
ReceivesInOrder ==
  \A s \in Socket : \A j \in 1 .. Len(got[s]) :
    /\ got[s][j] \in 1 .. cast[HubOf[s]]
    /\ \A i \in 1 .. j - 1 : got[s][i] < got[s][j]
=============================================================================
