----------------------------- MODULE Broadcast ------------------------------
(***************************************************************************)
(* The registries of the hub types and their broadcast channels: sockets   *)
(* that find or create the registry of their hub (get_clients), subscribe, *)
(* are served, broadcast from their handlers, lag and leave.               *)
(*                                                                         *)
(* tokio's channel is a ring of slots with the number of the message each  *)
(* holds.  A receiver that finds another number than the one it expects    *)
(* has been overrun and goes on with the oldest message retained.          *)
(***************************************************************************)
EXTENDS Naturals, Sequences

CONSTANTS
  Hub,       \* hub types
  Socket,    \* sockets that arrive
  HubOf,     \* the hub type each is served by
  Capacity,  \* broadcast_channel_capacity
  Ring,      \* the slots that tokio allocates for it
  MaxCast,   \* messages sent to each hub
  None

ASSUME BroadcastAssumption ==
  /\ HubOf \in [Socket -> Hub]
  /\ None \notin Socket
  /\ MaxCast \in [Hub -> Nat]
  /\ Capacity \in Nat \ {0}
  /\ Ring \in Nat
  /\ Ring >= Capacity

\* The capacity is rounded up to a power of two.
ASSUME RingAssumption ==
  /\ \E e \in 0 .. Capacity : Ring = 2 ^ e
  /\ Ring < 2 * Capacity

VARIABLES
  registry,  \* CLIENT_REGISTRY: a registry is named by the socket that made it
  clients,   \* the registry that a socket uses
  stage,     \* how far the serve task of a socket is
  slots,     \* the ring of each registry
  tail,      \* messages sent through it
  next,      \* the last message a receiver has received or skipped
  cast,      \* history: messages sent to a hub
  since,     \* history: messages sent to its hub when a socket was registered
  got        \* history: messages that a socket's writer has received

vars == <<registry, clients, stage, slots, tail, next, cast, since, got>>

Stages == {"new", "found", "subscribed", "serving", "gone"}
Slot == [nth : Nat, msg : Nat]

listening == {s \in Socket : stage[s] \in {"subscribed", "serving"}}

TypeOK ==
  /\ registry \in [Hub -> Socket \cup {None}]
  /\ clients \in [Socket -> Socket \cup {None}]
  /\ stage \in [Socket -> Stages]
  /\ slots \in [Socket -> [0 .. Ring - 1 -> Slot]]
  /\ tail \in [Socket -> Nat]
  /\ next \in [Socket -> Nat]
  /\ cast \in [Hub -> Nat]
  /\ since \in [Socket -> Nat]
  /\ got \in [Socket -> Seq(Nat)]
  /\ \A s \in listening : next[s] <= tail[clients[s]]

Init ==
  /\ registry = [h \in Hub |-> None]
  /\ clients = [s \in Socket |-> None]
  /\ stage = [s \in Socket |-> "new"]
  /\ slots = [s \in Socket |-> [i \in 0 .. Ring - 1 |-> [nth |-> 0, msg |-> 0]]]
  /\ tail = [s \in Socket |-> 0]
  /\ next = [s \in Socket |-> 0]
  /\ cast = [h \in Hub |-> 0]
  /\ since = [s \in Socket |-> 0]
  /\ got = [s \in Socket |-> <<>>]

Advance(s, from, to) ==
  /\ stage[s] = from
  /\ stage' = [stage EXCEPT ![s] = to]

-----------------------------------------------------------------------------
(* The serve task of a socket                                              *)

\* Mutant: looked up first and inserted later, over what is there by then.
GetClientsUnlocked(s) ==
  /\ Advance(s, "new", "found")
  /\ \E mine \in {s, registry[HubOf[s]]} \ {None} :
       /\ registry' = [registry EXCEPT ![HubOf[s]] = mine]
       /\ clients' = [clients EXCEPT ![s] = mine]
  /\ UNCHANGED <<slots, tail, next, cast, since, got>>

\* The entry stays locked from the look-up to the insertion.
GetClients(s) ==
  LET found == registry[HubOf[s]]
      mine == IF found = None THEN s ELSE found IN
  /\ Advance(s, "new", "found")
  /\ registry' = [registry EXCEPT ![HubOf[s]] = mine]
  /\ clients' = [clients EXCEPT ![s] = mine]
  /\ UNCHANGED <<slots, tail, next, cast, since, got>>

Subscribe(s) ==
  /\ Advance(s, "found", "subscribed")
  /\ next' = [next EXCEPT ![s] = tail[clients[s]]]
  /\ UNCHANGED <<registry, clients, slots, tail, cast, since, got>>

\* clients.add and spawn_writer
Serve(s) ==
  /\ Advance(s, "subscribed", "serving")
  /\ since' = [since EXCEPT ![s] = cast[HubOf[s]]]
  /\ UNCHANGED <<registry, clients, slots, tail, next, cast, got>>

\* The writer ends and drops the receiver.
Leave(s) ==
  /\ Advance(s, "serving", "gone")
  /\ UNCHANGED <<registry, clients, slots, tail, next, cast, since, got>>

-----------------------------------------------------------------------------
(* The channel                                                             *)

\* A handler of s, which may outlive its connection, sends to all.  Without
\* a receiver the channel refuses the message.
Send(s) ==
  LET c == clients[s]
      h == HubOf[s] IN
  /\ stage[s] \in {"serving", "gone"}
  /\ \E r \in listening : clients[r] = c
  /\ cast[h] < MaxCast[h]
  /\ cast' = [cast EXCEPT ![h] = @ + 1]
  /\ tail' = [tail EXCEPT ![c] = @ + 1]
  /\ slots' = [slots EXCEPT ![c][tail[c] % Ring] =
                 [nth |-> tail[c] + 1, msg |-> cast[h] + 1]]
  /\ UNCHANGED <<registry, clients, stage, next, since, got>>

\* The slot where a receiver expects its next message.
Expected(s) == slots[clients[s]][next[s] % Ring]

\* Mutant: the number of the slot is not compared.
ReceiveUnchecked(s) ==
  /\ stage[s] = "serving"
  /\ next[s] < tail[clients[s]]
  /\ next' = [next EXCEPT ![s] = @ + 1]
  /\ got' = [got EXCEPT ![s] = Append(@, Expected(s).msg)]
  /\ UNCHANGED <<registry, clients, stage, slots, tail, cast, since>>

\* Mutant: recv gives up the message it has taken when select! drops it.
ReceiveDropping(s) ==
  /\ stage[s] = "serving"
  /\ Expected(s).nth = next[s] + 1
  /\ next' = [next EXCEPT ![s] = @ + 1]
  /\ got' \in {got, [got EXCEPT ![s] = Append(@, Expected(s).msg)]}
  /\ UNCHANGED <<registry, clients, stage, slots, tail, cast, since>>

Receive(s) ==
  /\ stage[s] = "serving"
  /\ Expected(s).nth = next[s] + 1
  /\ next' = [next EXCEPT ![s] = @ + 1]
  /\ got' = [got EXCEPT ![s] = Append(@, Expected(s).msg)]
  /\ UNCHANGED <<registry, clients, stage, slots, tail, cast, since>>

\* The slot where it expects the next message holds a later one.
Overrun(s) ==
  /\ stage[s] = "serving"
  /\ next[s] < tail[clients[s]]
  /\ Expected(s).nth # next[s] + 1

\* Mutant: it goes on past the latest message.
LagBeyond(s) ==
  /\ Overrun(s)
  /\ next' = [next EXCEPT ![s] = tail[clients[s]] + 1]
  /\ UNCHANGED <<registry, clients, stage, slots, tail, cast, since, got>>

\* Mutant: its position is not moved.
LagInPlace(s) ==
  /\ Overrun(s)
  /\ UNCHANGED vars

\* RecvError::Lagged: the writer logs it and receives again.
Lag(s) ==
  /\ Overrun(s)
  /\ next' = [next EXCEPT ![s] = tail[clients[s]] - Ring]
  /\ UNCHANGED <<registry, clients, stage, slots, tail, cast, since, got>>

-----------------------------------------------------------------------------
Next ==
  \E s \in Socket :
    \/ GetClients(s) \/ Subscribe(s) \/ Serve(s) \/ Leave(s)
    \/ Send(s) \/ Receive(s) \/ Lag(s)

Spec == Init /\ [][Next]_vars

\* The writer of a socket whose peer reads is polled again and again.
FairSpec == Spec /\ \A s \in Socket : WF_vars(Receive(s) \/ Lag(s))

-----------------------------------------------------------------------------
(* Properties                                                              *)

\* All sockets of a hub type share one registry and those of other types have
\* another, whichever arrive first and together (serve.rs:24-25).
OneRegistry ==
  \A s, t \in Socket :
    stage[s] # "new" /\ stage[t] # "new"
      => (clients[s] = clients[t] <=> HubOf[s] = HubOf[t])

Received(s, m) == \E i \in 1 .. Len(got[s]) : got[s][i] = m

\* A socket that is registered loses a broadcast to its hub only by falling
\* behind: it goes with a run of messages that the socket has not received, the
\* first of which has been overrun by Capacity later ones (hub.rs:40, "when it
\* falls behind by more than this many messages").  Nothing is lost to the laps
\* of the ring, to a registration after the subscription, or to the select! of
\* the writer.
LosesOnlyBehind ==
  \A s \in Socket : stage[s] = "serving" =>
    \A m \in since[s] + 1 .. next[s] :
      \/ Received(s, m)
      \/ \E k \in since[s] + 1 .. m :
           /\ \A l \in k .. m : ~Received(s, l)
           /\ cast[HubOf[s]] >= k + Capacity

\* What a socket receives is a subsequence of what its hub was sent, in order
\* and without repetitions, over laps of the ring and lags.
Fifo == INSTANCE LossyFifo
ImplementsFifo == Fifo!Spec

\* ... said of its state: no lap of the ring, no lag and no race for the registry
\* makes a socket receive twice, out of order, or what is not its hub's
\* (serve.rs:155-160).
ReceivesInOrder == Fifo!ReceivesInOrder

\* Every broadcast reaches each registered socket or is skipped as overrun, if
\* the socket stays.
Reaches ==
  \A s \in Socket : \A m \in 1 .. MaxCast[HubOf[s]] :
    (stage[s] = "serving" /\ m <= cast[HubOf[s]])
      ~> (stage[s] = "gone" \/ next[s] >= m)
=============================================================================
