----------------------------- MODULE SendPolicy -----------------------------
(***************************************************************************)
(* send_with_policy (clients.rs) under the fan-outs of several tasks: the  *)
(* bounded queue of each connection, the timeout on a send, the count of   *)
(* consecutive drops, on_drop, and the eviction of a slow connection.      *)
(*                                                                         *)
(* The group indexes and the Ref that some fan-outs hold are in            *)
(* GroupIndex; here a fan-out is the set of recipients it has collected.   *)
(***************************************************************************)
EXTENDS Naturals, FiniteSets

CONSTANTS
  Conn,      \* connections
  Task,      \* tasks that call a broadcast_* method
  Policies,  \* the variants of BroadcastPolicy that a server may choose from
  Cap,       \* unicast_channel_capacity
  MaxDrops,  \* DropConnection's max_drops
  CanAbort,  \* TRUE: a fan-out may run in a handler whose connection ends
  NoConn

BroadcastPolicy == {"Block", "DropMessage", "DropConnection", "DropOnHighRtt"}

ASSUME PolicyAssumption ==
  /\ Policies \subseteq BroadcastPolicy
  /\ Cap \in Nat \ {0}
  /\ MaxDrops \in Nat \ {0}
  /\ CanAbort \in BOOLEAN
  /\ IsFiniteSet(Task)
  /\ NoConn \notin Conn

VARIABLES
  policy,      \* the variant the server has chosen
  queued,      \* length of each unicast queue
  alive,       \* connections whose writer still owns the receiver
  slow,        \* connections whose average RTT exceeds max_rtt
  registered,  \* keys of `connections`
  evicted,     \* connections whose token a fan-out has cancelled
  drops,       \* ConnectionState.drops
  pc,          \* the next step of each fan-out
  plan,        \* the recipients it has still to send to
  target,      \* the recipient it is sending to
  notified,    \* history: calls of on_drop, counted up to MaxDrops
  streak       \* history: drops since the last message queued, up to MaxDrops

conns == <<policy, queued, alive, slow, registered, evicted>>
vars == <<policy, queued, alive, slow, registered, evicted, drops,
          pc, plan, target, notified, streak>>

Steps == {"idle", "pick", "judge", "send", "notify", "count", "reset",
          "unlist", "cancel", "aborted"}

\* The task has no fan-out under way.
Free(t) == pc[t] \in {"idle", "aborted"}

\* The policies that bound each send by a timeout.
Timed == policy \in {"DropMessage", "DropConnection"}

TypeOK ==
  /\ policy \in Policies
  /\ queued \in [Conn -> 0 .. Cap]
  /\ alive \subseteq Conn
  /\ slow \subseteq Conn
  /\ registered \subseteq Conn
  /\ evicted \subseteq Conn
  /\ drops \in [Conn -> Nat]
  /\ pc \in [Task -> Steps]
  /\ plan \in [Task -> SUBSET Conn]
  /\ target \in [Task -> Conn \cup {NoConn}]
  /\ notified \in [Conn -> 0 .. MaxDrops]
  /\ streak \in [Conn -> 0 .. MaxDrops]

\* Every connection of the run is registered; Leave and Close take it away.
Init ==
  /\ policy \in Policies
  /\ queued = [c \in Conn |-> 0]
  /\ alive = Conn
  /\ slow = {}
  /\ registered = Conn
  /\ evicted = {}
  /\ drops = [c \in Conn |-> 0]
  /\ pc = [t \in Task |-> "idle"]
  /\ plan = [t \in Task |-> {}]
  /\ target = [t \in Task |-> NoConn]
  /\ notified = [c \in Conn |-> 0]
  /\ streak = [c \in Conn |-> 0]

Goto(t, from, to) ==
  /\ pc[t] = from
  /\ pc' = [pc EXCEPT ![t] = to]

\* One more, up to the bound MaxDrops of the history variables.
Bump(count, c) ==
  [count EXCEPT ![c] = IF @ < MaxDrops THEN @ + 1 ELSE @]

-----------------------------------------------------------------------------
(* The loop of a fan-out                                                   *)

Call(t) ==
  /\ Free(t)
  /\ pc' = [pc EXCEPT ![t] = "pick"]
  /\ \E recipients \in SUBSET registered :
       plan' = [plan EXCEPT ![t] = recipients]
  /\ UNCHANGED <<conns, drops, target, notified, streak>>

Pick(t, c) ==
  /\ Goto(t, "pick", IF policy = "DropOnHighRtt" THEN "judge" ELSE "send")
  /\ c \in plan[t]
  /\ plan' = [plan EXCEPT ![t] = @ \ {c}]
  /\ target' = [target EXCEPT ![t] = c]
  /\ UNCHANGED <<conns, drops, notified, streak>>

Return(t) ==
  /\ Goto(t, "pick", "idle")
  /\ plan[t] = {}
  /\ target' = [target EXCEPT ![t] = NoConn]
  /\ UNCHANGED <<conns, drops, plan, notified, streak>>

\* The handler's token fires while it waits for a place: its task is dropped.
Abort(t) ==
  /\ CanAbort
  /\ Goto(t, "send", "aborted")
  /\ plan' = [plan EXCEPT ![t] = {}]
  /\ target' = [target EXCEPT ![t] = NoConn]
  /\ UNCHANGED <<conns, drops, notified, streak>>

-----------------------------------------------------------------------------
(* send_with_policy                                                        *)

Judge(t) ==
  /\ Goto(t, "judge", IF target[t] \in slow THEN "notify" ELSE "send")
  /\ UNCHANGED <<conns, drops, plan, target, notified, streak>>

\* Mutant: the message is queued beyond the capacity.
PushUnbounded(t) ==
  /\ Goto(t, "send", IF policy = "DropConnection" THEN "reset" ELSE "pick")
  /\ target[t] \in alive
  /\ queued' = [queued EXCEPT ![target[t]] = @ + 1]
  /\ streak' = [streak EXCEPT ![target[t]] = 0]
  /\ UNCHANGED <<policy, alive, slow, registered, evicted, drops,
                 plan, target, notified>>

Push(t) ==
  /\ Goto(t, "send", IF policy = "DropConnection" THEN "reset" ELSE "pick")
  /\ target[t] \in alive
  /\ queued[target[t]] < Cap
  /\ queued' = [queued EXCEPT ![target[t]] = @ + 1]
  /\ streak' = [streak EXCEPT ![target[t]] = 0]
  /\ UNCHANGED <<policy, alive, slow, registered, evicted, drops,
                 plan, target, notified>>

\* Mutant: the send is not bounded by the timeout.
DropIfClosed(t) ==
  /\ Timed
  /\ Goto(t, "send", "notify")
  /\ target[t] \notin alive
  /\ streak' = Bump(streak, target[t])
  /\ UNCHANGED <<conns, drops, plan, target, notified>>

\* The send timed out on a full queue, or the queue is closed.
Drop(t) ==
  /\ Timed
  /\ Goto(t, "send", "notify")
  /\ target[t] \notin alive \/ queued[target[t]] = Cap
  /\ streak' = Bump(streak, target[t])
  /\ UNCHANGED <<conns, drops, plan, target, notified>>

\* Mutant: the first closed queue ends the fan-out (try_for_each).
GiveUp(t) ==
  /\ ~Timed
  /\ Goto(t, "send", "idle")
  /\ target[t] \notin alive
  /\ plan' = [plan EXCEPT ![t] = {}]
  /\ UNCHANGED <<conns, drops, target, notified, streak>>

\* Block and DropOnHighRtt ignore the error of a closed queue.
Ignore(t) ==
  /\ ~Timed
  /\ Goto(t, "send", "pick")
  /\ target[t] \notin alive
  /\ UNCHANGED <<conns, drops, plan, target, notified, streak>>

AfterNotify ==
  CASE policy = "DropConnection" -> "count"
    [] policy = "DropOnHighRtt"  -> "unlist"
    [] OTHER                     -> "pick"

\* Mutant: a drop on a closed queue is counted but not announced.
NotifyIfAlive(t) ==
  /\ Goto(t, "notify", AfterNotify)
  /\ notified' = IF target[t] \in alive THEN Bump(notified, target[t])
                                        ELSE notified
  /\ UNCHANGED <<conns, drops, plan, target, streak>>

\* Mutant: a message that timed out is sent again.
NotifyAndRetry(t) ==
  /\ Goto(t, "notify", IF policy = "DropMessage" THEN "send" ELSE AfterNotify)
  /\ notified' = Bump(notified, target[t])
  /\ UNCHANGED <<conns, drops, plan, target, streak>>

Notify(t) ==
  /\ Goto(t, "notify", AfterNotify)
  /\ notified' = Bump(notified, target[t])
  /\ UNCHANGED <<conns, drops, plan, target, streak>>

Reset(t) ==
  /\ Goto(t, "reset", "pick")
  /\ drops' = [drops EXCEPT ![target[t]] = 0]
  /\ UNCHANGED <<conns, plan, target, notified, streak>>

\* fetch_add(1) + 1 >= max_drops
Count(t) ==
  /\ Goto(t, "count", IF drops[target[t]] + 1 >= MaxDrops
                        THEN "unlist" ELSE "pick")
  /\ drops' = [drops EXCEPT ![target[t]] = @ + 1]
  /\ UNCHANGED <<conns, plan, target, notified, streak>>

\* Mutant: the evicted connection stays in the registry.
UnlistNothing(t) ==
  /\ Goto(t, "unlist", IF target[t] \in registered THEN "cancel" ELSE "pick")
  /\ UNCHANGED <<conns, drops, plan, target, notified, streak>>

\* Mutant: the token is cancelled whatever the removal returned.
UnlistAnyway(t) ==
  /\ Goto(t, "unlist", "cancel")
  /\ registered' = registered \ {target[t]}
  /\ UNCHANGED <<policy, queued, alive, slow, evicted, drops,
                 plan, target, notified, streak>>

\* connections.remove: Some for one evictor, None for the others
Unlist(t) ==
  /\ Goto(t, "unlist", IF target[t] \in registered THEN "cancel" ELSE "pick")
  /\ registered' = registered \ {target[t]}
  /\ UNCHANGED <<policy, queued, alive, slow, evicted, drops,
                 plan, target, notified, streak>>

CancelToken(t) ==
  /\ Goto(t, "cancel", "pick")
  /\ evicted' = evicted \cup {target[t]}
  /\ UNCHANGED <<policy, queued, alive, slow, registered, drops,
                 plan, target, notified, streak>>

-----------------------------------------------------------------------------
(* The connections, as their writers, serve tasks and peers drive them     *)

Drain(c) ==
  /\ c \in alive
  /\ queued[c] > 0
  /\ queued' = [queued EXCEPT ![c] = @ - 1]
  /\ UNCHANGED <<policy, alive, slow, registered, evicted, drops,
                 pc, plan, target, notified, streak>>

\* The writer exits and drops the receiver.
Close(c) ==
  /\ c \in alive
  /\ alive' = alive \ {c}
  /\ UNCHANGED <<policy, queued, slow, registered, evicted, drops,
                 pc, plan, target, notified, streak>>

\* The connection's own teardown unregisters it.
Leave(c) ==
  /\ c \in registered
  /\ registered' = registered \ {c}
  /\ UNCHANGED <<policy, queued, alive, slow, evicted, drops,
                 pc, plan, target, notified, streak>>

\* update_rtt moves the average across max_rtt.  It finds the connection by
\* its key and records nothing for one that is unregistered.
Measure(c) ==
  /\ policy = "DropOnHighRtt"
  /\ c \in registered
  /\ slow' = IF c \in slow THEN slow \ {c} ELSE slow \cup {c}
  /\ UNCHANGED <<policy, queued, alive, registered, evicted, drops,
                 pc, plan, target, notified, streak>>

-----------------------------------------------------------------------------
\* A step that the fan-out of t takes by itself.
Step(t) ==
  \/ \E c \in Conn : Pick(t, c)
  \/ Return(t) \/ Judge(t) \/ Push(t) \/ Drop(t) \/ Ignore(t)
  \/ Notify(t) \/ Reset(t) \/ Count(t) \/ Unlist(t) \/ CancelToken(t)

Next ==
  \/ \E t \in Task : Call(t) \/ Step(t) \/ Abort(t)
  \/ \E c \in Conn : Drain(c) \/ Close(c) \/ Leave(c) \/ Measure(c)

Spec == Init /\ [][Next]_vars

-----------------------------------------------------------------------------
(* Properties                                                              *)

\* Before a connection is closed for its drops, the hub has been told of
\* max_drops of them, whatever the interleaving of fan-outs (policy.rs:26-31);
\* before it is closed for its RTT, of one.
EvictionAnnounced ==
  \A c \in evicted :
    notified[c] >= IF policy = "DropConnection" THEN MaxDrops ELSE 1

\* The counter stops: a fan-out that collected the connection before its
\* eviction may still count a drop for it, but only one, for it lists each
\* connection once and no later fan-out lists the connection at all.
DropsBounded ==
  \A c \in Conn : drops[c] < MaxDrops + Cardinality(Task)

\* A connection is evicted only when its last max_drops messages were dropped
\* (policy.rs:26-27, "once max_drops consecutive drops accumulate").
ConsecutiveDrops ==
  [][\A t \in Task : (pc[t] = "count" /\ pc'[t] = "unlist")
       => streak[target[t]] >= MaxDrops]_vars

\* A fan-out that returns has tried every recipient that was still alive: a
\* closed queue does not cut it short (policy.rs:15, Block "guarantees
\* delivery as long as the TCP connection is alive").
TriesEveryRecipient ==
  [][\A t \in Task : (pc[t] # "idle" /\ pc'[t] = "idle")
       => plan[t] \cap alive = {}
          /\ (pc[t] = "send" => target[t] \notin alive)]_vars

\* Of the fan-outs that find a connection to be evicted at the same time, and
\* its own teardown, one takes it out of the registry, and only a fan-out that
\* did so cancels its token: no token is cancelled twice, or for a connection
\* that left by itself before the eviction (clients.rs:414, 434).
OneEvictor ==
  /\ registered \cap evicted = {}
  /\ \A t \in Task : pc[t] = "cancel" =>
       /\ target[t] \notin registered \cup evicted
       /\ \A u \in Task \ {t} : pc[u] = "cancel" => target[u] # target[t]

\* How many steps of send_with_policy may still follow for the recipient.
Rank(p) ==
  CASE p = "judge"  -> 6
    [] p = "send"   -> 5
    [] p = "notify" -> 4
    [] p = "count"  -> 3
    [] p = "unlist" -> 2
    [] p \in {"cancel", "reset"} -> 1
    [] OTHER        -> 0

\* A fan-out cannot go round in circles: each of its steps takes a recipient off
\* the plan, ends the fan-out, or is nearer the end of the one send that it
\* makes for the recipient, so with n recipients it takes at most 7n + 1 steps,
\* whatever the other fan-outs do meanwhile (policy.rs:20-21, a message past its
\* deadline is dropped, not sent again).
FanOutAdvances ==
  [][\A t \in Task : ~Free(t) /\ pc'[t] # pc[t] =>
       \/ Free(t)'
       \/ plan'[t] \subseteq plan[t] /\ plan'[t] # plan[t]
       \/ plan'[t] = plan[t] /\ Rank(pc'[t]) < Rank(pc[t])]_vars

\* A fan-out waits for nobody but a live peer that does not read, and for such
\* a peer only under the policies without a timeout: otherwise it has a step of
\* its own to take, and it takes finitely many for each recipient
\* (policy.rs:20-21, a message past its deadline is dropped).
WaitsOnlyForReaders ==
  \A t \in Task :
    \/ Free(t)
    \/ ENABLED Step(t)
    \/ /\ ~Timed
       /\ pc[t] = "send"
       /\ target[t] \in alive
       /\ queued[target[t]] = Cap
=============================================================================
