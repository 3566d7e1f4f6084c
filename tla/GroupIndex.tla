----------------------------- MODULE GroupIndex -----------------------------
(***************************************************************************)
(* The registry of InMemoryWsClients (clients.rs): the map of connections, *)
(* the two indexes of group membership (group -> members and connection -> *)
(* groups), and the asynchronous calls that read and change them.          *)
(*                                                                         *)
(* A Task is one asynchronous computation: the serve task of a connection  *)
(* or a handler of the hub.  It executes one registry call at a time, and  *)
(* every access to a DashMap or DashSet is one step, so the steps of two   *)
(* calls interleave as they do on a multi-threaded runtime.                *)
(*                                                                         *)
(* group_members is sharded: a Ref obtained from it is a shared lock on    *)
(* the shard of its key, and inserting or removing a key takes that lock   *)
(* exclusively.  Readers do not queue behind a waiting writer.  A task     *)
(* that waits for a lock blocks the worker thread that polls it.           *)
(***************************************************************************)
EXTENDS Naturals, Sequences, FiniteSets

CONSTANTS
  Conn,     \* connection ids; the server draws a fresh one per socket
  Group,    \* group names
  Task,     \* asynchronous computations
  Shard,    \* the shard of group_members that each group hashes to
  Calls,    \* the registry calls that the tasks issue
  Serial,   \* TRUE: the hub issues the group calls of a connection one at a
            \* time and none outlives its connection (what on_connect gives)
  Evicts,   \* TRUE: the policy may evict a recipient (DropConnection,
            \* DropOnHighRtt); FALSE: Block or DropMessage
  Workers,  \* worker threads of the runtime
  NoConn, NoGroup

FanOuts == {"broadcast_group", "broadcast_groups", "broadcast_except"}
GroupCalls == {"add_to_group", "remove_from_group"}

ASSUME ConstantsAssumption ==
  /\ Serial \in BOOLEAN
  /\ Evicts \in BOOLEAN
  /\ Workers \in Nat \ {0}
  /\ IsFiniteSet(Task)
  /\ Shard \in [Group -> Nat]
  /\ Calls \subseteq FanOuts \cup GroupCalls \cup {"remove"}
  /\ NoConn \notin Conn
  /\ NoGroup \notin Group

VARIABLES
  status,        \* life of a connection, as its serve task drives it
  registered,    \* keys of `connections`
  groupKeys,     \* keys of `group_members`
  groupMembers,  \* value of `group_members` under each key, {} without one
  connGroups,    \* value of `connection_groups` under each key, {} without one
  call,          \* the registry call a task executes
  pc,            \* the next step of that call
  who,           \* the connection it works on
  room,          \* the group it works on
  todo,          \* the groups its loop has still to visit
  guard,         \* the group whose Ref a fan-out holds
  excluded,      \* the connections a fan-out leaves out
  left,          \* the ids the iteration under way has still to visit
  fetched,       \* the ids of a group copied by broadcast_groups
  seen,          \* the `seen` set of broadcast_groups
  rcpt,          \* the recipients collected
  next           \* the position in rcpt of the next send

index == <<groupKeys, groupMembers, connGroups>>
conns == <<status, registered>>
locals == <<call, pc, who, room, todo>>
fan == <<guard, excluded, left, fetched, seen, rcpt, next>>
vars == <<status, registered, groupKeys, groupMembers, connGroups,
          call, pc, who, room, todo,
          guard, excluded, left, fetched, seen, rcpt, next>>

Steps == {"idle", "join_members", "join_groups", "leave_members",
          "leave_groups", "take", "clean", "check", "prune", "unlist",
          "gather", "scan", "lookup", "send"}

TypeOK ==
  /\ status \in [Conn -> {"fresh", "open", "closing", "gone"}]
  /\ registered \subseteq Conn
  /\ groupKeys \subseteq Group
  /\ groupMembers \in [Group -> SUBSET Conn]
  /\ connGroups \in [Conn -> SUBSET Group]
  /\ call \in [Task -> Calls \cup {"none"}]
  /\ pc \in [Task -> Steps]
  /\ who \in [Task -> Conn \cup {NoConn}]
  /\ room \in [Task -> Group \cup {NoGroup}]
  /\ todo \in [Task -> SUBSET Group]
  /\ guard \in [Task -> Group \cup {NoGroup}]
  /\ excluded \in [Task -> SUBSET Conn]
  /\ left \in [Task -> SUBSET Conn]
  /\ fetched \in [Task -> SUBSET Conn]
  /\ seen \in [Task -> SUBSET Conn]
  /\ rcpt \in [Task -> Seq(Conn)]
  /\ next \in [Task -> Nat \ {0}]

Init ==
  /\ status = [c \in Conn |-> "fresh"]
  /\ registered = {}
  /\ groupKeys = {}
  /\ groupMembers = [g \in Group |-> {}]
  /\ connGroups = [c \in Conn |-> {}]
  /\ call = [t \in Task |-> "none"]
  /\ pc = [t \in Task |-> "idle"]
  /\ who = [t \in Task |-> NoConn]
  /\ room = [t \in Task |-> NoGroup]
  /\ todo = [t \in Task |-> {}]
  /\ guard = [t \in Task |-> NoGroup]
  /\ excluded = [t \in Task |-> {}]
  /\ left = [t \in Task |-> {}]
  /\ fetched = [t \in Task |-> {}]
  /\ seen = [t \in Task |-> {}]
  /\ rcpt = [t \in Task |-> <<>>]
  /\ next = [t \in Task |-> 1]

-----------------------------------------------------------------------------
(* Locks and calls                                                         *)

\* Mutant: cleanup_groups without its drop(members), the removal of the group
\* waits for the Ref that the check took.
HoldsUntilPruned(t, g) ==
  guard[t] = g \/ (pc[t] \in {"check", "prune"} /\ room[t] = g)

Holds(t, g) == guard[t] = g \/ (pc[t] = "check" /\ room[t] = g)

\* No task, the caller included, holds a Ref into the shard of g.
Exclusive(g) ==
  \A t \in Task, h \in Group : Shard[h] = Shard[g] => ~Holds(t, h)

\* A task awaits something between two calls, and a fan-out in each send.
\* Anywhere else a call runs to its next await on the thread that polls it,
\* and keeps that thread while it waits for a lock.
Suspended(t) == pc[t] \in {"idle", "send"}

\* The task has a worker thread, or one is free to poll it.
Polled(t) ==
  Suspended(t) => Cardinality({u \in Task : ~Suspended(u)}) < Workers

Begin(t, op) ==
  /\ pc[t] = "idle"
  /\ op \in Calls
  /\ call' = [call EXCEPT ![t] = op]

Goto(t, step) == pc' = [pc EXCEPT ![t] = step]

Finish(t) ==
  /\ Goto(t, "idle")
  /\ call' = [call EXCEPT ![t] = "none"]
  /\ who' = [who EXCEPT ![t] = NoConn]
  /\ room' = [room EXCEPT ![t] = NoGroup]

Operating(t, c) == call[t] \in GroupCalls /\ who[t] = c

\* A handler may still be running after its connection was torn down: its
\* task is cancelled, but never joined.
MayOperate(c) ==
  /\ status[c] # "fresh"
  /\ Serial => status[c] = "open" /\ \A t \in Task : ~Operating(t, c)

-----------------------------------------------------------------------------
(* add, add_to_group, remove_from_group                                    *)

Add(c) ==
  /\ status[c] = "fresh"
  /\ status' = [status EXCEPT ![c] = "open"]
  /\ registered' = registered \cup {c}
  /\ UNCHANGED <<index, locals, fan>>

CallGroupOp(t, c, g, op, step) ==
  /\ Begin(t, op)
  /\ MayOperate(c)
  /\ Goto(t, step)
  /\ who' = [who EXCEPT ![t] = c]
  /\ room' = [room EXCEPT ![t] = g]
  /\ UNCHANGED <<conns, index, todo, fan>>

CallAddToGroup(t, c, g) == CallGroupOp(t, c, g, "add_to_group", "join_members")

CallRemoveFromGroup(t, c, g) ==
  CallGroupOp(t, c, g, "remove_from_group", "leave_members")

\* entry(grp).or_default().insert(conn), under the exclusive lock
JoinMembers(t) ==
  /\ pc[t] = "join_members"
  /\ Exclusive(room[t])
  /\ groupKeys' = groupKeys \cup {room[t]}
  /\ groupMembers' = [groupMembers EXCEPT ![room[t]] = @ \cup {who[t]}]
  /\ Goto(t, "join_groups")
  /\ UNCHANGED <<conns, connGroups, call, who, room, todo, fan>>

\* Mutant: records the group only for a connection that is still registered.
JoinGroupsIfRegistered(t) ==
  /\ pc[t] = "join_groups"
  /\ connGroups' = [connGroups EXCEPT ![who[t]] =
                      IF who[t] \in registered THEN @ \cup {room[t]} ELSE @]
  /\ Finish(t)
  /\ UNCHANGED <<conns, groupKeys, groupMembers, todo, fan>>

JoinGroups(t) ==
  /\ pc[t] = "join_groups"
  /\ connGroups' = [connGroups EXCEPT ![who[t]] = @ \cup {room[t]}]
  /\ Finish(t)
  /\ UNCHANGED <<conns, groupKeys, groupMembers, todo, fan>>

LeaveMembers(t) ==
  /\ pc[t] = "leave_members"
  /\ groupMembers' = [groupMembers EXCEPT ![room[t]] = @ \ {who[t]}]
  /\ Goto(t, "leave_groups")
  /\ UNCHANGED <<conns, groupKeys, connGroups, call, who, room, todo, fan>>

LeaveGroups(t) ==
  /\ pc[t] = "leave_groups"
  /\ connGroups' = [connGroups EXCEPT ![who[t]] = @ \ {room[t]}]
  /\ Finish(t)
  /\ UNCHANGED <<conns, groupKeys, groupMembers, todo, fan>>

-----------------------------------------------------------------------------
(* remove, and cleanup_groups, which an eviction runs too                  *)

CallRemove(t, c) ==
  /\ Begin(t, "remove")
  /\ status[c] = "open"
  /\ Serial => \A u \in Task : ~Operating(u, c)
  /\ status' = [status EXCEPT ![c] = "closing"]
  /\ Goto(t, "take")
  /\ who' = [who EXCEPT ![t] = c]
  /\ UNCHANGED <<registered, index, room, todo, fan>>

TakeGroups(t) ==
  /\ pc[t] = "take"
  /\ todo' = [todo EXCEPT ![t] = connGroups[who[t]]]
  /\ connGroups' = [connGroups EXCEPT ![who[t]] = {}]
  /\ Goto(t, "clean")
  /\ UNCHANGED <<conns, groupKeys, groupMembers, call, who, room, fan>>

\* The Ref taken here is held until CheckEmpty.
Detach(t, g) ==
  /\ pc[t] = "clean"
  /\ g \in todo[t] \cap groupKeys
  /\ todo' = [todo EXCEPT ![t] = @ \ {g}]
  /\ groupMembers' = [groupMembers EXCEPT ![g] = @ \ {who[t]}]
  /\ room' = [room EXCEPT ![t] = g]
  /\ Goto(t, "check")
  /\ UNCHANGED <<conns, groupKeys, connGroups, call, who, fan>>

\* group_members.get(g) is None, in cleanup_groups and in broadcast_groups
SkipGroup(t, g) ==
  /\ pc[t] \in {"clean", "gather"}
  /\ g \in todo[t] \ groupKeys
  /\ todo' = [todo EXCEPT ![t] = @ \ {g}]
  /\ UNCHANGED <<conns, index, call, pc, who, room, fan>>

CheckEmpty(t) ==
  /\ pc[t] = "check"
  /\ Goto(t, IF groupMembers[room[t]] = {} THEN "prune" ELSE "clean")
  /\ UNCHANGED <<conns, index, call, who, room, todo, fan>>

\* Removes the entry with whatever members it has by now.
Prune(t) ==
  /\ pc[t] = "prune"
  /\ Exclusive(room[t])
  /\ groupKeys' = groupKeys \ {room[t]}
  /\ groupMembers' = [groupMembers EXCEPT ![room[t]] = {}]
  /\ Goto(t, "clean")
  /\ UNCHANGED <<conns, connGroups, call, who, room, todo, fan>>

CleanupDone(t) ==
  /\ pc[t] = "clean"
  /\ todo[t] = {}
  /\ room' = [room EXCEPT ![t] = NoGroup]
  /\ Goto(t, IF call[t] = "remove" THEN "unlist" ELSE "send")
  /\ who' = [who EXCEPT ![t] = IF call[t] = "remove" THEN @ ELSE NoConn]
  /\ UNCHANGED <<conns, index, call, todo, fan>>

Unlist(t) ==
  /\ pc[t] = "unlist"
  /\ registered' = registered \ {who[t]}
  /\ status' = [status EXCEPT ![who[t]] = "gone"]
  /\ Finish(t)
  /\ UNCHANGED <<index, todo, fan>>

-----------------------------------------------------------------------------
(* broadcast_group(_except), broadcast_groups and broadcast_except         *)

CallBroadcastGroup(t, g, ex) ==
  /\ Begin(t, "broadcast_group")
  /\ g \in groupKeys
  /\ guard' = [guard EXCEPT ![t] = g]
  /\ excluded' = [excluded EXCEPT ![t] = ex]
  /\ left' = [left EXCEPT ![t] = Conn]
  /\ Goto(t, "scan")
  /\ UNCHANGED <<conns, index, who, room, todo, fetched, seen, rcpt, next>>

CallBroadcastExcept(t, ex) ==
  /\ Begin(t, "broadcast_except")
  /\ excluded' = [excluded EXCEPT ![t] = ex]
  /\ left' = [left EXCEPT ![t] = Conn]
  /\ Goto(t, "scan")
  /\ UNCHANGED <<conns, index, who, room, todo,
                 guard, fetched, seen, rcpt, next>>

CallBroadcastGroups(t, gs) ==
  /\ Begin(t, "broadcast_groups")
  /\ todo' = [todo EXCEPT ![t] = gs]
  /\ Goto(t, "gather")
  /\ UNCHANGED <<conns, index, who, room, fan>>

Gather(t, g) ==
  /\ pc[t] = "gather"
  /\ g \in todo[t] \cap groupKeys
  /\ todo' = [todo EXCEPT ![t] = @ \ {g}]
  /\ guard' = [guard EXCEPT ![t] = g]
  /\ left' = [left EXCEPT ![t] = Conn]
  /\ Goto(t, "scan")
  /\ UNCHANGED <<conns, index, call, who, room,
                 excluded, fetched, seen, rcpt, next>>

EndGather(t) ==
  /\ pc[t] = "gather"
  /\ todo[t] = {}
  /\ Goto(t, "send")
  /\ UNCHANGED <<conns, index, call, who, room, todo, fan>>

\* The iteration yields c, and the filters of the call keep it.
Selected(t, c) ==
  /\ guard[t] # NoGroup => c \in groupMembers[guard[t]]
  /\ c \notin excluded[t]
  /\ call[t] # "broadcast_groups" => c \in registered

\* Mutant: map_while for filter_map, the first unregistered id ends the scan.
VisitWhile(t, c) ==
  /\ pc[t] = "scan"
  /\ c \in left[t]
  /\ ~Selected(t, c)
  /\ left' = [left EXCEPT ![t] = IF c \in registered THEN @ \ {c} ELSE {}]
  /\ UNCHANGED <<conns, index, locals,
                 guard, excluded, fetched, seen, rcpt, next>>

Pass(t, c) ==
  /\ pc[t] = "scan"
  /\ c \in left[t]
  /\ ~Selected(t, c)
  /\ left' = [left EXCEPT ![t] = @ \ {c}]
  /\ UNCHANGED <<conns, index, locals,
                 guard, excluded, fetched, seen, rcpt, next>>

Collect(t, c) ==
  /\ pc[t] = "scan"
  /\ call[t] # "broadcast_groups"
  /\ c \in left[t]
  /\ Selected(t, c)
  /\ left' = [left EXCEPT ![t] = @ \ {c}]
  /\ rcpt' = [rcpt EXCEPT ![t] = Append(@, c)]
  /\ UNCHANGED <<conns, index, locals, guard, excluded, fetched, seen, next>>

\* broadcast_groups copies the ids first and looks them up later.
Copy(t, c) ==
  /\ pc[t] = "scan"
  /\ call[t] = "broadcast_groups"
  /\ c \in left[t]
  /\ Selected(t, c)
  /\ left' = [left EXCEPT ![t] = @ \ {c}]
  /\ fetched' = [fetched EXCEPT ![t] = @ \cup {c}]
  /\ UNCHANGED <<conns, index, locals, guard, excluded, seen, rcpt, next>>

\* broadcast_groups drops the Ref with the copy; the others keep it until
\* the last send has returned.
EndScan(t) ==
  /\ pc[t] = "scan"
  /\ left[t] = {}
  /\ Goto(t, IF call[t] = "broadcast_groups" THEN "lookup" ELSE "send")
  /\ guard' = [guard EXCEPT ![t] =
                  IF call[t] = "broadcast_groups" THEN NoGroup ELSE @]
  /\ UNCHANGED <<conns, index, call, who, room, todo,
                 excluded, left, fetched, seen, rcpt, next>>

\* Mutant: broadcast_groups without its `seen` filter.
LookupAll(t, c) ==
  /\ pc[t] = "lookup"
  /\ c \in fetched[t]
  /\ fetched' = [fetched EXCEPT ![t] = @ \ {c}]
  /\ seen' = [seen EXCEPT ![t] = @ \cup {c}]
  /\ rcpt' = [rcpt EXCEPT ![t] =
                IF c \in registered THEN Append(@, c) ELSE @]
  /\ UNCHANGED <<conns, index, locals, guard, excluded, left, next>>

Lookup(t, c) ==
  /\ pc[t] = "lookup"
  /\ c \in fetched[t]
  /\ fetched' = [fetched EXCEPT ![t] = @ \ {c}]
  /\ seen' = [seen EXCEPT ![t] = @ \cup {c}]
  /\ rcpt' = [rcpt EXCEPT ![t] =
                IF c \in registered \ seen[t] THEN Append(@, c) ELSE @]
  /\ UNCHANGED <<conns, index, locals, guard, excluded, left, next>>

EndLookup(t) ==
  /\ pc[t] = "lookup"
  /\ fetched[t] = {}
  /\ Goto(t, "gather")
  /\ UNCHANGED <<conns, index, call, who, room, todo, fan>>

\* Mutant: a recipient whose message was dropped is tried again, and again.
DeliverAgain(t) ==
  /\ pc[t] = "send"
  /\ next[t] \in DOMAIN rcpt[t]
  /\ UNCHANGED <<conns, index, locals, fan>>

\* send_with_policy returned without evicting: delivered, dropped, or closed
Deliver(t) ==
  /\ pc[t] = "send"
  /\ next[t] \in DOMAIN rcpt[t]
  /\ next' = [next EXCEPT ![t] = @ + 1]
  /\ UNCHANGED <<conns, index, locals,
                 guard, excluded, left, fetched, seen, rcpt>>

\* Mutant: the evicted recipient is sent to once more.
EvictAndRetry(t) ==
  /\ Evicts
  /\ pc[t] = "send"
  /\ next[t] \in DOMAIN rcpt[t]
  /\ registered' = registered \ {rcpt[t][next[t]]}
  /\ who' = [who EXCEPT ![t] = rcpt[t][next[t]]]
  /\ Goto(t, "take")
  /\ UNCHANGED <<status, index, call, room, todo, fan>>

\* send_with_policy evicts the recipient: connections.remove, cleanup_groups
Evict(t) ==
  /\ Evicts
  /\ pc[t] = "send"
  /\ next[t] \in DOMAIN rcpt[t]
  /\ registered' = registered \ {rcpt[t][next[t]]}
  /\ who' = [who EXCEPT ![t] = rcpt[t][next[t]]]
  /\ next' = [next EXCEPT ![t] = @ + 1]
  /\ Goto(t, "take")
  /\ UNCHANGED <<status, index, call, room, todo,
                 guard, excluded, left, fetched, seen, rcpt>>

\* Mutant: the next fan-out starts one position early.
EndFanOutRewound(t) ==
  /\ pc[t] = "send"
  /\ next[t] \notin DOMAIN rcpt[t]
  /\ Finish(t)
  /\ guard' = [guard EXCEPT ![t] = NoGroup]
  /\ excluded' = [excluded EXCEPT ![t] = {}]
  /\ seen' = [seen EXCEPT ![t] = {}]
  /\ rcpt' = [rcpt EXCEPT ![t] = <<>>]
  /\ next' = [next EXCEPT ![t] = 0]
  /\ UNCHANGED <<conns, index, todo, left, fetched>>

EndFanOut(t) ==
  /\ pc[t] = "send"
  /\ next[t] \notin DOMAIN rcpt[t]
  /\ Finish(t)
  /\ guard' = [guard EXCEPT ![t] = NoGroup]
  /\ excluded' = [excluded EXCEPT ![t] = {}]
  /\ seen' = [seen EXCEPT ![t] = {}]
  /\ rcpt' = [rcpt EXCEPT ![t] = <<>>]
  /\ next' = [next EXCEPT ![t] = 1]
  /\ UNCHANGED <<conns, index, todo, left, fetched>>

-----------------------------------------------------------------------------
Call(t) ==
  \/ \E c \in Conn : CallRemove(t, c)
  \/ \E c \in Conn, g \in Group :
        CallAddToGroup(t, c, g) \/ CallRemoveFromGroup(t, c, g)
  \/ \E g \in Group, ex \in SUBSET Conn : CallBroadcastGroup(t, g, ex)
  \/ \E ex \in SUBSET Conn : CallBroadcastExcept(t, ex)
  \/ \E gs \in SUBSET Group : CallBroadcastGroups(t, gs)

\* A step of the call that t executes; every loop ends.
Step(t) ==
  \/ JoinMembers(t) \/ JoinGroups(t)
  \/ LeaveMembers(t) \/ LeaveGroups(t)
  \/ TakeGroups(t) \/ CheckEmpty(t) \/ Prune(t) \/ CleanupDone(t) \/ Unlist(t)
  \/ \E g \in Group : Detach(t, g) \/ SkipGroup(t, g) \/ Gather(t, g)
  \/ EndGather(t) \/ EndScan(t) \/ EndLookup(t)
  \/ \E c \in Conn : Pass(t, c) \/ Collect(t, c) \/ Copy(t, c) \/ Lookup(t, c)
  \/ Deliver(t) \/ Evict(t) \/ EndFanOut(t)

Next ==
  \/ \E c \in Conn : Add(c)
  \/ \E t \in Task : Polled(t) /\ (Call(t) \/ Step(t))

Spec == Init /\ [][Next]_vars

\* A thread goes on with the task it polls, and the run queue of the runtime is
\* served in order: a task that awaits a free thread again and again gets one.
FairSpec ==
  /\ Spec
  /\ \A t \in Task : /\ WF_vars(Polled(t) /\ Step(t))
                     /\ SF_vars(Suspended(t) /\ Polled(t) /\ Step(t))

-----------------------------------------------------------------------------
(* Properties                                                              *)

\* t executes cleanup_groups for c, in remove or in an eviction.
Cleaning(t, c) ==
  /\ pc[t] \in {"take", "clean", "check", "prune", "unlist"}
  /\ who[t] = c

Recipients(t) == {rcpt[t][i] : i \in DOMAIN rcpt[t]}

\* Once a connection is torn down, and no eviction is still cleaning up after
\* it, no group lists it (clients.rs:62, remove "removes the connection ...
\* from the registry").  The straggling handlers of a hub can break this.
GoneLeavesGroups ==
  \A c \in Conn :
    (status[c] = "gone" /\ \A t \in Task : ~Cleaning(t, c))
      => \A g \in Group : c \notin groupMembers[g]

\* The same under a hub that issues its group calls one at a time and none
\* too late: cleanup_groups then leaves no ghost behind, although an eviction
\* may run between the two insertions of add_to_group and overlap with remove.
NoGhosts == Serial => GoneLeavesGroups

\* No fan-out lists a connection twice, not even broadcast_groups over groups
\* that share members and that change while it copies them (clients.rs:97-99,
\* "at most once").
RecipientsDistinct ==
  \A t \in Task : \A i, j \in DOMAIN rcpt[t] :
    rcpt[t][i] = rcpt[t][j] => i = j

\* While broadcast_group(_except) sends, every registered member of its group
\* that is not excluded is one of its recipients: no connection can join
\* behind its back, for it still holds the Ref.
NoMemberSkipped ==
  \A t \in Task :
    (guard[t] # NoGroup /\ pc[t] = "send") =>
      (groupMembers[guard[t]] \cap registered) \ excluded[t]
        \subseteq Recipients(t)

\* t waits for the exclusive lock of a shard, and somebody holds a Ref into it.
Waiting(t) == pc[t] \in {"join_members", "prune"} /\ ~Exclusive(room[t])

\* Calls never wait for one another in a cycle: while some thread is not
\* blocked on a shard, some call under way can go on.  Whoever holds a Ref does
\* not wait for one, except an evicting broadcast_group, which cleans up after
\* its recipient under the Ref of its own group (clients.rs:458 drops the Ref
\* before the entry is removed, clients.rs:270 keeps it across the sends).
NoLockCycle ==
  (/\ \E t \in Task : pc[t] # "idle"
   /\ Cardinality({t \in Task : Waiting(t)}) < Workers)
  => \/ \E t \in Task : pc[t] # "idle" /\ ~Waiting(t) /\ Polled(t)
     \/ Evicts /\ \E t \in Task : call[t] = "broadcast_group" /\ Waiting(t)

Collects(t) == pc[t] \in {"gather", "scan", "lookup"}

Shrinks(set, t) == set'[t] \subseteq set[t] /\ set'[t] # set[t]

\* Within one pass of a loop, a step goes to one of a smaller rank.
StepRank(p) ==
  CASE p = "check"             -> 3
    [] p \in {"prune", "scan"} -> 2
    [] p \in {"clean", "lookup", "join_members", "leave_members"} -> 1
    [] OTHER                   -> 0

CollectsOn(t) ==
  \/ Shrinks(todo, t)
  \/ /\ todo'[t] = todo[t]
     /\ \/ StepRank(pc'[t]) < StepRank(pc[t])
        \/ pc'[t] = pc[t] /\ Shrinks(left, t)
        \/ pc'[t] = pc[t] /\ left'[t] = left[t] /\ Shrinks(fetched, t)

SendsOn(t) ==
  \/ next[t] \in DOMAIN rcpt[t] /\ next'[t] = next[t] + 1
  \/ /\ next'[t] = next[t]
     /\ pc'[t] # "take"
     /\ \/ pc[t] = "take"
        \/ Shrinks(todo, t)
        \/ todo'[t] = todo[t] /\ StepRank(pc'[t]) < StepRank(pc[t])

\* A call never goes round in circles.  Whatever other calls do to the maps
\* meanwhile, each of its steps ends it, ends its collecting for good, or gets on
\* with it in a well-founded order: while it collects, fewer groups, then a later
\* step, then fewer ids; afterwards a later recipient out of a list that no
\* longer changes, then fewer groups to clean up after it, then a later step.
\* Hence a call takes finitely many steps if it is given them.
CallAdvances ==
  [][\A t \in Task : pc[t] # "idle" =>
       \/ UNCHANGED <<call[t], pc[t], who[t], room[t], todo[t], guard[t],
                      left[t], fetched[t], rcpt[t], next[t]>>
       \/ pc'[t] = "idle"
       \/ Collects(t) /\ ~Collects(t)'
       \/ Collects(t) /\ Collects(t)' /\ CollectsOn(t)
       \/ ~Collects(t) /\ ~Collects(t)' /\ rcpt'[t] = rcpt[t] /\ SendsOn(t)]_vars

\* A connection that is in a group, and for which no call is under way, is
\* listed by that group, so a broadcast to the group reaches it
\* (clients.rs:86, "sends it to all connections in `group`").
JoinedIsMember ==
  \A c \in Conn, g \in Group :
    (g \in connGroups[c] /\ \A t \in Task : who[t] # c)
      => c \in groupMembers[g]

\* Every fan-out returns (policy.rs:26-27: with a timeout on each send, a slow
\* client costs the broadcast a bounded delay), although it gives its worker
\* thread away in each send while other tasks block theirs on its Ref: as long
\* as these are fewer than the worker threads.
FanOutReturns ==
  \A t \in Task : (call[t] \in FanOuts) ~> (call[t] = "none")
=============================================================================
