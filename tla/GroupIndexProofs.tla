-------------------------- MODULE GroupIndexProofs --------------------------
(***************************************************************************)
(* Theorems about GroupIndex, for every set of connections, groups and     *)
(* tasks, every assignment of groups to shards and every mix of calls.     *)
(***************************************************************************)
EXTENDS GroupIndex, FiniteSetTheorems, TLAPS

-----------------------------------------------------------------------------
(* The parts of the inductive invariants                                   *)

CleanupSteps == {"take", "clean", "check", "prune", "unlist"}

\* The locals that a step is about to use hold a connection and a group.
Targets ==
  \A t \in Task :
    /\ pc[t] \in CleanupSteps
                 \cup {"join_members", "join_groups",
                       "leave_members", "leave_groups"} => who[t] \in Conn
    /\ pc[t] \in {"join_members", "join_groups", "leave_members",
                  "leave_groups", "check", "prune"} => room[t] \in Group

\* Which steps belong to which call.
CallSteps ==
  \A t \in Task :
    /\ pc[t] = "idle" => call[t] = "none"
    /\ pc[t] \in {"join_members", "join_groups"} => call[t] = "add_to_group"
    /\ pc[t] \in {"leave_members", "leave_groups"}
         => call[t] = "remove_from_group"
    /\ pc[t] \in CleanupSteps => call[t] \in FanOuts \cup {"remove"}
    /\ pc[t] = "unlist" => call[t] = "remove"
    /\ pc[t] \in {"gather", "scan", "lookup", "send"} => call[t] \in FanOuts
    /\ pc[t] \in {"gather", "lookup"} => call[t] = "broadcast_groups"

\* Under Serial, one task at a time works on the groups of a connection, ...
OneOperator ==
  \A t, u \in Task, c \in Conn : Operating(t, c) /\ Operating(u, c) => t = u

\* ... and only while the serve task has not begun to tear it down.
OperatesOpen ==
  \A t \in Task, c \in Conn : Operating(t, c) => status[c] = "open"

RemoverClosing ==
  \A t \in Task : call[t] = "remove" => status[who[t]] = "closing"

OneRemover ==
  \A t, u \in Task :
    call[t] = "remove" /\ call[u] = "remove" /\ who[t] = who[u] => t = u

\* remove has emptied the connection's own index once it is past TakeGroups.
Taken ==
  /\ \A t \in Task : call[t] = "remove" /\ pc[t] # "take"
                       => connGroups[who[t]] = {}
  /\ \A c \in Conn : status[c] = "gone" => connGroups[c] = {}

AbsentEmpty == \A g \in Group : g \notin groupKeys => groupMembers[g] = {}

LeftAlready ==
  \A t \in Task : pc[t] = "leave_groups" => who[t] \notin groupMembers[room[t]]

\* t is between the two insertions of add_to_group(c, g).
Joining(t, c, g) == pc[t] = "join_groups" /\ who[t] = c /\ room[t] = g

\* t has g on the list of groups that it cleans up for c.
WillDetach(t, c, g) ==
  pc[t] \in {"clean", "check", "prune"} /\ who[t] = c /\ g \in todo[t]

\* Whoever is listed by a group will be found by a cleanup.
Accounted ==
  \A c \in Conn, g \in Group :
    c \in groupMembers[g] =>
      \/ g \in connGroups[c]
      \/ \E t \in Task : Joining(t, c, g) \/ WillDetach(t, c, g)

TInv == TypeOK /\ Targets /\ CallSteps
SerialInv == OneOperator /\ OperatesOpen /\ RemoverClosing /\ OneRemover
GhostInv == Taken /\ AbsentEmpty /\ LeftAlready /\ Accounted

\* A connection that was never added is in no group.
FreshOutside ==
  /\ \A c \in Conn, g \in Group : c \in groupMembers[g] => status[c] # "fresh"
  /\ \A t \in Task : pc[t] = "join_members" => status[who[t]] # "fresh"

\* The Ref is held by a scan, or by the broadcast_group that goes on to send.
GuardHeld ==
  \A t \in Task : guard[t] # NoGroup =>
    \/ pc[t] = "scan" /\ call[t] \in {"broadcast_group", "broadcast_groups"}
    \/ /\ call[t] = "broadcast_group"
       /\ pc[t] \in {"send", "take", "clean", "check", "prune"}
       /\ left[t] = {}

\* What the iteration has passed is a recipient, or will never be one.
Scanned ==
  \A t \in Task :
    (guard[t] # NoGroup /\ call[t] = "broadcast_group") =>
      (groupMembers[guard[t]] \cap registered) \ excluded[t]
        \subseteq Recipients(t) \cup left[t]

GuardInv == FreshOutside /\ GuardHeld /\ Scanned

\* Why a collected recipient is new: a single iteration has consumed it, and
\* broadcast_groups has noted it in `seen`.
Consumed ==
  \A t \in Task :
    /\ call[t] \notin FanOuts => rcpt[t] = <<>>
    /\ call[t] = "broadcast_groups" => Recipients(t) \subseteq seen[t]
    /\ (call[t] # "broadcast_groups" /\ pc[t] = "scan")
         => Recipients(t) \cap left[t] = {}

DistinctInv == Consumed /\ RecipientsDistinct

-----------------------------------------------------------------------------
(* Type correctness                                                        *)

LEMMA TypeInit == Init => TInv
  BY ConstantsAssumption
  DEF Init, TInv, TypeOK, Targets, CallSteps, CleanupSteps, Steps

\* A step that starts a call, or adds a connection, keeps the types.
LEMMA TypeCall ==
  ASSUME TInv, NEW t \in Task, Call(t)
  PROVE  TInv'
<1> USE ConstantsAssumption
    DEF TInv, TypeOK, Targets, CallSteps, CleanupSteps, Steps, FanOuts,
        GroupCalls, Begin, Goto, conns, index, locals, fan
<1>1. CASE \E c \in Conn : CallRemove(t, c)
  BY <1>1 DEF CallRemove
<1>2. CASE \E c \in Conn, g \in Group : CallAddToGroup(t, c, g)
  BY <1>2 DEF CallAddToGroup, CallGroupOp
<1>3. CASE \E c \in Conn, g \in Group : CallRemoveFromGroup(t, c, g)
  BY <1>3 DEF CallRemoveFromGroup, CallGroupOp
<1>4. CASE \E g \in Group, ex \in SUBSET Conn : CallBroadcastGroup(t, g, ex)
  BY <1>4 DEF CallBroadcastGroup
<1>5. CASE \E ex \in SUBSET Conn : CallBroadcastExcept(t, ex)
  BY <1>5 DEF CallBroadcastExcept
<1>6. CASE \E gs \in SUBSET Group : CallBroadcastGroups(t, gs)
  BY <1>6 DEF CallBroadcastGroups
<1> QED
  BY <1>1, <1>2, <1>3, <1>4, <1>5, <1>6 DEF Call

\* A step of a call under way keeps the types.
LEMMA TypeStep ==
  ASSUME TInv, NEW t \in Task, Step(t)
  PROVE  TInv'
<1> USE ConstantsAssumption
    DEF TInv, TypeOK, Targets, CallSteps, CleanupSteps, Steps, FanOuts,
        Goto, Finish, conns, index, locals, fan
<1>1. CASE JoinMembers(t)
  BY <1>1 DEF JoinMembers
<1>2. CASE JoinGroups(t)
  BY <1>2 DEF JoinGroups
<1>3. CASE LeaveMembers(t)
  BY <1>3 DEF LeaveMembers
<1>4. CASE LeaveGroups(t)
  BY <1>4 DEF LeaveGroups
<1>5. CASE TakeGroups(t)
  BY <1>5 DEF TakeGroups
<1>6. CASE CheckEmpty(t)
  BY <1>6 DEF CheckEmpty
<1>7. CASE Prune(t)
  BY <1>7 DEF Prune
<1>8. CASE CleanupDone(t)
  BY <1>8 DEF CleanupDone
<1>9. CASE Unlist(t)
  BY <1>9 DEF Unlist
<1>10. CASE EndGather(t)
  BY <1>10 DEF EndGather
<1>11. CASE EndScan(t)
  BY <1>11 DEF EndScan
<1>12. CASE EndLookup(t)
  BY <1>12 DEF EndLookup
<1>13. CASE Deliver(t)
  BY <1>13 DEF Deliver
<1>14. CASE Evict(t)
  BY <1>14 DEF Evict
<1>15. CASE EndFanOut(t)
  BY <1>15 DEF EndFanOut
<1>16. CASE \E g \in Group : Detach(t, g)
  BY <1>16 DEF Detach
<1>17. CASE \E g \in Group : SkipGroup(t, g)
  BY <1>17 DEF SkipGroup
<1>18. CASE \E g \in Group : Gather(t, g)
  BY <1>18 DEF Gather
<1>19. CASE \E c \in Conn : Pass(t, c)
  BY <1>19 DEF Pass
<1>20. CASE \E c \in Conn : Collect(t, c)
  BY <1>20 DEF Collect
<1>21. CASE \E c \in Conn : Copy(t, c)
  BY <1>21 DEF Copy
<1>22. CASE \E c \in Conn : Lookup(t, c)
  BY <1>22 DEF Lookup
<1> QED
  BY <1>1, <1>2, <1>3, <1>4, <1>5, <1>6, <1>7, <1>8, <1>9, <1>10, <1>11,
     <1>12, <1>13, <1>14, <1>15, <1>16, <1>17, <1>18, <1>19, <1>20, <1>21,
     <1>22 DEF Step

LEMMA TypeInductive == TInv /\ [Next]_vars => TInv'
<1> SUFFICES ASSUME TInv, [Next]_vars PROVE TInv'
  OBVIOUS
<1>1. CASE \E c \in Conn : Add(c)
  BY <1>1 DEF Add, TInv, TypeOK, Targets, CallSteps, index, locals, fan
<1>2. CASE \E t \in Task : Call(t)
  BY <1>2, TypeCall
<1>3. CASE \E t \in Task : Step(t)
  BY <1>3, TypeStep
<1>4. CASE UNCHANGED vars
  BY <1>4 DEF vars, TInv, TypeOK, Targets, CallSteps
<1> QED
  BY <1>1, <1>2, <1>3, <1>4 DEF Next

LEMMA TypeInvariant == Spec => []TInv
  BY TypeInit, TypeInductive, PTL DEF Spec

\* The variables keep their types: in particular every step works on a
\* connection and a group that its call was given.
THEOREM TypeCorrect == Spec => []TypeOK
  BY TypeInvariant, PTL DEF TInv

-----------------------------------------------------------------------------
(* NoGhosts                                                                *)

\* Who works on a connection, and in which phase of its life: calls.
LEMMA SerialCall ==
  ASSUME Serial, TInv, SerialInv, NEW t \in Task, Call(t)
  PROVE  SerialInv'
<1> USE ConstantsAssumption
    DEF TInv, TypeOK, CallSteps, SerialInv, OneOperator, OperatesOpen,
        RemoverClosing, OneRemover, Operating, FanOuts, GroupCalls,
        Begin, Goto, conns, index, locals, fan
<1>1. CASE \E c \in Conn : CallRemove(t, c)
  BY <1>1 DEF CallRemove
<1>2. CASE \E c \in Conn, g \in Group : CallAddToGroup(t, c, g)
  BY <1>2 DEF CallAddToGroup, CallGroupOp, MayOperate
<1>3. CASE \E c \in Conn, g \in Group : CallRemoveFromGroup(t, c, g)
  BY <1>3 DEF CallRemoveFromGroup, CallGroupOp, MayOperate
<1>4. CASE \E g \in Group, ex \in SUBSET Conn : CallBroadcastGroup(t, g, ex)
  BY <1>4 DEF CallBroadcastGroup
<1>5. CASE \E ex \in SUBSET Conn : CallBroadcastExcept(t, ex)
  BY <1>5 DEF CallBroadcastExcept
<1>6. CASE \E gs \in SUBSET Group : CallBroadcastGroups(t, gs)
  BY <1>6 DEF CallBroadcastGroups
<1> QED
  BY <1>1, <1>2, <1>3, <1>4, <1>5, <1>6 DEF Call

\* The same: steps of a call under way.
LEMMA SerialStep ==
  ASSUME TInv, SerialInv, NEW t \in Task, Step(t)
  PROVE  SerialInv'
<1> USE ConstantsAssumption
    DEF TInv, TypeOK, Targets, CallSteps, CleanupSteps, SerialInv, OneOperator,
        OperatesOpen, RemoverClosing, OneRemover, Operating, FanOuts,
        GroupCalls, Goto, Finish, conns, index, locals, fan
<1>1. CASE JoinGroups(t)
  BY <1>1 DEF JoinGroups
<1>2. CASE LeaveGroups(t)
  BY <1>2 DEF LeaveGroups
<1>3. CASE CleanupDone(t)
  BY <1>3 DEF CleanupDone
<1>4. CASE Unlist(t)
  BY <1>4 DEF Unlist
<1>5. CASE Evict(t)
  <2>1. call[t] \in FanOuts /\ call' = call /\ status' = status
        /\ who' = [who EXCEPT ![t] = rcpt[t][next[t]]]
    BY <1>5 DEF Evict
  <2> QED
    BY <2>1
<1>6. CASE EndFanOut(t)
  BY <1>6 DEF EndFanOut
<1>7. CASE UNCHANGED <<status, call, who>>
  BY <1>7
<1> QED
  BY <1>1, <1>2, <1>3, <1>4, <1>5, <1>6, <1>7 DEF Step, JoinMembers,
     LeaveMembers, TakeGroups, CheckEmpty, Prune, EndGather, EndScan,
     EndLookup, Deliver, Detach, SkipGroup, Gather, Pass, Collect, Copy,
     Lookup

\* A task changes its own locals only.
Others(t) ==
  \A u \in Task \ {t} :
    /\ call'[u] = call[u] /\ pc'[u] = pc[u] /\ who'[u] = who[u]
    /\ room'[u] = room[u] /\ todo'[u] = todo[u]
    /\ guard'[u] = guard[u] /\ excluded'[u] = excluded[u]
    /\ left'[u] = left[u] /\ fetched'[u] = fetched[u] /\ seen'[u] = seen[u]
    /\ rcpt'[u] = rcpt[u] /\ next'[u] = next[u]

LEMMA OthersKeep ==
  ASSUME TInv, NEW t \in Task, Call(t) \/ Step(t)
  PROVE  Others(t)
<1> USE DEF TInv, TypeOK, Others, conns, index, locals, fan, Goto, Finish, Begin
<1>1. CASE Call(t)
  BY <1>1 DEF Call, CallRemove, CallAddToGroup, CallRemoveFromGroup,
     CallGroupOp, CallBroadcastGroup, CallBroadcastExcept, CallBroadcastGroups
<1>2. CASE Step(t)
  BY <1>2 DEF Step, JoinMembers, JoinGroups, LeaveMembers, LeaveGroups,
     TakeGroups, CheckEmpty, Prune, CleanupDone, Unlist, EndGather,
     EndScan, EndLookup, Deliver, Evict, EndFanOut, Detach, SkipGroup,
     Gather, Pass, Collect, Copy, Lookup
<1> QED
  BY <1>1, <1>2

\* What the start of a call leaves alone.
LEMMA CallFrame ==
  ASSUME TInv, NEW t \in Task, Call(t)
  PROVE  /\ UNCHANGED <<registered, groupKeys, groupMembers, connGroups>>
         /\ pc[t] = "idle"
         /\ pc'[t] \in {"join_members", "leave_members", "take", "scan", "gather"}
         /\ call'[t] = "remove" => pc'[t] = "take"
         /\ \A c \in Conn : status'[c] \in {"fresh", "gone"}
                              => status'[c] = status[c]
  BY DEF TInv, TypeOK, conns, index, locals, fan, Goto, Begin, Call,
     CallRemove, CallAddToGroup, CallRemoveFromGroup, CallGroupOp,
     CallBroadcastGroup, CallBroadcastExcept, CallBroadcastGroups

\* Only add_to_group makes a group larger.
LEMMA MembersShrink ==
  ASSUME TInv, NEW t \in Task, Step(t), ~JoinMembers(t), NEW g \in Group
  PROVE  groupMembers'[g] \subseteq groupMembers[g]
<1> USE DEF TInv, TypeOK
<1>1. CASE LeaveMembers(t)
  BY <1>1 DEF LeaveMembers
<1>2. CASE \E h \in Group : Detach(t, h)
  BY <1>2 DEF Detach
<1>3. CASE Prune(t)
  BY <1>3 DEF Prune
<1>4. CASE UNCHANGED groupMembers
  BY <1>4
<1> QED
  BY <1>1, <1>2, <1>3, <1>4 DEF Step, index, JoinGroups, LeaveGroups,
     TakeGroups, CheckEmpty, CleanupDone, Unlist, EndGather, EndScan,
     EndLookup, Deliver, Evict, EndFanOut, SkipGroup, Gather, Pass, Collect,
     Copy, Lookup

\* The calls touch neither index.
LEMMA GhostCall ==
  ASSUME TInv, SerialInv, GhostInv, NEW t \in Task, Call(t)
  PROVE  GhostInv'
<1>1. Others(t)
  BY OthersKeep
<1>2. Taken'
  <2>1. /\ connGroups' = connGroups
        /\ call'[t] = "remove" => pc'[t] = "take"
        /\ \A c \in Conn : status'[c] = "gone" => status[c] = "gone"
    BY CallFrame
  <2> QED
    BY <1>1, <2>1 DEF Taken, Others, GhostInv
<1>3. AbsentEmpty'
  BY CallFrame DEF AbsentEmpty, GhostInv
<1>4. LeftAlready'
  BY <1>1, CallFrame DEF LeftAlready, Others, GhostInv
<1>5. Accounted'
  BY <1>1, CallFrame DEF Accounted, Joining, WillDetach, Others, GhostInv
<1> QED
  BY <1>2, <1>3, <1>4, <1>5 DEF GhostInv

\* remove empties the connection's own index and nobody refills it.
LEMMA TakenStep ==
  ASSUME TInv, SerialInv, GhostInv, NEW t \in Task, Step(t)
  PROVE  Taken'
<1> USE ConstantsAssumption
    DEF TInv, TypeOK, Targets, CallSteps, CleanupSteps, FanOuts, Taken,
        GhostInv, Goto, Finish, conns, index, locals, fan
<1>1. CASE JoinGroups(t)
  BY <1>1 DEF JoinGroups, SerialInv, OperatesOpen, RemoverClosing, Operating,
     GroupCalls
<1>2. CASE LeaveGroups(t)
  BY <1>2 DEF LeaveGroups
<1>3. CASE TakeGroups(t)
  BY <1>3 DEF TakeGroups
<1>4. CASE Unlist(t)
  BY <1>4 DEF Unlist
<1>5. CASE Evict(t)
  BY <1>5 DEF Evict
<1>6. CASE CleanupDone(t)
  BY <1>6 DEF CleanupDone
<1>7. CASE EndFanOut(t)
  BY <1>7 DEF EndFanOut
<1>8. CASE /\ UNCHANGED <<status, call, who, connGroups>>
           /\ pc[t] # "take"
           /\ Others(t)
  <2>1. \A u \in Task : call'[u] = "remove" /\ pc'[u] # "take"
                        => call[u] = "remove" /\ pc[u] # "take"
    BY <1>8 DEF Others
  <2> QED
    BY <1>8, <2>1
<1> QED
  BY <1>1, <1>2, <1>3, <1>4, <1>5, <1>6, <1>7, <1>8, OthersKeep DEF Step,
     JoinMembers, LeaveMembers, CheckEmpty, Prune, EndGather, EndScan,
     EndLookup, Deliver, Detach, SkipGroup, Gather, Pass, Collect, Copy,
     Lookup

\* A group without a key has no members.
LEMMA AbsentEmptyStep ==
  ASSUME TInv, GhostInv, NEW t \in Task, Step(t)
  PROVE  AbsentEmpty'
<1> USE DEF TInv, TypeOK, Targets, AbsentEmpty, GhostInv, conns, index
<1>1. CASE JoinMembers(t)
  BY <1>1 DEF JoinMembers
<1>2. CASE Prune(t)
  BY <1>2 DEF Prune
<1>3. CASE ~JoinMembers(t) /\ ~Prune(t)
  <2>1. groupKeys' = groupKeys
    BY <1>3 DEF Step, JoinGroups, LeaveMembers, LeaveGroups, TakeGroups,
       CheckEmpty, CleanupDone, Unlist, EndGather, EndScan, EndLookup,
       Deliver, Evict, EndFanOut, Detach, SkipGroup, Gather, Pass,
       Collect, Copy, Lookup
  <2> QED
    BY <1>3, <2>1, MembersShrink
<1> QED
  BY <1>1, <1>2, <1>3

\* remove_from_group finds its connection still absent at its second step.
LEMMA LeftAlreadyStep ==
  ASSUME TInv, SerialInv, GhostInv, NEW t \in Task, Step(t)
  PROVE  LeftAlready'
<1> SUFFICES ASSUME NEW u \in Task, pc'[u] = "leave_groups"
             PROVE  who'[u] \notin groupMembers'[room'[u]]
  BY DEF LeftAlready
<1>1. Others(t)
  BY OthersKeep
<1>2. CASE u = t
  <2>1. LeaveMembers(t)
    BY <1>2 DEF Step, TInv, TypeOK, Goto, Finish, locals, JoinMembers,
       JoinGroups, LeaveGroups, TakeGroups, CheckEmpty, Prune,
       CleanupDone, Unlist, EndGather, EndScan, EndLookup, Deliver,
       Evict, EndFanOut, Detach, SkipGroup, Gather, Pass, Collect, Copy,
       Lookup
  <2> QED
    BY <1>2, <2>1 DEF LeaveMembers, TInv, TypeOK, Targets
<1>3. CASE u # t
  <2>1. /\ pc[u] = "leave_groups" /\ who'[u] = who[u] /\ room'[u] = room[u]
        /\ who[u] \in Conn /\ room[u] \in Group
        /\ who[u] \notin groupMembers[room[u]]
    BY <1>1, <1>3 DEF Others, TInv, Targets, GhostInv, LeftAlready
  <2>2. CASE JoinMembers(t)
    <3>1. who[t] \in Conn /\ Operating(u, who[u]) /\ Operating(t, who[t])
      BY <2>1, <2>2 DEF JoinMembers, TInv, Targets, CallSteps, Operating,
         GroupCalls
    <3>2. who[t] # who[u]
      BY <1>3, <2>1, <3>1 DEF SerialInv, OneOperator
    <3> QED
      BY <2>1, <2>2, <3>2 DEF JoinMembers, TInv, TypeOK, Targets
  <2>3. CASE ~JoinMembers(t)
    BY <2>1, <2>3, MembersShrink
  <2> QED
    BY <2>2, <2>3
<1> QED
  BY <1>2, <1>3

\* Whoever is listed by a group stays accounted for.
LEMMA AccountedStep ==
  ASSUME TInv, SerialInv, GhostInv, NEW t \in Task, Step(t)
  PROVE  Accounted'
<1> SUFFICES ASSUME NEW c \in Conn, NEW g \in Group, c \in groupMembers'[g]
             PROVE  \/ g \in connGroups'[c]
                    \/ \E u \in Task : Joining(u, c, g)' \/ WillDetach(u, c, g)'
  BY DEF Accounted, Joining, WillDetach
<1>1. Others(t)
  BY OthersKeep
<1>2. CASE c \notin groupMembers[g]
  <2>1. JoinMembers(t)
    BY <1>2, MembersShrink
  <2>2. Joining(t, c, g)'
    BY <1>2, <2>1 DEF JoinMembers, Joining, Goto, TInv, TypeOK, Targets
  <2> QED
    BY <2>2
<1>3. CASE g \in connGroups[c] /\ c \in groupMembers[g]
  <2>1. CASE TakeGroups(t)
    BY <1>3, <2>1 DEF TakeGroups, WillDetach, Goto, TInv, TypeOK, Targets,
       CleanupSteps
  <2>2. CASE LeaveGroups(t)
    BY <1>3, <2>2 DEF LeaveGroups, GhostInv, LeftAlready, TInv, TypeOK, Targets
  <2>3. CASE JoinGroups(t)
    BY <1>3, <2>3 DEF JoinGroups, TInv, TypeOK, Targets
  <2>4. CASE UNCHANGED connGroups
    BY <1>3, <2>4
  <2> QED
    BY <2>1, <2>2, <2>3, <2>4 DEF Step, index, JoinMembers,
       LeaveMembers, CheckEmpty, Prune, CleanupDone, Unlist, EndGather,
       EndScan, EndLookup, Deliver, Evict, EndFanOut, Detach, SkipGroup,
       Gather, Pass, Collect, Copy, Lookup
<1>4. ASSUME NEW u \in Task, Joining(u, c, g) \/ WillDetach(u, c, g), u # t
      PROVE  Joining(u, c, g)' \/ WillDetach(u, c, g)'
  BY <1>1, <1>4 DEF Others, Joining, WillDetach
<1>5. CASE Joining(t, c, g)
  <2>1. JoinGroups(t)
    BY <1>5 DEF Step, Joining, JoinMembers, LeaveMembers, LeaveGroups,
       TakeGroups, CheckEmpty, Prune, CleanupDone, Unlist, EndGather,
       EndScan, EndLookup, Deliver, Evict, EndFanOut, Detach, SkipGroup,
       Gather, Pass, Collect, Copy, Lookup
  <2> QED
    BY <1>5, <2>1 DEF JoinGroups, Joining, TInv, TypeOK
<1>6. CASE WillDetach(t, c, g) /\ c \in groupMembers[g]
  <2> USE DEF WillDetach, TInv, TypeOK, Goto
  <2>1. CASE \E h \in Group : Detach(t, h)
    BY <1>6, <2>1 DEF Detach
  <2>2. CASE \E h \in Group : SkipGroup(t, h)
    BY <1>6, <2>2 DEF SkipGroup, GhostInv, AbsentEmpty
  <2>3. CASE CheckEmpty(t)
    BY <1>6, <2>3 DEF CheckEmpty
  <2>4. CASE Prune(t)
    BY <1>6, <2>4 DEF Prune
  <2>5. CASE CleanupDone(t)
    BY <1>6, <2>5 DEF CleanupDone
  <2> QED
    BY <1>6, <2>1, <2>2, <2>3, <2>4, <2>5 DEF Step, JoinMembers,
       JoinGroups, LeaveMembers, LeaveGroups, TakeGroups, Unlist,
       EndGather, EndScan, EndLookup, Deliver, Evict, EndFanOut, Gather,
       Pass, Collect, Copy, Lookup
<1> QED
  BY <1>2, <1>3, <1>4, <1>5, <1>6 DEF GhostInv, Accounted

LEMMA GhostStep ==
  ASSUME TInv, SerialInv, GhostInv, NEW t \in Task, Step(t)
  PROVE  GhostInv'
  BY TakenStep, AbsentEmptyStep, LeftAlreadyStep, AccountedStep DEF GhostInv

LEMMA GhostInductive ==
  ASSUME Serial, TInv, SerialInv, GhostInv, [Next]_vars
  PROVE  SerialInv' /\ GhostInv'
<1> USE DEF SerialInv, OneOperator, OperatesOpen, RemoverClosing, OneRemover,
            Operating, GhostInv, Taken, AbsentEmpty, LeftAlready, Accounted,
            Joining, WillDetach
<1>1. CASE \E c \in Conn : Add(c)
  BY <1>1 DEF Add, TInv, TypeOK, index, locals, fan
<1>2. CASE \E t \in Task : Call(t)
  BY <1>2, SerialCall, GhostCall
<1>3. CASE \E t \in Task : Step(t)
  BY <1>3, SerialStep, GhostStep
<1>4. CASE UNCHANGED vars
  BY <1>4 DEF vars
<1> QED
  BY <1>1, <1>2, <1>3, <1>4 DEF Next

LEMMA GhostInit == Init => SerialInv /\ GhostInv
  BY ConstantsAssumption
  DEF Init, SerialInv, OneOperator, OperatesOpen, RemoverClosing, OneRemover,
      Operating, GhostInv, Taken, AbsentEmpty, LeftAlready, Accounted, Joining,
      WillDetach, GroupCalls

LEMMA GhostInvNoGhosts == TInv /\ SerialInv /\ GhostInv => GoneLeavesGroups
  BY DEF GoneLeavesGroups, TInv, CallSteps, SerialInv, OperatesOpen, Operating,
     GroupCalls, GhostInv, Accounted, Taken, Joining, WillDetach, Cleaning

\* A hub that issues its group calls one at a time, and none after teardown
\* has begun, leaves no ghost members, whatever the policy evicts meanwhile.
THEOREM NoGhostsHolds == Spec => []NoGhosts
<1>1. Serial => (Init => SerialInv /\ GhostInv)
  BY GhostInit
<1>2. Serial /\ TInv /\ SerialInv /\ GhostInv /\ [Next]_vars
        => SerialInv' /\ GhostInv'
  BY GhostInductive
<1>3. CASE Serial
  BY <1>1, <1>2, <1>3, GhostInvNoGhosts, TypeInvariant, PTL DEF Spec, NoGhosts
<1>4. CASE ~Serial
  BY <1>4, PTL DEF NoGhosts
<1> QED
  BY <1>3, <1>4

-----------------------------------------------------------------------------
(* RecipientsDistinct                                                      *)

Items(s) == {s[i] : i \in DOMAIN s}
Distinct(s) == \A i, j \in DOMAIN s : s[i] = s[j] => i = j

\* Appending a new id to a list of distinct ones.
LEMMA AppendItems ==
  ASSUME NEW s \in Seq(Conn), NEW c \in Conn
  PROVE  /\ Items(Append(s, c)) = Items(s) \cup {c}
         /\ Distinct(s) /\ c \notin Items(s) => Distinct(Append(s, c))
<1> DEFINE r == Append(s, c)
<1>1. /\ DOMAIN s = 1 .. Len(s) /\ DOMAIN r = 1 .. Len(s) + 1
      /\ Len(s) \in Nat
      /\ \A i \in DOMAIN s : r[i] = s[i]
      /\ r[Len(s) + 1] = c
  OBVIOUS
<1> HIDE DEF r
<1>2. \A i \in DOMAIN r : i \in DOMAIN s \/ i = Len(s) + 1
  BY <1>1
<1>3. Items(r) = Items(s) \cup {c}
  <2>1. Items(r) \subseteq Items(s) \cup {c}
    BY <1>1, <1>2 DEF Items
  <2>2. Items(s) \cup {c} \subseteq Items(r)
    BY <1>1 DEF Items
  <2> QED
    BY <2>1, <2>2
<1>4. Distinct(s) /\ c \notin Items(s) => Distinct(r)
  BY <1>1, <1>2 DEF Items, Distinct
<1> QED
  BY <1>3, <1>4 DEF r

\* Consumed and RecipientsDistinct, for one task.
ConsumedBy(t) ==
  /\ call[t] \notin FanOuts => rcpt[t] = <<>>
  /\ call[t] = "broadcast_groups" => Items(rcpt[t]) \subseteq seen[t]
  /\ (call[t] # "broadcast_groups" /\ pc[t] = "scan")
       => Items(rcpt[t]) \cap left[t] = {}
  /\ Distinct(rcpt[t])

LEMMA DistinctByTask == DistinctInv <=> \A t \in Task : ConsumedBy(t)
  BY DEF DistinctInv, Consumed, RecipientsDistinct, ConsumedBy, Recipients,
     Items, Distinct

\* Another task's lists do not change; its own grow by new ids only.
LEMMA DistinctTaskStep ==
  ASSUME TInv, NEW t \in Task, ConsumedBy(t), Call(t) \/ Step(t)
  PROVE  ConsumedBy(t)'
<1> USE ConstantsAssumption
    DEF TInv, TypeOK, CallSteps, CleanupSteps, FanOuts, GroupCalls, ConsumedBy,
        Begin, Goto, Finish, conns, index, locals, fan
<1>1. CASE Call(t)
  <2>1. pc[t] = "idle" /\ rcpt[t] = <<>> /\ rcpt' = rcpt
    BY <1>1 DEF Call, CallRemove, CallAddToGroup, CallRemoveFromGroup,
       CallGroupOp, CallBroadcastGroup, CallBroadcastExcept,
       CallBroadcastGroups
  <2> QED
    BY <2>1 DEF Items, Distinct
<1>2. CASE \E c \in Conn : Collect(t, c)
  <2>1. PICK c \in Conn : Collect(t, c)
    BY <1>2
  <2>2. /\ call'[t] = call[t] /\ pc'[t] = pc[t]
        /\ call[t] # "broadcast_groups" /\ call[t] \in FanOuts
        /\ rcpt'[t] = Append(rcpt[t], c) /\ left'[t] = left[t] \ {c}
        /\ c \notin Items(rcpt[t]) /\ Items(rcpt[t]) \cap left[t] = {}
    BY <2>1 DEF Collect
  <2> QED
    BY <2>2, AppendItems
<1>3. CASE \E c \in Conn : Lookup(t, c)
  <2>1. PICK c \in Conn : Lookup(t, c)
    BY <1>3
  <2>2. /\ call'[t] = call[t] /\ call[t] = "broadcast_groups"
        /\ seen'[t] = seen[t] \cup {c}
    BY <2>1 DEF Lookup
  <2>3. CASE rcpt'[t] = rcpt[t]
    BY <2>2, <2>3
  <2>4. CASE rcpt'[t] = Append(rcpt[t], c) /\ c \notin seen[t]
    BY <2>2, <2>4, AppendItems
  <2> QED
    BY <2>1, <2>3, <2>4 DEF Lookup
<1>4. CASE EndFanOut(t)
  BY <1>4 DEF EndFanOut, Items, Distinct
<1>5. CASE \E c \in Conn : Pass(t, c)
  BY <1>5 DEF Pass
<1>6. CASE \E g \in Group : Gather(t, g)
  BY <1>6 DEF Gather
<1>7. CASE /\ rcpt'[t] = rcpt[t] /\ seen'[t] = seen[t]
           /\ call'[t] \in FanOuts => call'[t] = call[t]
           /\ call[t] \in FanOuts => call'[t] = call[t]
           /\ pc'[t] = "scan" => call[t] = "broadcast_groups"
  BY <1>7
<1> QED
  BY <1>1, <1>2, <1>3, <1>4, <1>5, <1>6, <1>7 DEF Step, JoinMembers,
     JoinGroups, LeaveMembers, LeaveGroups, TakeGroups, CheckEmpty, Prune,
     CleanupDone, Unlist, EndGather, EndScan, EndLookup, Deliver, Evict,
     Detach, SkipGroup, Copy

LEMMA DistinctInductive == TInv /\ DistinctInv /\ [Next]_vars => DistinctInv'
<1> SUFFICES ASSUME TInv, DistinctInv, [Next]_vars, NEW u \in Task
             PROVE  ConsumedBy(u)'
  BY DEF DistinctInv, Consumed, RecipientsDistinct, ConsumedBy, Recipients,
     Items, Distinct
<1>1. ConsumedBy(u)
  BY DistinctByTask
<1>2. CASE \E c \in Conn : Add(c)
  BY <1>1, <1>2 DEF Add, ConsumedBy, index, locals, fan
<1>3. CASE UNCHANGED vars
  BY <1>1, <1>3 DEF vars, ConsumedBy
<1>4. ASSUME NEW t \in Task, Call(t) \/ Step(t) PROVE ConsumedBy(u)'
  <2>1. CASE u = t
    BY <1>1, <1>4, <2>1, DistinctTaskStep
  <2>2. CASE u # t
    BY <1>1, <1>4, <2>2, OthersKeep DEF Others, ConsumedBy
  <2> QED
    BY <2>1, <2>2
<1> QED
  BY <1>2, <1>3, <1>4 DEF Next

\* No fan-out sends to one connection twice.
THEOREM RecipientsDistinctHolds == Spec => []RecipientsDistinct
<1>1. Init => DistinctInv
  BY DEF Init, DistinctInv, Consumed, RecipientsDistinct, Recipients
<1>2. DistinctInv => RecipientsDistinct
  BY DEF DistinctInv
<1> QED
  BY <1>1, <1>2, TypeInvariant, DistinctInductive, PTL DEF Spec

-----------------------------------------------------------------------------
(* NoMemberSkipped                                                         *)

\* No step makes a connection fresh, or registers one.
LEMMA NoNewConnection ==
  ASSUME TInv, NEW t \in Task, Call(t) \/ Step(t)
  PROVE  /\ \A c \in Conn : status'[c] = "fresh" => status[c] = "fresh"
         /\ registered' \subseteq registered
<1>1. CASE Call(t)
  BY <1>1, CallFrame
<1>2. CASE Step(t)
  BY <1>2 DEF TInv, TypeOK, Step, conns, JoinMembers, JoinGroups,
     LeaveMembers, LeaveGroups, TakeGroups, CheckEmpty, Prune,
     CleanupDone, Unlist, EndGather, EndScan, EndLookup, Deliver, Evict,
     EndFanOut, Detach, SkipGroup, Gather, Pass, Collect, Copy, Lookup
<1> QED
  BY <1>1, <1>2

LEMMA FreshStep ==
  ASSUME TInv, FreshOutside, NEW t \in Task, Call(t) \/ Step(t)
  PROVE  FreshOutside'
<1>1. ASSUME NEW c \in Conn, NEW g \in Group, c \in groupMembers'[g]
      PROVE  status'[c] # "fresh"
  <2>1. CASE c \in groupMembers[g]
    BY <2>1, NoNewConnection DEF FreshOutside
  <2>2. CASE c \notin groupMembers[g]
    <3>1. Step(t) /\ JoinMembers(t)
      BY <1>1, <2>2, CallFrame, MembersShrink
    <3>2. c = who[t]
      BY <1>1, <2>2, <3>1 DEF JoinMembers, TInv, TypeOK, Targets
    <3> QED
      BY <3>1, <3>2, NoNewConnection DEF JoinMembers, FreshOutside
  <2> QED
    BY <2>1, <2>2
<1>2. ASSUME NEW u \in Task, pc'[u] = "join_members"
      PROVE  status'[who'[u]] # "fresh"
  <2>1. CASE u # t
    BY <1>2, <2>1, OthersKeep, NoNewConnection
    DEF Others, FreshOutside, TInv, Targets
  <2>2. CASE u = t /\ Call(t)
    <3>1. PICK c \in Conn, g \in Group : CallAddToGroup(t, c, g)
      BY <1>2, <2>2
      DEF Call, CallRemove, CallRemoveFromGroup, CallGroupOp, Goto, TInv,
          TypeOK, CallBroadcastGroup, CallBroadcastExcept, CallBroadcastGroups
    <3> QED
      BY <2>2, <3>1 DEF CallAddToGroup, CallGroupOp, MayOperate, TInv, TypeOK,
         conns
  <2>3. CASE u = t /\ Step(t)
    BY <1>2, <2>3 DEF Step, Goto, Finish, TInv, TypeOK, locals,
       JoinMembers, JoinGroups, LeaveMembers, LeaveGroups, TakeGroups,
       CheckEmpty, Prune, CleanupDone, Unlist, EndGather, EndScan,
       EndLookup, Deliver, Evict, EndFanOut, Detach, SkipGroup, Gather,
       Pass, Collect, Copy, Lookup
  <2> QED
    BY <2>1, <2>2, <2>3
<1> QED
  BY <1>1, <1>2 DEF FreshOutside

\* GuardHeld, for one task.
GuardHeldBy(t) ==
  guard[t] # NoGroup =>
    \/ pc[t] = "scan" /\ call[t] \in {"broadcast_group", "broadcast_groups"}
    \/ /\ call[t] = "broadcast_group"
       /\ pc[t] \in {"send", "take", "clean", "check", "prune"}
       /\ left[t] = {}

LEMMA GuardTaskStep ==
  ASSUME TInv, NEW t \in Task, GuardHeldBy(t), Call(t) \/ Step(t)
  PROVE  GuardHeldBy(t)'
<1> USE ConstantsAssumption
    DEF TInv, TypeOK, CallSteps, CleanupSteps, FanOuts, GuardHeldBy, Begin,
        Goto, Finish, conns, index, locals, fan
<1>1. CASE Call(t)
  BY <1>1 DEF Call, CallRemove, CallAddToGroup, CallRemoveFromGroup,
     CallGroupOp, CallBroadcastGroup, CallBroadcastExcept,
     CallBroadcastGroups
<1>2. CASE \/ JoinMembers(t) \/ JoinGroups(t) \/ LeaveMembers(t) \/ LeaveGroups(t)
           \/ Unlist(t) \/ EndLookup(t) \/ EndGather(t) \/ EndFanOut(t)
           \/ \E c \in Conn : Lookup(t, c)
  BY <1>2 DEF JoinMembers, JoinGroups, LeaveMembers, LeaveGroups, Unlist,
     EndLookup, EndGather, EndFanOut, Lookup
<1>3. CASE TakeGroups(t) \/ CheckEmpty(t) \/ Prune(t) \/ Deliver(t) \/ Evict(t)
  BY <1>3 DEF TakeGroups, CheckEmpty, Prune, Deliver, Evict
<1>4. CASE CleanupDone(t)
  BY <1>4 DEF CleanupDone
<1>5. CASE EndScan(t)
  BY <1>5 DEF EndScan
<1>6. CASE \E g \in Group : Detach(t, g) \/ SkipGroup(t, g) \/ Gather(t, g)
  BY <1>6 DEF Detach, SkipGroup, Gather
<1>7. CASE \E c \in Conn : Pass(t, c) \/ Collect(t, c) \/ Copy(t, c)
  BY <1>7 DEF Pass, Collect, Copy
<1> QED
  BY <1>1, <1>2, <1>3, <1>4, <1>5, <1>6, <1>7 DEF Step

LEMMA GuardHeldStep ==
  ASSUME TInv, GuardHeld, NEW t \in Task, Call(t) \/ Step(t)
  PROVE  GuardHeld'
<1> SUFFICES ASSUME NEW u \in Task PROVE GuardHeldBy(u)'
  BY DEF GuardHeld, GuardHeldBy
<1>1. GuardHeldBy(u)
  BY DEF GuardHeld, GuardHeldBy
<1>2. CASE u = t
  BY <1>1, <1>2, GuardTaskStep
<1>3. CASE u # t
  BY <1>1, <1>3, OthersKeep DEF Others, GuardHeldBy
<1> QED
  BY <1>2, <1>3

\* While a Ref is held, its group does not grow.
LEMMA GuardedShrink ==
  ASSUME TInv, NEW t \in Task, Call(t) \/ Step(t),
         NEW u \in Task, guard[u] # NoGroup
  PROVE  groupMembers'[guard[u]] \subseteq groupMembers[guard[u]]
<1>1. guard[u] \in Group
  BY DEF TInv, TypeOK
<1>2. CASE Call(t)
  BY <1>2, CallFrame
<1>3. CASE Step(t) /\ ~JoinMembers(t)
  BY <1>1, <1>3, MembersShrink
<1>4. CASE JoinMembers(t)
  <2>1. room[t] # guard[u]
    BY <1>1, <1>4 DEF JoinMembers, Exclusive, Holds, TInv, TypeOK
  <2> QED
    BY <1>1, <1>4, <2>1 DEF JoinMembers, TInv, TypeOK, Targets
<1> QED
  BY <1>2, <1>3, <1>4

\* Scanned, for one task.
ScannedBy(t) ==
  (guard[t] # NoGroup /\ call[t] = "broadcast_group") =>
    (groupMembers[guard[t]] \cap registered) \ excluded[t]
      \subseteq Items(rcpt[t]) \cup left[t]

\* The scan itself: what it passes over is not a member, is excluded, or is
\* no longer registered.
LEMMA ScannedTaskStep ==
  ASSUME TInv, GuardHeld, NEW t \in Task, ScannedBy(t), Call(t) \/ Step(t)
  PROVE  ScannedBy(t)'
<1> SUFFICES ASSUME guard'[t] # NoGroup, call'[t] = "broadcast_group"
             PROVE  (groupMembers'[guard'[t]] \cap registered') \ excluded'[t]
                      \subseteq Items(rcpt'[t]) \cup left'[t]
  BY DEF ScannedBy, Items
<1> USE DEF TInv, TypeOK
<1>1. CASE left'[t] = Conn
  BY <1>1, NoNewConnection
<1>2. CASE \E c \in Conn : Pass(t, c)
  BY <1>2 DEF Pass, Selected, ScannedBy, conns, index, locals
<1>3. CASE \E c \in Conn : Collect(t, c)
  <2>1. PICK c \in Conn : Collect(t, c)
    BY <1>3
  <2>2. Items(rcpt'[t]) = Items(rcpt[t]) \cup {c} /\ left'[t] = left[t] \ {c}
    BY <2>1, AppendItems DEF Collect
  <2> QED
    BY <2>1, <2>2 DEF Collect, ScannedBy, conns, index, locals
<1>4. CASE /\ guard'[t] = guard[t] /\ call'[t] = call[t]
           /\ excluded'[t] = excluded[t] /\ rcpt'[t] = rcpt[t]
           /\ left'[t] = left[t]
  BY <1>4, NoNewConnection, GuardedShrink DEF ScannedBy
<1>5. CASE Call(t)
  <2>1. guard[t] = NoGroup
    BY <1>5, CallFrame DEF GuardHeld
  <2>2. \E g \in Group, ex \in SUBSET Conn : CallBroadcastGroup(t, g, ex)
    BY <1>5, <2>1
    DEF Call, CallRemove, CallAddToGroup, CallRemoveFromGroup, CallGroupOp,
        CallBroadcastExcept, CallBroadcastGroups, fan
  <2> QED
    BY <1>1, <2>2 DEF CallBroadcastGroup
<1> QED
  BY <1>2, <1>3, <1>4, <1>5 DEF Step, CallSteps, Finish, locals, fan,
     JoinMembers, JoinGroups, LeaveMembers, LeaveGroups, TakeGroups,
     CheckEmpty, Prune, CleanupDone, Unlist, EndGather, EndScan,
     EndLookup, Deliver, Evict, EndFanOut, Detach, SkipGroup, Gather,
     Copy, Lookup

LEMMA ScannedStep ==
  ASSUME TInv, GuardHeld, Scanned, NEW t \in Task, Call(t) \/ Step(t)
  PROVE  Scanned'
<1> SUFFICES ASSUME NEW u \in Task PROVE ScannedBy(u)'
  BY DEF Scanned, ScannedBy, Recipients, Items
<1>1. ScannedBy(u)
  BY DEF Scanned, ScannedBy, Recipients, Items
<1>2. CASE u = t
  BY <1>1, <1>2, ScannedTaskStep
<1>3. CASE u # t
  <2>1. /\ call'[u] = call[u] /\ guard'[u] = guard[u] /\ left'[u] = left[u]
        /\ excluded'[u] = excluded[u] /\ rcpt'[u] = rcpt[u]
    BY <1>3, OthersKeep DEF Others
  <2> QED
    BY <1>1, <2>1, NoNewConnection, GuardedShrink DEF ScannedBy
<1> QED
  BY <1>2, <1>3

LEMMA GuardInductive == TInv /\ GuardInv /\ [Next]_vars => GuardInv'
<1> SUFFICES ASSUME TInv, GuardInv, [Next]_vars PROVE GuardInv'
  OBVIOUS
<1> USE DEF GuardInv
<1>1. CASE \E c \in Conn : Add(c)
  <2> USE <1>1 DEF Add, TInv, TypeOK, index, locals, fan
  <2>1. FreshOutside'
    BY DEF FreshOutside, Targets
  <2>2. GuardHeld'
    BY DEF GuardHeld
  <2>3. Scanned'
    BY DEF Scanned, Recipients, FreshOutside
  <2> QED
    BY <2>1, <2>2, <2>3
<1>2. ASSUME NEW t \in Task, Call(t) \/ Step(t) PROVE GuardInv'
  BY <1>2, FreshStep, GuardHeldStep, ScannedStep
<1>3. CASE UNCHANGED vars
  BY <1>3 DEF vars, FreshOutside, GuardHeld, Scanned, Recipients
<1> QED
  BY <1>1, <1>2, <1>3 DEF Next

\* A fan-out to one group reaches every member that is still registered: the
\* Ref that it holds keeps joiners out until the last send has returned.
THEOREM NoMemberSkippedHolds == Spec => []NoMemberSkipped
<1>1. Init => GuardInv
  BY ConstantsAssumption DEF Init, GuardInv, FreshOutside, GuardHeld, Scanned
<1>2. GuardInv => NoMemberSkipped
  BY DEF GuardInv, GuardHeld, Scanned, NoMemberSkipped
<1> QED
  BY <1>1, <1>2, TypeInvariant, GuardInductive, PTL DEF Spec

-----------------------------------------------------------------------------
(* NoLockCycle                                                             *)

Busy == {t \in Task : ~Suspended(t)}
Waiters == {t \in Task : Waiting(t)}

\* If every busy task waits, they are few enough to leave a thread free.
LEMMA ThreadFree ==
  ASSUME Busy \subseteq Waiters, Cardinality(Waiters) < Workers,
         NEW t \in Task
  PROVE  Polled(t)
<1>1. IsFiniteSet(Waiters)
  BY ConstantsAssumption, FS_Subset DEF Waiters
<1>2. Cardinality(Busy) <= Cardinality(Waiters) /\ IsFiniteSet(Busy)
  BY <1>1, FS_Subset
<1>3. Cardinality(Busy) \in Nat /\ Cardinality(Waiters) \in Nat
  BY <1>1, <1>2, FS_CardinalityType
<1>4. Cardinality(Busy) < Workers
  BY <1>2, <1>3, ConstantsAssumption
<1> QED
  BY <1>4 DEF Polled, Busy

\* Who holds a Ref scans, checks, or is a broadcast_group in or between two of
\* its sends.
LEMMA HolderSteps ==
  ASSUME TInv, GuardHeld, NEW t \in Task, NEW g \in Group, Holds(t, g)
  PROVE  \/ pc[t] \in {"scan", "check", "send"}
         \/ call[t] = "broadcast_group" /\ pc[t] \in {"take", "clean", "prune"}
<1>1. CASE guard[t] = g
  <2>1. guard[t] # NoGroup
    BY <1>1, ConstantsAssumption
  <2> QED
    BY <2>1 DEF GuardHeld
<1>2. CASE pc[t] = "check"
  BY <1>2
<1> QED
  BY <1>1, <1>2 DEF Holds

\* A cleanup inside a fan-out is the work of an eviction.
EvictorsClean ==
  \A t \in Task :
    call[t] \in FanOuts /\ pc[t] \in CleanupSteps => Evicts

LEMMA EvictorsCleanStep ==
  ASSUME TInv, EvictorsClean, NEW t \in Task, Call(t) \/ Step(t)
  PROVE  EvictorsClean'
<1> SUFFICES ASSUME NEW u \in Task, call'[u] \in FanOuts,
                    pc'[u] \in CleanupSteps
             PROVE  Evicts
  BY DEF EvictorsClean
<1>1. CASE u # t
  BY <1>1, OthersKeep DEF Others, EvictorsClean
<1>2. CASE u = t /\ Call(t)
  BY <1>2 DEF TInv, TypeOK, CleanupSteps, FanOuts, Goto, Begin, Call,
     CallRemove, CallAddToGroup, CallRemoveFromGroup, CallGroupOp,
     CallBroadcastGroup, CallBroadcastExcept, CallBroadcastGroups
<1>3. CASE u = t /\ Step(t)
  <2>1. CASE Evict(t)
    BY <2>1 DEF Evict
  <2>2. CASE pc[t] \in CleanupSteps /\ call'[t] = call[t]
    BY <1>3, <2>2 DEF EvictorsClean
  <2> QED
    BY <1>3, <2>1, <2>2 DEF TInv, TypeOK, CleanupSteps, FanOuts, Step, Goto,
       Finish, locals, JoinMembers, JoinGroups, LeaveMembers, LeaveGroups,
       TakeGroups, CheckEmpty, Prune, CleanupDone, Unlist, EndGather, EndScan,
       EndLookup, Deliver, EndFanOut, Detach, SkipGroup, Gather, Pass,
       Collect, Copy, Lookup
<1> QED
  BY <1>1, <1>2, <1>3

LEMMA EvictorsCleanInductive ==
  TInv /\ EvictorsClean /\ [Next]_vars => EvictorsClean'
<1> SUFFICES ASSUME TInv, EvictorsClean, [Next]_vars PROVE EvictorsClean'
  OBVIOUS
<1>1. CASE \E c \in Conn : Add(c)
  BY <1>1 DEF Add, EvictorsClean, locals
<1>2. ASSUME NEW t \in Task, Call(t) \/ Step(t) PROVE EvictorsClean'
  BY <1>2, EvictorsCleanStep
<1>3. CASE UNCHANGED vars
  BY <1>3 DEF vars, EvictorsClean
<1> QED
  BY <1>1, <1>2, <1>3 DEF Next

LEMMA NoLockCycleFollows ==
  ASSUME TInv, GuardHeld, EvictorsClean
  PROVE  NoLockCycle
<1> SUFFICES ASSUME NEW t \in Task, pc[t] # "idle",
                    Cardinality(Waiters) < Workers,
                    \A u \in Task : pc[u] # "idle" =>
                                      Waiting(u) \/ ~Polled(u)
             PROVE  Evicts /\ \E u \in Task :
                                call[u] = "broadcast_group" /\ Waiting(u)
  BY DEF NoLockCycle, Waiters
<1>1. ASSUME NEW u \in Task PROVE Polled(u)
  <2>1. CASE Suspended(u)
    <3>1. \A v \in Busy : Polled(v) /\ pc[v] # "idle"
      BY DEF Busy, Polled, Suspended
    <3>2. Busy \subseteq Waiters
      BY <3>1 DEF Busy, Waiters
    <3> QED
      BY <3>2, ThreadFree
  <2>2. CASE ~Suspended(u)
    BY <2>2 DEF Polled
  <2> QED
    BY <2>1, <2>2
<1>2. \A u \in Task : pc[u] # "idle" => Waiting(u)
  BY <1>1
<1>3. PICK u \in Task, h \in Group : Holds(u, h)
  BY <1>2 DEF Waiting, Exclusive
<1>4. call[u] = "broadcast_group" /\ pc[u] \in {"take", "clean", "prune"}
  <2>1. pc[u] = "idle" \/ pc[u] \in {"join_members", "prune"}
    BY <1>2 DEF Waiting
  <2> QED
    BY <1>3, <2>1, HolderSteps DEF Waiting
<1>5. Waiting(u)
  BY <1>2, <1>4
<1>6. Evicts
  BY <1>4 DEF EvictorsClean, FanOuts, CleanupSteps
<1> QED
  BY <1>4, <1>5, <1>6

LEMMA LockInvariant == Spec => [](TInv /\ GuardInv /\ EvictorsClean)
<1>1. Init => GuardInv
  BY ConstantsAssumption DEF Init, GuardInv, FreshOutside, GuardHeld, Scanned
<1>2. Init => EvictorsClean
  BY DEF Init, EvictorsClean, FanOuts
<1> QED
  BY <1>1, <1>2, TypeInvariant, GuardInductive, EvictorsCleanInductive, PTL
  DEF Spec

\* While a thread is left, calls under way never wait for one another in a
\* cycle, whatever they are and however they interleave: except around a
\* broadcast_group that evicts, which may wait for a Ref of its own.
THEOREM NoLockCycleHolds == Spec => []NoLockCycle
<1>1. TInv /\ GuardInv /\ EvictorsClean => NoLockCycle
  BY NoLockCycleFollows DEF GuardInv
<1> QED
  BY <1>1, LockInvariant, PTL

\* Some call under way can go on.
SomebodyRuns ==
  (/\ \E t \in Task : pc[t] # "idle"
   /\ Cardinality({t \in Task : Waiting(t)}) < Workers)
  => \E t \in Task : pc[t] # "idle" /\ ~Waiting(t) /\ Polled(t)

\* The exception gone: under Block and DropMessage, or where a hub sends to
\* groups through broadcast_groups only, the registry does not deadlock.
THEOREM SomebodyRunsHolds ==
  ~(Evicts /\ "broadcast_group" \in Calls) => (Spec => []SomebodyRuns)
<1>1. ASSUME ~(Evicts /\ "broadcast_group" \in Calls), TInv, NoLockCycle
      PROVE  SomebodyRuns
  <2>1. \A t \in Task : call[t] = "broadcast_group" =>
                          "broadcast_group" \in Calls
    BY <1>1 DEF TInv, TypeOK
  <2> QED
    BY <1>1, <2>1 DEF NoLockCycle, SomebodyRuns
<1>2. CASE ~(Evicts /\ "broadcast_group" \in Calls)
  <2>1. TInv /\ NoLockCycle => SomebodyRuns
    BY <1>1, <1>2
  <2> QED
    BY <2>1, NoLockCycleHolds, TypeInvariant, PTL
<1> QED
  BY <1>2

-----------------------------------------------------------------------------
(* CallAdvances                                                            *)

Untouched(t) ==
  UNCHANGED <<call[t], pc[t], who[t], room[t], todo[t], guard[t],
              left[t], fetched[t], rcpt[t], next[t]>>

Advances(t) ==
  \/ pc'[t] = "idle"
  \/ Collects(t) /\ ~Collects(t)'
  \/ Collects(t) /\ Collects(t)' /\ CollectsOn(t)
  \/ ~Collects(t) /\ ~Collects(t)' /\ rcpt'[t] = rcpt[t] /\ SendsOn(t)

\* add_to_group, remove_from_group and the cleanup of remove and of evictions.
LEMMA IndexAdvances ==
  ASSUME TInv, NEW t \in Task,
         \/ JoinMembers(t) \/ JoinGroups(t) \/ LeaveMembers(t) \/ LeaveGroups(t)
         \/ TakeGroups(t) \/ CheckEmpty(t) \/ Prune(t) \/ CleanupDone(t)
         \/ Unlist(t) \/ \E g \in Group : Detach(t, g)
  PROVE  Advances(t)
<1> USE DEF TInv, TypeOK, Goto, Advances, Collects, SendsOn, StepRank, fan
<1>1. CASE JoinGroups(t) \/ LeaveGroups(t) \/ Unlist(t)
  BY <1>1 DEF JoinGroups, LeaveGroups, Unlist, Finish
<1>2. CASE JoinMembers(t) \/ LeaveMembers(t)
  BY <1>2 DEF JoinMembers, LeaveMembers
<1>3. CASE TakeGroups(t)
  BY <1>3 DEF TakeGroups
<1>4. CASE CheckEmpty(t) \/ Prune(t)
  BY <1>4 DEF CheckEmpty, Prune
<1>5. CASE CleanupDone(t)
  BY <1>5 DEF CleanupDone
<1>6. CASE \E g \in Group : Detach(t, g)
  BY <1>6 DEF Detach, Shrinks
<1> QED
  BY <1>1, <1>2, <1>3, <1>4, <1>5, <1>6

LEMMA CollectionAdvances ==
  ASSUME TInv, NEW t \in Task,
         \/ \E g \in Group : Gather(t, g) \/ SkipGroup(t, g)
         \/ \E c \in Conn : Pass(t, c) \/ Collect(t, c) \/ Copy(t, c) \/ Lookup(t, c)
         \/ EndGather(t) \/ EndScan(t) \/ EndLookup(t)
  PROVE  Advances(t)
<1> USE DEF TInv, TypeOK, Goto, Advances, Collects, CollectsOn, StepRank, locals
<1>1. CASE \E g \in Group : Gather(t, g)
  BY <1>1 DEF Gather, Shrinks
<1>2. CASE \E g \in Group : SkipGroup(t, g)
  BY <1>2 DEF SkipGroup, Shrinks, SendsOn, fan
<1>3. CASE \E c \in Conn : Pass(t, c) \/ Collect(t, c) \/ Copy(t, c)
  BY <1>3 DEF Pass, Collect, Copy, Shrinks
<1>4. CASE \E c \in Conn : Lookup(t, c)
  BY <1>4 DEF Lookup, Shrinks
<1>5. CASE EndGather(t)
  BY <1>5 DEF EndGather
<1>6. CASE EndScan(t)
  BY <1>6 DEF EndScan
<1>7. CASE EndLookup(t)
  BY <1>7 DEF EndLookup
<1> QED
  BY <1>1, <1>2, <1>3, <1>4, <1>5, <1>6, <1>7

LEMMA SendingAdvances ==
  ASSUME TInv, NEW t \in Task, Deliver(t) \/ Evict(t) \/ EndFanOut(t)
  PROVE  Advances(t)
<1> USE DEF TInv, TypeOK, Goto, Advances, Collects, SendsOn
<1>1. CASE Deliver(t)
  BY <1>1 DEF Deliver, locals
<1>2. CASE Evict(t)
  BY <1>2 DEF Evict
<1>3. CASE EndFanOut(t)
  BY <1>3 DEF EndFanOut, Finish
<1> QED
  BY <1>1, <1>2, <1>3

\* Every call comes to its end if it is given the steps: no interleaving with
\* other calls makes it start over, look at a group or a connection again in
\* one pass, or send to a recipient twice (clients.rs:243-376, 382-465).
THEOREM CallAdvancesHolds == Spec => CallAdvances
<1> DEFINE Advancing ==
      \A t \in Task : pc[t] # "idle" =>
        \/ UNCHANGED <<call[t], pc[t], who[t], room[t], todo[t], guard[t],
                       left[t], fetched[t], rcpt[t], next[t]>>
        \/ pc'[t] = "idle"
        \/ Collects(t) /\ ~Collects(t)'
        \/ Collects(t) /\ Collects(t)' /\ CollectsOn(t)
        \/ ~Collects(t) /\ ~Collects(t)' /\ rcpt'[t] = rcpt[t] /\ SendsOn(t)
<1>1. TInv /\ [Next]_vars => [Advancing]_vars
  <2> SUFFICES ASSUME TInv, Next, NEW t \in Task, pc[t] # "idle"
               PROVE  Untouched(t) \/ Advances(t)
    BY DEF Untouched, Advances
  <2>1. CASE \E c \in Conn : Add(c)
    BY <2>1 DEF Add, locals, fan, Untouched
  <2>2. CASE Call(t)
    BY <2>2 DEF Call, CallRemove, CallAddToGroup, CallRemoveFromGroup,
       CallGroupOp, CallBroadcastGroup, CallBroadcastExcept,
       CallBroadcastGroups, Begin
  <2>3. CASE Step(t)
    BY <2>3, IndexAdvances, CollectionAdvances, SendingAdvances DEF Step
  <2>4. ASSUME NEW u \in Task, u # t, Call(u) \/ Step(u) PROVE Untouched(t)
    BY <2>4, OthersKeep DEF Others, Untouched
  <2> QED
    BY <2>1, <2>2, <2>3, <2>4 DEF Next
<1> QED
  BY <1>1, TypeInvariant, PTL DEF Spec, CallAdvances

-----------------------------------------------------------------------------
(* JoinedIsMember, for one call at a time                                  *)

Alone == \A t, u \in Task : t = u

\* What each step relies on when no other call comes between.
Sequential(t) ==
  /\ pc[t] = "join_groups" => who[t] \in groupMembers[room[t]]
  /\ pc[t] \in {"clean", "check", "prune"} => connGroups[who[t]] = {}
  /\ pc[t] = "prune" => groupMembers[room[t]] = {}

\* Half of the membership is gone for the one that is leaving.
Leaving(c, g) ==
  \E t \in Task : pc[t] = "leave_groups" /\ who[t] = c /\ room[t] = g

Listed ==
  \A c \in Conn, g \in Group :
    g \in connGroups[c] => c \in groupMembers[g] \/ Leaving(c, g)

SeqInv == Listed /\ \A t \in Task : Sequential(t)

\* The steps that touch neither index nor get to one that does.
LEMMA AsideStep ==
  ASSUME TInv, NEW t \in Task,
         \/ Call(t) \/ Unlist(t) \/ EndGather(t) \/ EndScan(t) \/ EndLookup(t)
         \/ \E c \in Conn : Pass(t, c) \/ Collect(t, c) \/ Copy(t, c) \/ Lookup(t, c)
         \/ Deliver(t) \/ Evict(t) \/ EndFanOut(t) \/ CleanupDone(t)
         \/ \E g \in Group : Gather(t, g)
  PROVE  /\ groupMembers' = groupMembers /\ connGroups' = connGroups
         /\ pc[t] # "leave_groups"
         /\ pc'[t] \notin {"join_groups", "clean", "check", "prune"}
  BY DEF TInv, TypeOK, index, locals, fan, Goto, Finish, Begin, Call,
     CallRemove, CallAddToGroup, CallRemoveFromGroup, CallGroupOp,
     CallBroadcastGroup, CallBroadcastExcept, CallBroadcastGroups,
     Unlist, EndGather, EndScan, EndLookup, Pass, Collect, Copy, Lookup,
     Deliver, Evict, EndFanOut, CleanupDone, Gather

LEMMA SeqStep ==
  ASSUME Alone, TInv, SeqInv, NEW t \in Task, Call(t) \/ Step(t)
  PROVE  SeqInv'
<1>1. \A u \in Task : u = t
  BY DEF Alone
<1>2. SUFFICES Listed' /\ Sequential(t)'
  BY <1>1 DEF SeqInv
<1>3. Listed /\ Sequential(t)
  BY DEF SeqInv
<1> USE DEF TInv, TypeOK, Targets, CleanupSteps, Goto, fan
<1>4. CASE \/ Call(t) \/ Unlist(t) \/ EndGather(t) \/ EndScan(t) \/ EndLookup(t)
           \/ \E c \in Conn : Pass(t, c) \/ Collect(t, c) \/ Copy(t, c) \/ Lookup(t, c)
           \/ Deliver(t) \/ Evict(t) \/ EndFanOut(t) \/ CleanupDone(t)
           \/ \E g \in Group : Gather(t, g)
  BY <1>1, <1>3, <1>4, AsideStep DEF Listed, Leaving, Sequential
<1>5. CASE JoinMembers(t)
  BY <1>1, <1>3, <1>5 DEF JoinMembers, Listed, Leaving, Sequential
<1>6. CASE JoinGroups(t)
  <2>1. /\ groupMembers' = groupMembers /\ pc[t] = "join_groups"
        /\ who[t] \in Conn /\ room[t] \in Group
        /\ connGroups' = [connGroups EXCEPT ![who[t]] = @ \cup {room[t]}]
        /\ pc'[t] = "idle"
    BY <1>6 DEF JoinGroups, Finish
  <2>2. who[t] \in groupMembers[room[t]]
    BY <1>3, <2>1 DEF Sequential
  <2>3. Sequential(t)'
    BY <2>1 DEF Sequential
  <2>4. \A c \in Conn, g \in Group :
          g \in connGroups'[c] => g \in connGroups[c] \/ (c = who[t] /\ g = room[t])
    BY <2>1
  <2>5. Listed'
    BY <1>1, <1>3, <2>1, <2>2, <2>4 DEF Listed, Leaving
  <2> QED
    BY <2>3, <2>5
<1>7. CASE LeaveMembers(t)
  <2>1. /\ pc[t] = "leave_members" /\ pc'[t] = "leave_groups"
        /\ who' = who /\ room' = room /\ connGroups' = connGroups
        /\ \A c \in Conn, g \in Group : c \in groupMembers[g] =>
             c \in groupMembers'[g] \/ (c = who[t] /\ g = room[t])
    BY <1>7 DEF LeaveMembers
  <2>2. Sequential(t)'
    BY <2>1 DEF Sequential
  <2>3. Listed'
    BY <1>1, <1>3, <2>1 DEF Listed, Leaving
  <2> QED
    BY <2>2, <2>3
<1>8. CASE LeaveGroups(t)
  <2>1. /\ pc'[t] = "idle" /\ groupMembers' = groupMembers
        /\ \A c \in Conn, g \in Group : g \in connGroups'[c] =>
             g \in connGroups[c] /\ ~(c = who[t] /\ g = room[t])
    BY <1>8 DEF LeaveGroups, Finish
  <2>2. Sequential(t)'
    BY <2>1 DEF Sequential
  <2>3. Listed'
    BY <1>1, <1>3, <2>1 DEF Listed, Leaving
  <2> QED
    BY <2>2, <2>3
<1>9. CASE TakeGroups(t)
  <2>1. /\ pc[t] = "take" /\ pc'[t] = "clean" /\ who' = who
        /\ groupMembers' = groupMembers /\ connGroups'[who[t]] = {}
        /\ \A c \in Conn : connGroups'[c] \subseteq connGroups[c]
    BY <1>9 DEF TakeGroups
  <2>2. Sequential(t)'
    BY <2>1 DEF Sequential
  <2>3. Listed'
    BY <1>1, <1>3, <2>1 DEF Listed, Leaving
  <2> QED
    BY <2>2, <2>3
<1>10. CASE \E g \in Group : Detach(t, g)
  <2>1. /\ pc[t] = "clean" /\ pc'[t] = "check" /\ who' = who
        /\ connGroups' = connGroups
        /\ \A c \in Conn, h \in Group :
             c \in groupMembers[h] => c \in groupMembers'[h] \/ c = who[t]
    BY <1>10 DEF Detach
  <2>2. connGroups[who[t]] = {}
    BY <1>3, <2>1 DEF Sequential
  <2>3. Sequential(t)'
    BY <2>1, <2>2 DEF Sequential
  <2>4. Listed'
    BY <1>1, <1>3, <2>1, <2>2 DEF Listed, Leaving
  <2> QED
    BY <2>3, <2>4
<1>11. CASE (\E g \in Group : SkipGroup(t, g)) \/ CheckEmpty(t)
  <2>1. /\ who' = who /\ room' = room
        /\ groupMembers' = groupMembers /\ connGroups' = connGroups
        /\ pc[t] # "leave_groups"
        /\ \/ pc'[t] = pc[t] /\ pc[t] \in {"clean", "gather"}
           \/ pc[t] = "check" /\ pc'[t] = "clean"
           \/ /\ pc[t] = "check" /\ pc'[t] = "prune"
              /\ groupMembers[room[t]] = {}
    BY <1>11 DEF SkipGroup, CheckEmpty, index
  <2> QED
    BY <1>1, <1>3, <2>1 DEF Listed, Leaving, Sequential
<1>12. CASE Prune(t)
  <2>1. /\ pc[t] = "prune" /\ pc'[t] = "clean" /\ who' = who
        /\ connGroups' = connGroups
        /\ \A c \in Conn, g \in Group :
             c \in groupMembers[g] => c \in groupMembers'[g] \/ g = room[t]
    BY <1>12 DEF Prune
  <2>2. groupMembers[room[t]] = {}
    BY <1>3, <2>1 DEF Sequential
  <2>3. Sequential(t)'
    BY <1>3, <2>1 DEF Sequential
  <2>4. Listed'
    BY <1>1, <1>3, <2>1, <2>2 DEF Listed, Leaving
  <2> QED
    BY <2>3, <2>4
<1> QED
  BY <1>4, <1>5, <1>6, <1>7, <1>8, <1>9, <1>10, <1>11, <1>12 DEF Step

\* A call that runs without another in between loses no join: what is listed in
\* the connection's own index is a member.  That JoinedIsMember fails otherwise
\* is due to the calls that come between the check and the removal of an empty
\* group alone (clients.rs:457-460).
THEOREM JoinedIfAlone == Alone => (Spec => []JoinedIsMember)
<1>1. CASE Alone
  <2>1. Init => SeqInv
    BY DEF Init, SeqInv, Listed, Sequential
  <2>2. TInv /\ SeqInv /\ [Next]_vars => SeqInv'
    <3> SUFFICES ASSUME TInv, SeqInv, [Next]_vars PROVE SeqInv'
      OBVIOUS
    <3>1. CASE \E c \in Conn : Add(c)
      BY <3>1 DEF Add, index, locals, SeqInv, Listed, Leaving, Sequential
    <3>2. CASE \E t \in Task : Call(t) \/ Step(t)
      BY <1>1, <3>2, SeqStep
    <3>3. CASE UNCHANGED vars
      BY <3>3 DEF vars, SeqInv, Listed, Leaving, Sequential
    <3> QED
      BY <3>1, <3>2, <3>3 DEF Next
  <2>3. SeqInv => JoinedIsMember
    BY DEF SeqInv, Listed, Leaving, JoinedIsMember
  <2> QED
    BY <2>1, <2>2, <2>3, TypeInvariant, PTL DEF Spec
<1> QED
  BY <1>1

-----------------------------------------------------------------------------
(* Joins that are lost, and the removal of a group                         *)

\* No removal takes out a group that somebody has joined since the check that
\* found it empty (clients.rs:457-459).
RemovesEmptyOnly ==
  [][\A t \in Task : Prune(t) => groupMembers[room[t]] = {}]_vars

\* A step of t, other than such a removal.
CleanStep(t) ==
  \/ Call(t)
  \/ Step(t) /\ (Prune(t) => groupMembers[room[t]] = {})

\* JoinedIsMember for the connections that are registered.  The remaining ones
\* are being evicted or torn down: a cleanup may then take a group's entry for
\* the connection while add_to_group is between its two insertions.
RegisteredIsMember ==
  \A c \in registered, g \in Group :
    (g \in connGroups[c] /\ \A t \in Task : who[t] # c)
      => c \in groupMembers[g]

Known == {c \in Conn : status[c] # "fresh"}

KnownOnly ==
  /\ registered \subseteq Known
  /\ \A c \in Conn \ Known : connGroups[c] = {}
  /\ \A t \in Task : Recipients(t) \subseteq Known

\* What an eviction cleans up after has left the registry for good.
EvictedOut ==
  \A t \in Task : pc[t] \in CleanupSteps /\ call[t] # "remove"
    => who[t] \in Known \ registered

\* A registered connection is in both indexes, but in between the two accesses
\* of its own add_to_group and remove_from_group.
JoinHalf ==
  \A t \in Task : pc[t] = "join_groups" /\ who[t] \in registered
    => who[t] \in groupMembers[room[t]]

RegisteredListed ==
  \A c \in registered, g \in Group :
    g \in connGroups[c] => c \in groupMembers[g] \/ Leaving(c, g)

MemberInv == KnownOnly /\ EvictedOut /\ JoinHalf /\ RegisteredListed

\* A task changes its own locals only, and no connection becomes fresh.
LEMMA CleanFrame ==
  ASSUME TInv, NEW t \in Task, CleanStep(t)
  PROVE  /\ Others(t)
         /\ registered' \subseteq registered
         /\ \A c \in Conn : c \in Known => c \in Known'
BY OthersKeep, NoNewConnection DEF CleanStep, Known, TInv, TypeOK

\* Only its own remove_from_group, or a cleanup, takes a member out.
LEMMA MembersLost ==
  ASSUME TInv, NEW t \in Task, CleanStep(t),
         NEW c \in Conn, NEW g \in Group,
         c \in groupMembers[g], c \notin groupMembers'[g]
  PROVE  /\ who[t] = c
         /\ (LeaveMembers(t) /\ room[t] = g) \/ \E h \in Group : Detach(t, h)
<1> USE DEF TInv, TypeOK
<1>1. CASE LeaveMembers(t)
  BY <1>1 DEF LeaveMembers, Targets
<1>2. CASE \E h \in Group : Detach(t, h)
  <2>1. PICK h \in Group : groupMembers' = [groupMembers EXCEPT ![h] = @ \ {who[t]}]
    BY <1>2 DEF Detach
  <2>2. who[t] = c
    BY <2>1
  <2> QED BY <1>2, <2>2
<1>3. CASE Prune(t) /\ groupMembers[room[t]] = {}
  BY <1>3 DEF Prune, Targets
<1>4. CASE JoinMembers(t)
  BY <1>4 DEF JoinMembers, Targets
<1>5. CASE Call(t)
  BY <1>5, CallFrame
<1>6. CASE UNCHANGED groupMembers
  BY <1>6
<1> QED
  BY <1>1, <1>2, <1>3, <1>4, <1>5, <1>6 DEF CleanStep, Step, index,
     JoinGroups, LeaveGroups, TakeGroups, CheckEmpty, CleanupDone, Unlist,
     EndGather, EndScan, EndLookup, Deliver, Evict, EndFanOut, SkipGroup,
     Gather, Pass, Collect, Copy, Lookup

LEMMA KnownOnlyStep ==
  ASSUME TInv, SerialInv, KnownOnly, NEW t \in Task, CleanStep(t)
  PROVE  KnownOnly'
<1> USE DEF TInv, TypeOK
<1>1. Others(t) /\ registered' \subseteq registered
      /\ Known \subseteq Known'
  BY CleanFrame DEF Known
<1>2. ASSUME NEW c \in Conn, c \notin Known' PROVE connGroups'[c] = {}
  <2>1. connGroups[c] = {} /\ status[c] = "fresh"
    BY <1>1, <1>2 DEF KnownOnly, Known
  <2>2. CASE JoinGroups(t)
    <3>1. status[who[t]] = "open"
      BY <2>2 DEF JoinGroups, Targets, CallSteps, SerialInv, OperatesOpen,
         Operating, GroupCalls
    <3> QED BY <2>1, <2>2, <3>1 DEF JoinGroups
  <2>3. CASE LeaveGroups(t)
    BY <2>1, <2>3 DEF LeaveGroups, Targets
  <2>4. CASE TakeGroups(t)
    BY <2>1, <2>4 DEF TakeGroups, Targets, CleanupSteps
  <2>5. CASE UNCHANGED connGroups
    BY <2>1, <2>5
  <2>6. CASE Call(t)
    BY <2>5, <2>6, CallFrame
  <2> QED
    BY <2>2, <2>3, <2>4, <2>5, <2>6 DEF CleanStep, Step, index,
       JoinMembers, LeaveMembers, CheckEmpty, Prune, CleanupDone,
       Unlist, EndGather, EndScan, EndLookup, Deliver, Evict, EndFanOut,
       Detach, SkipGroup, Gather, Pass, Collect, Copy, Lookup
<1>3. Recipients(t)' \subseteq Known
  <2>1. Items(rcpt[t]) \subseteq Known
    BY DEF KnownOnly, Recipients, Items
  <2>2. CASE \E c \in Conn : Collect(t, c) \/ Lookup(t, c)
    <3>1. PICK c \in Conn : Collect(t, c) \/ Lookup(t, c)
      BY <2>2
    <3>2. \/ rcpt'[t] = rcpt[t]
          \/ rcpt'[t] = Append(rcpt[t], c) /\ c \in registered
      BY <3>1 DEF Collect, Lookup, Selected
    <3>3. Items(Append(rcpt[t], c)) = Items(rcpt[t]) \cup {c}
      BY AppendItems
    <3>4. Items(rcpt'[t]) \subseteq Known
      <4>1. CASE rcpt'[t] = rcpt[t]
        BY <2>1, <4>1
      <4>2. CASE rcpt'[t] = Append(rcpt[t], c) /\ c \in registered
        <5>1. Items(rcpt'[t]) = Items(rcpt[t]) \cup {c}
          BY <3>3, <4>2
        <5> QED BY <2>1, <4>2, <5>1 DEF KnownOnly
      <4> QED BY <3>2, <4>1, <4>2
    <3> QED BY <3>4 DEF Recipients, Items
  <2>3. CASE EndFanOut(t)
    BY <2>3 DEF EndFanOut, Recipients
  <2>4. CASE rcpt' = rcpt
    BY <2>4 DEF KnownOnly, Recipients
  <2> QED
    BY <2>2, <2>3, <2>4 DEF CleanStep,
       Call, CallRemove, CallAddToGroup, CallRemoveFromGroup, CallGroupOp,
       CallBroadcastGroup, CallBroadcastExcept, CallBroadcastGroups,
       Step, fan, JoinMembers, JoinGroups, LeaveMembers, LeaveGroups,
       TakeGroups, CheckEmpty, Prune, CleanupDone, Unlist, EndGather,
       EndScan, EndLookup, Deliver, Evict, Detach, SkipGroup, Gather, Pass, Copy
<1>4. ASSUME NEW u \in Task PROVE Recipients(u)' \subseteq Known'
  <2>1. CASE u = t
    BY <1>1, <1>3, <2>1
  <2>2. CASE u # t
    BY <1>1, <2>2 DEF Others, Recipients, KnownOnly
  <2> QED BY <2>1, <2>2
<1> QED BY <1>1, <1>2, <1>4 DEF KnownOnly, Known

LEMMA EvictedOutStep ==
  ASSUME TInv, KnownOnly, EvictedOut, NEW t \in Task, CleanStep(t)
  PROVE  EvictedOut'
<1> USE DEF TInv, TypeOK
<1>1. Others(t) /\ registered' \subseteq registered
      /\ Known \subseteq Known'
  BY CleanFrame DEF Known
<1>2. ASSUME NEW u \in Task, pc'[u] \in CleanupSteps, call'[u] # "remove"
      PROVE  who'[u] \in Known' \ registered'
  <2>1. CASE u # t
    BY <1>1, <1>2, <2>1 DEF Others, EvictedOut
  <2>2. CASE u = t /\ Call(t)
    BY <1>2, <2>2, CallFrame DEF CleanupSteps, Call, CallRemove, Begin, Goto,
       CallAddToGroup, CallRemoveFromGroup, CallGroupOp, CallBroadcastGroup,
       CallBroadcastExcept, CallBroadcastGroups
  <2>3. CASE u = t /\ Evict(t)
    <3>1. /\ next[t] \in DOMAIN rcpt[t] /\ who'[t] = rcpt[t][next[t]]
          /\ registered' = registered \ {rcpt[t][next[t]]}
      BY <2>3 DEF Evict
    <3>2. rcpt[t][next[t]] \in Known
      BY <3>1 DEF KnownOnly, Recipients
    <3> QED BY <1>1, <2>3, <3>1, <3>2
  <2>4. CASE /\ pc[t] \in CleanupSteps /\ call'[t] = call[t]
             /\ who'[t] = who[t] /\ u = t
    BY <1>1, <1>2, <2>4 DEF EvictedOut
  <2>5. CASE pc'[t] \notin CleanupSteps /\ u = t
    BY <1>2, <2>5
  <2> QED
    BY <2>1, <2>2, <2>3, <2>4, <2>5 DEF CleanStep, Step, Goto, Finish,
       CleanupSteps, locals, CallSteps,
       JoinMembers, JoinGroups, LeaveMembers, LeaveGroups, TakeGroups,
       CheckEmpty, Prune, CleanupDone, Unlist, EndGather, EndScan, EndLookup,
       Deliver, EndFanOut, Detach, SkipGroup, Gather, Pass, Collect, Copy, Lookup
<1> QED BY <1>2 DEF EvictedOut

\* A cleanup for a registered connection is the teardown's, which has emptied
\* the connection's index first.
LEMMA CleanedIsEmpty ==
  ASSUME TInv, SerialInv, GhostInv, EvictedOut, NEW t \in Task,
         NEW g \in Group, Detach(t, g), who[t] \in registered
  PROVE  /\ connGroups[who[t]] = {}
         /\ \A u \in Task : ~Operating(u, who[t])
<1>1. pc[t] = "clean" /\ call[t] = "remove" /\ who[t] \in Conn
  BY DEF Detach, EvictedOut, CleanupSteps, TInv, Targets
<1>2. status[who[t]] = "closing"
  BY <1>1 DEF SerialInv, RemoverClosing
<1> QED BY <1>1, <1>2 DEF GhostInv, Taken, SerialInv, OperatesOpen

LEMMA JoinHalfStep ==
  ASSUME TInv, SerialInv, GhostInv, EvictedOut, JoinHalf,
         NEW t \in Task, CleanStep(t)
  PROVE  JoinHalf'
<1> USE DEF TInv, TypeOK
<1>1. Others(t) /\ registered' \subseteq registered
  BY CleanFrame
<1>2. ASSUME NEW u \in Task, pc'[u] = "join_groups", who'[u] \in registered'
      PROVE  who'[u] \in groupMembers'[room'[u]]
  <2>1. CASE u = t
    <3>1. JoinMembers(t)
      BY <1>2, <2>1, CallFrame DEF CleanStep, Step,
         Goto, Finish, locals, JoinGroups, LeaveMembers, LeaveGroups, TakeGroups,
         CheckEmpty, Prune, CleanupDone, Unlist, EndGather, EndScan, EndLookup,
         Deliver, Evict, EndFanOut, Detach, SkipGroup, Gather, Pass, Collect,
         Copy, Lookup
    <3> QED BY <2>1, <3>1 DEF JoinMembers, Targets
  <2>2. CASE u # t
    <3>1. /\ pc[u] = "join_groups" /\ who'[u] = who[u] /\ room'[u] = room[u]
          /\ who[u] \in Conn /\ room[u] \in Group
          /\ Operating(u, who[u]) /\ who[u] \in registered
      BY <1>1, <1>2, <2>2 DEF Others, Targets, CallSteps, Operating, GroupCalls
    <3>2. who[u] \in groupMembers[room[u]]
      BY <3>1 DEF JoinHalf
    <3>3. CASE who[u] \notin groupMembers'[room[u]]
      <4>1. /\ who[t] = who[u]
            /\ LeaveMembers(t) \/ \E h \in Group : Detach(t, h)
        BY <3>1, <3>2, <3>3, MembersLost
      <4>2. ~Operating(t, who[u])
        BY <2>2, <3>1 DEF SerialInv, OneOperator
      <4>3. ~LeaveMembers(t)
        BY <4>1, <4>2 DEF LeaveMembers, CallSteps, Operating, GroupCalls
      <4> QED BY <3>1, <4>1, <4>3, CleanedIsEmpty
    <3> QED BY <3>1, <3>3
  <2> QED BY <2>1, <2>2
<1> QED BY <1>2 DEF JoinHalf

LEMMA RegisteredListedStep ==
  ASSUME TInv, SerialInv, GhostInv, MemberInv, NEW t \in Task, CleanStep(t)
  PROVE  RegisteredListed'
<1> USE DEF TInv, TypeOK
<1>1. Others(t) /\ registered' \subseteq registered
  BY CleanFrame
<1>2. ASSUME NEW c \in registered', NEW g \in Group, g \in connGroups'[c],
             c \notin groupMembers'[g]
      PROVE  Leaving(c, g)'
  <2>1. c \in registered /\ c \in Conn
    BY <1>1
  <2>2. CASE g \notin connGroups[c]
    <3>1. JoinGroups(t)
      <4>1. ~LeaveGroups(t)
        <5> SUFFICES ASSUME LeaveGroups(t) PROVE connGroups'[c] \subseteq connGroups[c]
          BY <1>2, <2>2
        <5>1. /\ connGroups' = [connGroups EXCEPT ![who[t]] = @ \ {room[t]}]
              /\ who[t] \in Conn
          BY DEF LeaveGroups, Targets
        <5> QED BY <2>1, <5>1
      <4>2. ~TakeGroups(t)
        BY <1>2, <2>1, <2>2 DEF TakeGroups, Targets, CleanupSteps
      <4>3. ~UNCHANGED connGroups
        BY <1>2, <2>2
      <4> QED
        BY <4>1, <4>2, <4>3, CallFrame DEF CleanStep, Step, index,
           JoinMembers, LeaveMembers, CheckEmpty,
           Prune, CleanupDone, Unlist, EndGather, EndScan, EndLookup, Deliver,
           Evict, EndFanOut, Detach, SkipGroup, Gather, Pass, Collect, Copy,
           Lookup
    <3>2. who[t] = c /\ room[t] = g /\ groupMembers' = groupMembers
      BY <1>2, <2>1, <2>2, <3>1 DEF JoinGroups, Targets
    <3> QED BY <1>2, <2>1, <3>1, <3>2 DEF MemberInv, JoinHalf, JoinGroups
  <2>3. CASE g \in connGroups[c] /\ c \in groupMembers[g]
    <3>1. /\ who[t] = c
          /\ (LeaveMembers(t) /\ room[t] = g) \/ \E h \in Group : Detach(t, h)
      BY <1>2, <2>1, <2>3, MembersLost
    <3>2. LeaveMembers(t) /\ room[t] = g
      BY <2>1, <2>3, <3>1, CleanedIsEmpty DEF MemberInv
    <3>3. pc'[t] = "leave_groups" /\ who'[t] = c /\ room'[t] = g
      BY <3>1, <3>2 DEF LeaveMembers, Goto
    <3> QED BY <3>3 DEF Leaving
  <2>4. CASE g \in connGroups[c] /\ Leaving(c, g)
    <3>1. PICK u \in Task : pc[u] = "leave_groups" /\ who[u] = c /\ room[u] = g
      BY <2>4 DEF Leaving
    <3>2. CASE u # t
      BY <1>1, <3>1, <3>2 DEF Others, Leaving
    <3>3. CASE u = t
      <4>1. LeaveGroups(t)
        BY <3>1, <3>3, CallFrame DEF CleanStep,
           Step, JoinMembers, JoinGroups, LeaveMembers, TakeGroups, CheckEmpty,
           Prune, CleanupDone, Unlist, EndGather, EndScan, EndLookup, Deliver,
           Evict, EndFanOut, Detach, SkipGroup, Gather, Pass, Collect, Copy,
           Lookup
      <4> QED BY <1>2, <2>1, <3>1, <3>3, <4>1 DEF LeaveGroups
    <3> QED BY <3>2, <3>3
  <2> QED BY <2>1, <2>2, <2>3, <2>4 DEF MemberInv, RegisteredListed
<1> QED BY <1>2 DEF RegisteredListed, Leaving

\* Every join that is lost is lost to the removal of a group that is not empty
\* any more: in a run without one, a hub that issues the group calls of each
\* connection one at a time finds every registered connection in the groups it
\* has joined, however calls, evictions and teardowns interleave.  The gap
\* between the check and the removal (clients.rs:457-459) is the whole cause of
\* JoinedIsMember's violation.
THEOREM LostJoinsNeedTheGap ==
  Spec /\ RemovesEmptyOnly => [](Serial => RegisteredIsMember)
<1> DEFINE IInv == TInv /\ SerialInv /\ GhostInv /\ MemberInv
           Only == \A t \in Task : Prune(t) => groupMembers[room[t]] = {}
<1>1. Init => IInv
  <2>1. Init => MemberInv
    BY DEF Init, MemberInv, KnownOnly, EvictedOut, JoinHalf, RegisteredListed,
       Recipients, CleanupSteps
  <2> QED BY <2>1, TypeInit, GhostInit
<1>2. Serial /\ IInv /\ [Next]_vars /\ [Only]_vars => IInv'
  <2> SUFFICES ASSUME Serial, IInv, [Next]_vars, [Only]_vars PROVE IInv'
    OBVIOUS
  <2>1. TInv' /\ SerialInv' /\ GhostInv'
    BY TypeInductive, GhostInductive
  <2>2. ASSUME NEW t \in Task, CleanStep(t) PROVE IInv'
    BY <2>1, <2>2, KnownOnlyStep, EvictedOutStep, JoinHalfStep,
       RegisteredListedStep DEF MemberInv
  <2>3. CASE UNCHANGED vars
    BY <2>1, <2>3 DEF vars, MemberInv, KnownOnly, Known, EvictedOut, JoinHalf,
       RegisteredListed, Leaving, Recipients
  <2>4. ASSUME NEW c \in Conn, Add(c) PROVE MemberInv'
    <3>1. /\ UNCHANGED <<index, locals, fan>>
          /\ c \notin Known /\ Known' = Known \cup {c}
          /\ registered' = registered \cup {c}
      BY <2>4 DEF Add, Known, TInv, TypeOK
    <3>2. KnownOnly'
      BY <3>1 DEF MemberInv, KnownOnly, Recipients, index, fan
    <3>3. EvictedOut'
      BY <3>1 DEF MemberInv, EvictedOut, locals
    <3>4. \A t \in Task : pc[t] = "join_groups" => who[t] # c
      BY <3>1 DEF TInv, Targets, CallSteps, SerialInv, OperatesOpen, Operating,
         GroupCalls, Known
    <3>5. JoinHalf'
      BY <3>1, <3>4 DEF MemberInv, JoinHalf, index, locals
    <3>6. connGroups[c] = {}
      BY <3>1 DEF MemberInv, KnownOnly
    <3>7. RegisteredListed'
      BY <3>1, <3>6 DEF MemberInv, RegisteredListed, Leaving, index, locals
    <3> QED BY <3>2, <3>3, <3>5, <3>7 DEF MemberInv
  <2>5. ASSUME NEW t \in Task, Call(t) \/ Step(t), Only PROVE CleanStep(t)
    BY <2>5 DEF CleanStep
  <2> QED BY <2>1, <2>2, <2>3, <2>4, <2>5 DEF Next
<1>3. IInv => RegisteredIsMember
  BY DEF MemberInv, RegisteredListed, Leaving, RegisteredIsMember
<1>4. CASE Serial
  BY <1>1, <1>2, <1>3, <1>4, PTL DEF Spec, RemovesEmptyOnly
<1>5. CASE ~Serial
  BY <1>5, PTL
<1> QED BY <1>4, <1>5
=============================================================================
