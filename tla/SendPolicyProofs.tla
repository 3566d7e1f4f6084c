-------------------------- MODULE SendPolicyProofs --------------------------
(***************************************************************************)
(* SendPolicy for any number of connections, fan-outs, places in a queue   *)
(* and drops: types, that an eviction is announced before it happens, and  *)
(* where the count of drops stops.                                         *)
(***************************************************************************)
EXTENDS SendPolicy, FiniteSetTheorems, TLAPS

-----------------------------------------------------------------------------
(* Types                                                                   *)

Sending == Steps \ {"idle", "aborted", "pick"}

\* A fan-out that is sending has taken its recipient off its plan.
Placed == \A t \in Task : pc[t] \in Sending => target[t] \in Conn \ plan[t]

TypeInv == TypeOK /\ Placed

LEMMA BumpType ==
  ASSUME NEW f \in [Conn -> 0 .. MaxDrops], NEW c \in Conn
  PROVE  /\ Bump(f, c) \in [Conn -> 0 .. MaxDrops]
         /\ Bump(f, c)[c] = IF f[c] < MaxDrops THEN f[c] + 1 ELSE f[c]
         /\ \A d \in Conn : d # c => Bump(f, c)[d] = f[d]
BY PolicyAssumption DEF Bump

LEMMA GotoFacts ==
  ASSUME TypeOK, NEW t \in Task, NEW from, NEW to \in Steps, Goto(t, from, to)
  PROVE  /\ pc[t] = from /\ pc'[t] = to /\ pc' \in [Task -> Steps]
         /\ \A s \in Task : s # t => pc'[s] = pc[s]
BY DEF Goto, TypeOK

\* The step of send_with_policy from one of its places to another.
Hop(t, from, to) ==
  /\ pc[t] = from /\ from \in Sending
  /\ pc'[t] = to /\ to \in Sending \cup {"pick"}
  /\ pc' \in [Task -> Steps]
  /\ \A s \in Task : s # t => pc'[s] = pc[s]
  /\ UNCHANGED <<policy, plan, target>>

LEMMA HopPlaced ==
  ASSUME TypeInv, NEW t \in Task, NEW from, NEW to, Hop(t, from, to)
  PROVE  Placed' /\ target[t] \in Conn
<1>1. target[t] \in Conn \ plan[t]
  BY DEF TypeInv, Placed, Hop
<1>2. ASSUME NEW s \in Task, pc'[s] \in Sending
      PROVE  target[s] \in Conn \ plan[s]
  <2>1. CASE s = t
    BY <1>1, <2>1
  <2>2. CASE s # t
    BY <1>2, <2>2 DEF TypeInv, Placed, Hop
  <2> QED BY <2>1, <2>2
<1> QED BY <1>1, <1>2 DEF Placed, Hop

\* Which step each action of send_with_policy takes.
LEMMA Hops ==
  ASSUME TypeOK, NEW t \in Task
  PROVE  /\ Judge(t) => Hop(t, "judge", IF target[t] \in slow THEN "notify" ELSE "send")
         /\ Push(t) => Hop(t, "send", IF policy = "DropConnection" THEN "reset" ELSE "pick")
         /\ Drop(t) => Hop(t, "send", "notify")
         /\ Ignore(t) => Hop(t, "send", "pick")
         /\ Notify(t) => Hop(t, "notify", AfterNotify)
         /\ Reset(t) => Hop(t, "reset", "pick")
         /\ Count(t) => Hop(t, "count", IF drops[target[t]] + 1 >= MaxDrops
                                          THEN "unlist" ELSE "pick")
         /\ Unlist(t) => Hop(t, "unlist", IF target[t] \in registered
                                            THEN "cancel" ELSE "pick")
         /\ CancelToken(t) => Hop(t, "cancel", "pick")
<1> USE DEF Hop, Steps, Sending, conns
<1>1. Judge(t) => Hop(t, "judge", IF target[t] \in slow THEN "notify" ELSE "send")
  BY GotoFacts DEF Judge
<1>2. Push(t) => Hop(t, "send", IF policy = "DropConnection" THEN "reset" ELSE "pick")
  BY GotoFacts DEF Push
<1>3. Drop(t) => Hop(t, "send", "notify")
  BY GotoFacts DEF Drop
<1>4. Ignore(t) => Hop(t, "send", "pick")
  BY GotoFacts DEF Ignore
<1>5. Notify(t) => Hop(t, "notify", AfterNotify)
  <2>1. AfterNotify \in {"count", "unlist", "pick"}
    BY DEF AfterNotify
  <2> QED BY <2>1, GotoFacts DEF Notify
<1>6. Reset(t) => Hop(t, "reset", "pick")
  BY GotoFacts DEF Reset
<1>7. Count(t) => Hop(t, "count", IF drops[target[t]] + 1 >= MaxDrops
                                    THEN "unlist" ELSE "pick")
  BY GotoFacts DEF Count
<1>8. Unlist(t) => Hop(t, "unlist", IF target[t] \in registered
                                      THEN "cancel" ELSE "pick")
  BY GotoFacts DEF Unlist
<1>9. CancelToken(t) => Hop(t, "cancel", "pick")
  BY GotoFacts DEF CancelToken
<1> QED BY <1>1, <1>2, <1>3, <1>4, <1>5, <1>6, <1>7, <1>8, <1>9

LEMMA TypeInit == Init => TypeInv
<1> SUFFICES ASSUME Init PROVE TypeInv
  OBVIOUS
<1>1. TypeOK
  BY PolicyAssumption DEF Init, TypeOK, Steps
<1>2. Placed
  BY DEF Init, Placed, Sending
<1> QED BY <1>1, <1>2 DEF TypeInv

LEMMA TypeStep == TypeInv /\ [Next]_vars => TypeInv'
<1> SUFFICES ASSUME TypeInv, [Next]_vars PROVE TypeInv'
  OBVIOUS
<1> USE DEF TypeInv, conns
<1>1. ASSUME NEW t \in Task, Call(t) PROVE TypeInv'
  <2>1. pc'[t] = "pick" /\ pc' \in [Task -> Steps] /\ \A s \in Task : s # t => pc'[s] = pc[s]
    BY <1>1 DEF Call, TypeOK, Steps
  <2>2. plan' \in [Task -> SUBSET Conn] /\ \A s \in Task : s # t => plan'[s] = plan[s]
    BY <1>1 DEF Call, TypeOK
  <2>3. TypeOK'
    BY <1>1, <2>1, <2>2 DEF Call, TypeOK
  <2>4. Placed'
    <3> SUFFICES ASSUME NEW s \in Task, pc'[s] \in Sending
                 PROVE  target'[s] \in Conn \ plan'[s]
      BY DEF Placed
    <3>1. s # t
      BY <2>1 DEF Sending
    <3> QED BY <1>1, <2>1, <2>2, <3>1 DEF Call, Placed
  <2> QED BY <2>3, <2>4
<1>2. ASSUME NEW t \in Task, NEW c \in Conn, Pick(t, c) PROVE TypeInv'
  <2>1. /\ pc' \in [Task -> Steps] /\ \A s \in Task : s # t => pc'[s] = pc[s]
    BY <1>2, GotoFacts DEF Pick, Steps
  <2>2. /\ plan' \in [Task -> SUBSET Conn] /\ c \notin plan'[t]
        /\ \A s \in Task : s # t => plan'[s] = plan[s]
    BY <1>2 DEF Pick, TypeOK
  <2>3. /\ target' \in [Task -> Conn \cup {NoConn}] /\ target'[t] = c
        /\ \A s \in Task : s # t => target'[s] = target[s]
    BY <1>2 DEF Pick, TypeOK
  <2>4. TypeOK'
    BY <1>2, <2>1, <2>2, <2>3 DEF Pick, TypeOK
  <2>5. Placed'
    <3> SUFFICES ASSUME NEW s \in Task, pc'[s] \in Sending
                 PROVE  target'[s] \in Conn \ plan'[s]
      BY DEF Placed
    <3>1. CASE s = t
      BY <2>2, <2>3, <3>1
    <3>2. CASE s # t
      BY <2>1, <2>2, <2>3, <3>2 DEF Placed
    <3> QED BY <3>1, <3>2
  <2> QED BY <2>4, <2>5
<1>3. ASSUME NEW t \in Task, Return(t) \/ Abort(t) PROVE TypeInv'
  <2>1. /\ pc' \in [Task -> Steps] /\ pc'[t] \in {"idle", "aborted"}
        /\ \A s \in Task : s # t => pc'[s] = pc[s]
    BY <1>3, GotoFacts DEF Return, Abort, Steps
  <2>2. /\ plan' \in [Task -> SUBSET Conn]
        /\ \A s \in Task : s # t => plan'[s] = plan[s]
    BY <1>3 DEF Return, Abort, TypeOK
  <2>3. /\ target' \in [Task -> Conn \cup {NoConn}]
        /\ \A s \in Task : s # t => target'[s] = target[s]
    BY <1>3 DEF Return, Abort, TypeOK
  <2>4. TypeOK'
    BY <1>3, <2>1, <2>2, <2>3 DEF Return, Abort, TypeOK
  <2>5. Placed'
    <3> SUFFICES ASSUME NEW s \in Task, pc'[s] \in Sending
                 PROVE  target'[s] \in Conn \ plan'[s]
      BY DEF Placed
    <3>1. s # t
      BY <2>1 DEF Sending
    <3> QED BY <2>1, <2>2, <2>3, <3>1 DEF Placed
  <2> QED BY <2>4, <2>5
<1>4. ASSUME NEW t \in Task, Judge(t) \/ Ignore(t) PROVE TypeInv'
  <2>1. Placed' /\ pc' \in [Task -> Steps]
    BY <1>4, Hops, HopPlaced DEF Hop
  <2> QED BY <1>4, <2>1 DEF Judge, Ignore, TypeOK
<1>5. ASSUME NEW t \in Task, Push(t) PROVE TypeInv'
  <2>1. Placed' /\ target[t] \in Conn /\ pc' \in [Task -> Steps]
    BY <1>5, Hops, HopPlaced DEF Hop
  <2>2. queued' \in [Conn -> 0 .. Cap]
    BY <1>5, <2>1, PolicyAssumption DEF Push, TypeOK
  <2>3. streak' \in [Conn -> 0 .. MaxDrops]
    BY <1>5, <2>1, PolicyAssumption DEF Push, TypeOK
  <2> QED BY <1>5, <2>1, <2>2, <2>3 DEF Push, TypeOK
<1>6. ASSUME NEW t \in Task, Drop(t) PROVE TypeInv'
  <2>1. Placed' /\ target[t] \in Conn /\ pc' \in [Task -> Steps]
    BY <1>6, Hops, HopPlaced DEF Hop
  <2>2. streak' \in [Conn -> 0 .. MaxDrops]
    BY <1>6, <2>1, BumpType DEF Drop, TypeOK
  <2> QED BY <1>6, <2>1, <2>2 DEF Drop, TypeOK
<1>7. ASSUME NEW t \in Task, Notify(t) PROVE TypeInv'
  <2>1. Placed' /\ target[t] \in Conn /\ pc' \in [Task -> Steps]
    BY <1>7, Hops, HopPlaced DEF Hop
  <2>2. notified' \in [Conn -> 0 .. MaxDrops]
    BY <1>7, <2>1, BumpType DEF Notify, TypeOK
  <2> QED BY <1>7, <2>1, <2>2 DEF Notify, TypeOK
<1>8. ASSUME NEW t \in Task, Reset(t) \/ Count(t) PROVE TypeInv'
  <2>1. Placed' /\ target[t] \in Conn /\ pc' \in [Task -> Steps]
    BY <1>8, Hops, HopPlaced DEF Hop
  <2>2. drops' \in [Conn -> Nat]
    BY <1>8, <2>1 DEF Reset, Count, TypeOK
  <2> QED BY <1>8, <2>1, <2>2 DEF Reset, Count, TypeOK
<1>9. ASSUME NEW t \in Task, Unlist(t) \/ CancelToken(t) PROVE TypeInv'
  <2>1. Placed' /\ target[t] \in Conn /\ pc' \in [Task -> Steps]
    BY <1>9, Hops, HopPlaced DEF Hop
  <2>2. registered' \subseteq Conn /\ evicted' \subseteq Conn
    BY <1>9, <2>1 DEF Unlist, CancelToken, TypeOK
  <2> QED BY <1>9, <2>1, <2>2 DEF Unlist, CancelToken, TypeOK
<1>10. ASSUME NEW c \in Conn, Drain(c) PROVE TypeInv'
  <2>1. queued' \in [Conn -> 0 .. Cap]
    BY <1>10, PolicyAssumption DEF Drain, TypeOK
  <2> QED BY <1>10, <2>1 DEF Drain, TypeOK, Placed
<1>11. ASSUME NEW c \in Conn, Close(c) \/ Leave(c) \/ Measure(c) PROVE TypeInv'
  BY <1>11 DEF Close, Leave, Measure, TypeOK, Placed
<1>12. CASE UNCHANGED vars
  BY <1>12 DEF vars, TypeOK, Placed
<1> QED
  BY <1>1, <1>2, <1>3, <1>4, <1>5, <1>6, <1>7, <1>8, <1>9, <1>10, <1>11, <1>12
  DEF Next, Step

LEMMA TypeInductive == Spec => []TypeInv
BY TypeInit, TypeStep, PTL DEF Spec

\* The types of the fan-outs hold, and with them the capacity of every queue,
\* for any number of connections and tasks (clients.rs:405-450).
THEOREM PolicyTypeCorrect == Spec => []TypeOK
<1>1. TypeInv => TypeOK
  BY DEF TypeInv
<1> QED BY <1>1, TypeInductive, PTL

-----------------------------------------------------------------------------
(* Evictions are announced                                                 *)

\* The fan-outs at step p for c, that have announced a drop but not yet counted
\* it, or that have counted the last one but not yet unlisted c.
At(p, c) == {t \in Task : pc[t] = p /\ target[t] = c}

\* The policies under which a step is reached.
Paths ==
  \A t \in Task :
    /\ pc[t] \in {"count", "reset"} => policy = "DropConnection"
    /\ pc[t] = "judge" => policy = "DropOnHighRtt"
    /\ pc[t] \in {"unlist", "cancel"} => policy \in {"DropConnection", "DropOnHighRtt"}

\* Every drop counted, or about to be, has been announced.
Counted ==
  \A c \in Conn : notified[c] = MaxDrops
                 \/ drops[c] + Cardinality(At("count", c)) <= notified[c]

Owed == IF policy = "DropConnection" THEN MaxDrops ELSE 1

Announced ==
  /\ \A t \in Task : pc[t] \in {"unlist", "cancel"} => notified[target[t]] >= Owed
  /\ \A c \in evicted : notified[c] >= Owed

LEMMA AtFacts ==
  ASSUME NEW p, NEW c
  PROVE  /\ IsFiniteSet(At(p, c)) /\ Cardinality(At(p, c)) \in Nat
         /\ IsFiniteSet(At(p, c)') /\ Cardinality(At(p, c)') \in Nat
<1>1. At(p, c) \in SUBSET Task /\ At(p, c)' \in SUBSET Task
  BY DEF At
<1>2. IsFiniteSet(Task)
  BY PolicyAssumption
<1>3. IsFiniteSet(At(p, c)) /\ IsFiniteSet(At(p, c)')
  BY <1>1, <1>2, FS_Subset
<1> QED BY <1>3, FS_CardinalityType

\* A step that moves a fan-out into step p, out of it, or neither.
LEMMA AtHop ==
  ASSUME TypeInv, NEW t \in Task, NEW from, NEW to, Hop(t, from, to),
         NEW p, NEW c \in Conn
  PROVE  /\ (from = p /\ to # p /\ target[t] = c)
              => Cardinality(At(p, c)') = Cardinality(At(p, c)) - 1
         /\ (from # p /\ to = p /\ target[t] = c)
              => Cardinality(At(p, c)') = Cardinality(At(p, c)) + 1
         /\ (target[t] # c \/ (from # p /\ to # p)) => At(p, c)' = At(p, c)
<1>1. /\ pc[t] = from /\ pc'[t] = to /\ target' = target
      /\ \A s \in Task : s # t => pc'[s] = pc[s]
  BY DEF Hop
<1>2. ASSUME from = p, to # p, target[t] = c
      PROVE  Cardinality(At(p, c)') = Cardinality(At(p, c)) - 1
  <2>1. At(p, c)' = At(p, c) \ {t} /\ t \in At(p, c)
    BY <1>1, <1>2 DEF At
  <2> QED BY <2>1, AtFacts, FS_RemoveElement
<1>3. ASSUME from # p, to = p, target[t] = c
      PROVE  Cardinality(At(p, c)') = Cardinality(At(p, c)) + 1
  <2>1. At(p, c)' = At(p, c) \cup {t} /\ t \notin At(p, c)
    BY <1>1, <1>3 DEF At
  <2> QED BY <2>1, AtFacts, FS_AddElement
<1>4. ASSUME target[t] # c \/ (from # p /\ to # p)
      PROVE  At(p, c)' = At(p, c)
  BY <1>1, <1>4 DEF At
<1> QED BY <1>2, <1>3, <1>4

\* The other steps of a fan-out, and those of the connections.
Elsewhere ==
  \/ \E t \in Task : \/ Call(t) \/ Return(t) \/ Abort(t)
                     \/ \E c \in Conn : Pick(t, c)
  \/ \E c \in Conn : Drain(c) \/ Close(c) \/ Leave(c) \/ Measure(c)
  \/ UNCHANGED vars

LEMMA NextParts ==
  ASSUME [Next]_vars
  PROVE  \/ Elsewhere
         \/ \E t \in Task : \/ Judge(t) \/ Push(t) \/ Drop(t) \/ Ignore(t)
                            \/ Notify(t) \/ Reset(t) \/ Count(t) \/ Unlist(t)
                            \/ CancelToken(t)
BY DEF Next, Step, Elsewhere

LEMMA ElsewhereFacts ==
  ASSUME TypeInv, Elsewhere
  PROVE  /\ UNCHANGED <<policy, drops, notified, evicted>>
         /\ registered' \subseteq registered
         /\ \A s \in Task : pc'[s] \in {"count", "reset", "unlist", "cancel"}
              => pc'[s] = pc[s] /\ target'[s] = target[s]
         /\ \A s \in Task : pc'[s] = "judge" => pc[s] = "judge" \/ policy = "DropOnHighRtt"
         /\ \A s \in Task : pc[s] \in {"count", "reset", "unlist", "cancel"}
              => pc'[s] = pc[s] /\ target'[s] = target[s]
<1> USE DEF conns, TypeInv, TypeOK
<1>1. ASSUME NEW t \in Task, Call(t)
      PROVE  /\ UNCHANGED <<policy, drops, notified, evicted, target, registered>>
             /\ \A s \in Task : pc'[s] = pc[s] \/ (pc'[s] = "pick" /\ Free(s))
  BY <1>1 DEF Call
<1>2. ASSUME NEW t \in Task, Return(t) \/ Abort(t)
      PROVE  /\ UNCHANGED <<policy, drops, notified, evicted, registered>>
             /\ pc'[t] \in {"idle", "aborted"} /\ pc[t] \in {"pick", "send"}
             /\ \A s \in Task : s # t => pc'[s] = pc[s] /\ target'[s] = target[s]
  BY <1>2 DEF Return, Abort, Goto
<1>3. ASSUME NEW t \in Task, NEW c \in Conn, Pick(t, c)
      PROVE  /\ UNCHANGED <<policy, drops, notified, evicted, registered>>
             /\ pc[t] = "pick"
             /\ pc'[t] = "send" \/ (pc'[t] = "judge" /\ policy = "DropOnHighRtt")
             /\ \A s \in Task : s # t => pc'[s] = pc[s] /\ target'[s] = target[s]
  BY <1>3 DEF Pick, Goto
<1>4. ASSUME \/ \E c \in Conn : Drain(c) \/ Close(c) \/ Leave(c) \/ Measure(c)
             \/ UNCHANGED vars
      PROVE  /\ UNCHANGED <<policy, drops, notified, evicted, pc, target>>
             /\ registered' \subseteq registered
  BY <1>4 DEF Drain, Close, Leave, Measure, vars
<1>5. CASE \E t \in Task : Call(t)
  BY <1>1, <1>5 DEF Free
<1>6. CASE \E t \in Task : Return(t) \/ Abort(t)
  BY <1>2, <1>6
<1>7. CASE \E t \in Task, c \in Conn : Pick(t, c)
  BY <1>3, <1>7
<1> QED BY <1>4, <1>5, <1>6, <1>7 DEF Elsewhere

LEMMA ElsewhereAt ==
  ASSUME TypeInv, Elsewhere, NEW p \in {"count", "unlist"}, NEW c
  PROVE  At(p, c)' = At(p, c)
BY ElsewhereFacts DEF At

LEMMA PathsStep == TypeInv /\ Paths /\ [Next]_vars => Paths'
<1> SUFFICES ASSUME TypeInv, Paths, [Next]_vars PROVE Paths'
  OBVIOUS
<1>1. CASE Elsewhere
  BY <1>1, ElsewhereFacts DEF Paths
<1>2. ASSUME NEW t \in Task, NEW from, NEW to, Hop(t, from, to),
             to \in {"count", "reset"} => policy = "DropConnection",
             to # "judge",
             to \in {"unlist", "cancel"} => policy \in {"DropConnection", "DropOnHighRtt"}
      PROVE  Paths'
  BY <1>2 DEF Paths, Hop
<1>3. ASSUME NEW t \in Task,
             Judge(t) \/ Push(t) \/ Drop(t) \/ Ignore(t) \/ Reset(t) \/ CancelToken(t)
      PROVE  Paths'
  <2>1. \E from, to : /\ Hop(t, from, to) /\ to \in {"notify", "send", "reset", "pick"}
                      /\ to = "reset" => policy = "DropConnection"
    BY <1>3, Hops DEF TypeInv
  <2> QED BY <1>2, <2>1
<1>4. ASSUME NEW t \in Task, Notify(t) PROVE Paths'
  <2>1. Hop(t, "notify", AfterNotify)
    BY <1>4, Hops DEF TypeInv
  <2>2. \/ AfterNotify = "count" /\ policy = "DropConnection"
        \/ AfterNotify = "unlist" /\ policy = "DropOnHighRtt"
        \/ AfterNotify = "pick"
    BY DEF AfterNotify
  <2> QED BY <1>2, <2>1, <2>2
<1>5. ASSUME NEW t \in Task, Count(t) \/ Unlist(t) PROVE Paths'
  <2>1. \E from, to : /\ Hop(t, from, to) /\ from \in {"count", "unlist"}
                      /\ to \in {"unlist", "cancel", "pick"}
    BY <1>5, Hops DEF TypeInv
  <2>2. policy \in {"DropConnection", "DropOnHighRtt"}
    BY <2>1 DEF Hop, Paths
  <2> QED BY <1>2, <2>1, <2>2
<1> QED BY <1>1, <1>3, <1>4, <1>5, NextParts

LEMMA CountedStep == TypeInv /\ Paths /\ Counted /\ [Next]_vars => Counted'
<1> SUFFICES ASSUME TypeInv, Paths, Counted, [Next]_vars, NEW c \in Conn
             PROVE  notified'[c] = MaxDrops
                    \/ drops'[c] + Cardinality(At("count", c)') <= notified'[c]
  BY DEF Counted
<1>1. /\ notified[c] = MaxDrops \/ drops[c] + Cardinality(At("count", c)) <= notified[c]
      /\ drops[c] \in Nat /\ notified[c] \in 0 .. MaxDrops /\ MaxDrops \in Nat \ {0}
      /\ Cardinality(At("count", c)) \in Nat /\ Cardinality(At("count", c)') \in Nat
  BY AtFacts, PolicyAssumption DEF Counted, TypeInv, TypeOK
<1> USE DEF conns
<1>2. CASE Elsewhere
  <2>1. At("count", c)' = At("count", c) /\ drops' = drops /\ notified' = notified
    BY <1>2, ElsewhereAt, ElsewhereFacts
  <2> QED BY <1>1, <2>1
<1>3. ASSUME NEW t \in Task, Judge(t) \/ Push(t) \/ Drop(t) \/ Ignore(t)
                              \/ Unlist(t) \/ CancelToken(t)
      PROVE  drops' = drops /\ notified' = notified /\ At("count", c)' = At("count", c)
  <2>1. \E from, to : Hop(t, from, to) /\ from # "count" /\ to # "count"
    BY <1>3, Hops DEF TypeInv
  <2>2. At("count", c)' = At("count", c)
    BY <2>1, AtHop
  <2> QED BY <1>3, <2>2 DEF Judge, Push, Drop, Ignore, Unlist, CancelToken
<1>4. ASSUME NEW t \in Task, Notify(t)
      PROVE  notified'[c] = MaxDrops
             \/ drops'[c] + Cardinality(At("count", c)') <= notified'[c]
  <2>1. Hop(t, "notify", AfterNotify) /\ target[t] \in Conn /\ drops' = drops
    BY <1>4, Hops, HopPlaced DEF Notify, TypeInv
  <2>2. notified' = Bump(notified, target[t]) /\ notified \in [Conn -> 0 .. MaxDrops]
    BY <1>4 DEF Notify, TypeInv, TypeOK
  <2>3. CASE target[t] = c
    <3>1. notified'[c] = IF notified[c] < MaxDrops THEN notified[c] + 1 ELSE notified[c]
      BY <2>2, <2>3, BumpType
    <3>2. \/ Cardinality(At("count", c)') = Cardinality(At("count", c)) + 1
          \/ At("count", c)' = At("count", c)
      BY <2>1, <2>3, AtHop
    <3> QED BY <1>1, <2>1, <3>1, <3>2
  <2>4. CASE target[t] # c
    <3>1. notified'[c] = notified[c] /\ At("count", c)' = At("count", c)
      BY <2>1, <2>2, <2>4, BumpType, AtHop
    <3> QED BY <1>1, <2>1, <3>1
  <2> QED BY <2>3, <2>4
<1>5. ASSUME NEW t \in Task, Reset(t)
      PROVE  notified'[c] = MaxDrops
             \/ drops'[c] + Cardinality(At("count", c)') <= notified'[c]
  <2>1. At("count", c)' = At("count", c) /\ notified' = notified
    <3>1. Hop(t, "reset", "pick")
      BY <1>5, Hops DEF TypeInv
    <3> QED BY <1>5, <3>1, AtHop DEF Reset
  <2>2. drops'[c] = drops[c] \/ drops'[c] = 0
    BY <1>5 DEF Reset, TypeInv, TypeOK
  <2> QED BY <1>1, <2>1, <2>2
<1>6. ASSUME NEW t \in Task, Count(t)
      PROVE  notified'[c] = MaxDrops
             \/ drops'[c] + Cardinality(At("count", c)') <= notified'[c]
  <2>1. PICK to \in {"unlist", "pick"} : Hop(t, "count", to)
    BY <1>6, Hops DEF TypeInv
  <2>2. notified' = notified
    BY <1>6 DEF Count
  <2>3. CASE target[t] = c
    <3>1. Cardinality(At("count", c)') = Cardinality(At("count", c)) - 1
      BY <2>1, <2>3, AtHop
    <3>2. drops'[c] = drops[c] + 1
      BY <1>6, <2>3 DEF Count, TypeInv, TypeOK
    <3> QED BY <1>1, <2>2, <3>1, <3>2
  <2>4. CASE target[t] # c
    <3>1. drops'[c] = drops[c] /\ At("count", c)' = At("count", c)
      BY <1>6, <2>1, <2>4, AtHop DEF Count, TypeInv, TypeOK
    <3> QED BY <1>1, <2>2, <3>1
  <2> QED BY <2>3, <2>4
<1> QED BY <1>1, <1>2, <1>3, <1>4, <1>5, <1>6, NextParts

LEMMA AnnouncedStep ==
  TypeInv /\ Paths /\ Counted /\ Announced /\ [Next]_vars => Announced'
<1> SUFFICES ASSUME TypeInv, Paths, Counted, Announced, [Next]_vars PROVE Announced'
  OBVIOUS
<1> USE DEF conns
<1>1. Owed \in Nat /\ Owed <= MaxDrops /\ MaxDrops \in Nat \ {0}
  BY PolicyAssumption DEF Owed
<1>2. \A c \in Conn : notified[c] \in 0 .. MaxDrops
  BY DEF TypeInv, TypeOK
<1>3. CASE Elsewhere
  BY <1>3, ElsewhereFacts DEF Announced, Owed
<1>4. ASSUME NEW t \in Task, NEW from, NEW to, Hop(t, from, to),
             to \in {"unlist", "cancel"} => notified[target[t]] >= Owed,
             notified' = notified,
             \A c \in evicted' : c \in evicted \/ notified[c] >= Owed
      PROVE  Announced'
  BY <1>4 DEF Announced, Owed, Hop
<1>5. ASSUME NEW t \in Task,
             Judge(t) \/ Push(t) \/ Drop(t) \/ Ignore(t) \/ Reset(t)
      PROVE  Announced'
  <2>1. \E from, to : Hop(t, from, to) /\ to \in {"notify", "send", "reset", "pick"}
    BY <1>5, Hops DEF TypeInv
  <2>2. notified' = notified /\ evicted' = evicted
    BY <1>5 DEF Judge, Push, Drop, Ignore, Reset
  <2> QED BY <1>4, <2>1, <2>2
<1>6. ASSUME NEW t \in Task, Notify(t) PROVE Announced'
  <2>1. Hop(t, "notify", AfterNotify) /\ target[t] \in Conn
    BY <1>6, Hops, HopPlaced DEF TypeInv
  <2>2. \A c \in Conn : notified'[c] >= notified[c]
    <3> SUFFICES ASSUME NEW c \in Conn PROVE notified'[c] >= notified[c]
      OBVIOUS
    <3>1. notified'[c] \in {notified[c], notified[c] + 1}
      <4>1. notified' = Bump(notified, target[t]) /\ notified \in [Conn -> 0 .. MaxDrops]
        BY <1>6 DEF Notify, TypeInv, TypeOK
      <4>2. CASE c = target[t]
        BY <2>1, <4>1, <4>2, BumpType
      <4>3. CASE c # target[t]
        BY <2>1, <4>1, <4>3, BumpType
      <4> QED BY <4>2, <4>3
    <3> QED BY <1>2, <3>1
  <2>3. notified'[target[t]] >= 1 /\ notified' \in [Conn -> 0 .. MaxDrops]
    <3>1. notified' = Bump(notified, target[t]) /\ notified \in [Conn -> 0 .. MaxDrops]
      BY <1>6 DEF Notify, TypeInv, TypeOK
    <3> QED BY <1>1, <2>1, <3>1, BumpType
  <2>4. Owed' = Owed /\ target' = target /\ evicted' = evicted
    BY <1>6 DEF Notify, Owed
  <2>5. AfterNotify = "unlist" => Owed = 1
    BY DEF AfterNotify, Owed
  <2>6. ASSUME NEW s \in Task, pc'[s] \in {"unlist", "cancel"}
        PROVE  notified'[target[s]] >= Owed
    <3>1. CASE s = t
      <4>1. AfterNotify = "unlist"
        BY <2>1, <2>6, <3>1 DEF Hop, AfterNotify
      <4> QED BY <2>3, <2>5, <3>1, <4>1
    <3>2. CASE s # t
      <4>1. pc[s] \in {"unlist", "cancel"}
        BY <2>1, <2>6, <3>2 DEF Hop
      <4>2. notified[target[s]] >= Owed /\ target[s] \in Conn
        BY <4>1 DEF Announced, TypeInv, Placed, Sending, Steps
      <4> QED BY <1>1, <1>2, <2>2, <2>3, <4>2
    <3> QED BY <3>1, <3>2
  <2>7. ASSUME NEW c \in evicted
        PROVE  notified'[c] >= Owed
    <3>1. notified[c] >= Owed /\ c \in Conn
      BY DEF Announced, TypeInv, TypeOK
    <3> QED BY <1>1, <1>2, <2>2, <2>3, <3>1
  <2> QED BY <2>4, <2>6, <2>7 DEF Announced
<1>7. ASSUME NEW t \in Task, Count(t) PROVE Announced'
  <2>1. PICK to : /\ Hop(t, "count", to) /\ to \in {"unlist", "pick"}
                  /\ to = "unlist" => drops[target[t]] + 1 >= MaxDrops
    BY <1>7, Hops DEF TypeInv
  <2>2. target[t] \in Conn
    BY <2>1, HopPlaced
  <2>3. ASSUME to = "unlist" PROVE notified[target[t]] >= Owed
    <3>1. Cardinality(At("count", target[t])) >= 1
      <4>1. t \in At("count", target[t])
        BY <2>1 DEF At, Hop
      <4>2. Cardinality(At("count", target[t])) # 0
        BY <4>1, AtFacts, FS_EmptySet
      <4> QED BY <4>2, AtFacts
    <3>2. \/ notified[target[t]] = MaxDrops
          \/ drops[target[t]] + Cardinality(At("count", target[t])) <= notified[target[t]]
      BY <2>2 DEF Counted
    <3>3. /\ drops[target[t]] \in Nat /\ notified[target[t]] \in 0 .. MaxDrops
          /\ Cardinality(At("count", target[t])) \in Nat
      BY <2>2, AtFacts DEF TypeInv, TypeOK
    <3> QED BY <1>1, <2>1, <2>3, <3>1, <3>2, <3>3
  <2>4. notified' = notified /\ evicted' = evicted
    BY <1>7 DEF Count
  <2> QED BY <1>4, <2>1, <2>3, <2>4
<1>8. ASSUME NEW t \in Task, Unlist(t) PROVE Announced'
  <2>1. PICK to : Hop(t, "unlist", to)
    BY <1>8, Hops DEF TypeInv
  <2>2. notified[target[t]] >= Owed
    BY <2>1 DEF Hop, Announced
  <2>3. notified' = notified /\ evicted' = evicted
    BY <1>8 DEF Unlist
  <2> QED BY <1>4, <2>1, <2>2, <2>3
<1>9. ASSUME NEW t \in Task, CancelToken(t) PROVE Announced'
  <2>1. Hop(t, "cancel", "pick")
    BY <1>9, Hops DEF TypeInv
  <2>2. notified[target[t]] >= Owed
    BY <2>1 DEF Hop, Announced
  <2>3. notified' = notified /\ evicted' = evicted \cup {target[t]}
    BY <1>9 DEF CancelToken
  <2> QED BY <1>4, <2>1, <2>2, <2>3
<1> QED BY <1>3, <1>5, <1>6, <1>7, <1>8, <1>9, NextParts

LEMMA AnnouncedInductive == Spec => [](TypeInv /\ Paths /\ Counted /\ Announced)
<1>1. Init => Paths /\ Counted /\ Announced
  <2> SUFFICES ASSUME Init PROVE Paths /\ Counted /\ Announced
    OBVIOUS
  <2>1. Paths /\ Announced
    BY DEF Init, Paths, Announced
  <2>2. ASSUME NEW c \in Conn
        PROVE  drops[c] + Cardinality(At("count", c)) <= notified[c]
    <3>1. At("count", c) = {}
      BY DEF Init, At
    <3>2. drops[c] = 0 /\ notified[c] = 0
      BY DEF Init
    <3> QED BY <3>1, <3>2, FS_EmptySet
  <2> QED BY <2>1, <2>2 DEF Counted
<1>2. /\ TypeInv /\ Paths /\ Counted /\ Announced
      /\ [Next]_vars
      => (Paths /\ Counted /\ Announced)'
  BY PathsStep, CountedStep, AnnouncedStep
<1> QED BY <1>1, <1>2, TypeInductive, PTL DEF Spec

\* Whatever the interleaving of fan-outs, a connection is closed for its drops
\* only after max_drops calls of on_drop, and for its RTT only after one
\* (clients.rs:424-436, policy.rs:26-31).
THEOREM EvictionAnnouncedHolds == Spec => []EvictionAnnounced
<1>1. Announced => EvictionAnnounced
  BY DEF Announced, EvictionAnnounced, Owed
<1> QED BY <1>1, AnnouncedInductive, PTL

-----------------------------------------------------------------------------
(* The count of drops stops                                                *)

\* The fan-outs that may still count a drop for c.
Pending(c) ==
  {t \in Task : \/ c \in plan[t]
                \/ target[t] = c /\ pc[t] \in {"judge", "send", "notify", "count"}}

\* A registered connection is beyond the limit by those that are about to
\* unlist it; once unlisted, each of the others may count one more.
Limited ==
  \A c \in Conn :
    IF c \in registered
      THEN drops[c] < MaxDrops + Cardinality(At("unlist", c))
      ELSE drops[c] + Cardinality(Pending(c)) < MaxDrops + Cardinality(Task)

LEMMA PendingFacts ==
  ASSUME NEW c
  PROVE  /\ IsFiniteSet(Pending(c)) /\ Cardinality(Pending(c)) \in Nat
         /\ IsFiniteSet(Pending(c)') /\ Cardinality(Pending(c)') \in Nat
         /\ Cardinality(Pending(c)) <= Cardinality(Task)
         /\ Cardinality(Pending(c)') <= Cardinality(Task)
         /\ Cardinality(Task) \in Nat
<1>1. Pending(c) \in SUBSET Task /\ Pending(c)' \in SUBSET Task
  BY DEF Pending
<1>2. IsFiniteSet(Task)
  BY PolicyAssumption
<1>3. /\ IsFiniteSet(Pending(c)) /\ IsFiniteSet(Pending(c)')
      /\ Cardinality(Pending(c)) <= Cardinality(Task)
      /\ Cardinality(Pending(c)') <= Cardinality(Task)
  BY <1>1, <1>2, FS_Subset
<1> QED BY <1>2, <1>3, FS_CardinalityType

\* A fan-out about to unlist c will not count a drop for it any more.
LEMMA Apart ==
  ASSUME TypeInv, NEW c \in Conn
  PROVE  Cardinality(Pending(c)) + Cardinality(At("unlist", c)) <= Cardinality(Task)
<1>1. Pending(c) \cap At("unlist", c) = {}
  BY DEF Pending, At, TypeInv, Placed, Sending, Steps
<1>2. Pending(c) \cup At("unlist", c) \in SUBSET Task
  BY DEF Pending, At
<1>3. /\ IsFiniteSet(Pending(c)) /\ IsFiniteSet(At("unlist", c)) /\ IsFiniteSet(Task)
      /\ Cardinality(Pending(c)) \in Nat /\ Cardinality(At("unlist", c)) \in Nat
  BY PendingFacts, AtFacts, PolicyAssumption
<1>4. Cardinality(Pending(c) \cup At("unlist", c))
        = Cardinality(Pending(c)) + Cardinality(At("unlist", c)) - 0
  <2>1. Cardinality(Pending(c) \cap At("unlist", c)) = 0
    BY <1>1, FS_EmptySet
  <2> QED BY <1>3, <2>1, FS_Union
<1>5. Cardinality(Pending(c) \cup At("unlist", c)) <= Cardinality(Task)
  BY <1>2, <1>3, FS_Subset
<1> QED BY <1>3, <1>4, <1>5

LEMMA PlannedPends ==
  ASSUME NEW s \in Task, NEW c, c \in plan[s]
  PROVE  s \in Pending(c)
BY DEF Pending

\* No step adds to the fan-outs pending for an unlisted connection.
LEMMA PendingShrinks ==
  ASSUME TypeInv, [Next]_vars, NEW c \in Conn, c \notin registered'
  PROVE  Pending(c)' \subseteq Pending(c)
<1> SUFFICES ASSUME NEW s \in Task, s \in Pending(c)' PROVE s \in Pending(c)
  BY DEF Pending
<1> USE DEF conns, TypeInv, TypeOK
<1>1. \/ c \in plan'[s]
      \/ target'[s] = c /\ pc'[s] \in {"judge", "send", "notify", "count"}
  BY DEF Pending
<1>2. c \in plan[s] => s \in Pending(c)
  BY PlannedPends
<1>3. ASSUME NEW t \in Task, Call(t) PROVE s \in Pending(c)
  <2>1. /\ target' = target /\ pc'[t] = "pick" /\ c \notin plan'[t]
        /\ s # t => pc'[s] = pc[s] /\ plan'[s] = plan[s]
    BY <1>3 DEF Call
  <2> QED BY <1>1, <2>1 DEF Pending
<1>4. ASSUME NEW t \in Task, NEW d \in Conn, Pick(t, d) PROVE s \in Pending(c)
  <2>1. /\ d \in plan[t] /\ target'[t] = d /\ plan'[t] = plan[t] \ {d}
        /\ s # t => pc'[s] = pc[s] /\ plan'[s] = plan[s] /\ target'[s] = target[s]
    BY <1>4 DEF Pick, Goto
  <2>2. CASE s = t
    <3>1. c \in plan[s]
      BY <1>1, <2>1, <2>2
    <3> QED BY <1>2, <3>1
  <2>3. CASE s # t
    BY <1>1, <2>1, <2>3 DEF Pending
  <2> QED BY <2>2, <2>3
<1>5. ASSUME NEW t \in Task, Return(t) \/ Abort(t) PROVE s \in Pending(c)
  <2>1. /\ pc'[t] \in {"idle", "aborted"} /\ c \notin plan'[t]
        /\ s # t => pc'[s] = pc[s] /\ plan'[s] = plan[s] /\ target'[s] = target[s]
    BY <1>5 DEF Return, Abort, Goto
  <2> QED BY <1>1, <2>1 DEF Pending
<1>6. ASSUME NEW t \in Task, NEW from, NEW to, Hop(t, from, to),
             \/ from \in {"judge", "send", "notify", "count"}
             \/ to \notin {"judge", "send", "notify", "count"}
      PROVE  s \in Pending(c)
  BY <1>1, <1>6 DEF Pending, Hop
<1>7. ASSUME NEW t \in Task, Judge(t) \/ Push(t) \/ Drop(t) \/ Ignore(t)
                              \/ Notify(t) \/ Count(t)
      PROVE  s \in Pending(c)
  <2>1. \E from, to : Hop(t, from, to) /\ from \in {"judge", "send", "notify", "count"}
    BY <1>7, Hops
  <2> QED BY <1>6, <2>1
<1>8. ASSUME NEW t \in Task, Reset(t) \/ Unlist(t) \/ CancelToken(t)
      PROVE  s \in Pending(c)
  <2>1. \E from, to : Hop(t, from, to) /\ to \in {"pick", "cancel"}
    BY <1>8, Hops
  <2> QED BY <1>6, <2>1
<1>9. ASSUME \/ \E d \in Conn : Drain(d) \/ Close(d) \/ Leave(d) \/ Measure(d)
             \/ UNCHANGED vars
      PROVE  s \in Pending(c)
  <2>1. UNCHANGED <<pc, plan, target>>
    BY <1>9 DEF Drain, Close, Leave, Measure, vars
  <2> QED BY <1>1, <2>1 DEF Pending
<1> QED
  BY <1>3, <1>4, <1>5, <1>7, <1>8, <1>9 DEF Next, Step

LEMMA LimitedStep == TypeInv /\ Limited /\ [Next]_vars => Limited'
<1> SUFFICES ASSUME TypeInv, Limited, [Next]_vars, NEW c \in Conn
             PROVE  IF c \in registered'
                      THEN drops'[c] < MaxDrops + Cardinality(At("unlist", c)')
                      ELSE drops'[c] + Cardinality(Pending(c)')
                             < MaxDrops + Cardinality(Task)
  BY DEF Limited
<1> USE DEF conns
<1>1. /\ drops[c] \in Nat /\ MaxDrops \in Nat \ {0}
      /\ Cardinality(At("unlist", c)) \in Nat /\ Cardinality(At("unlist", c)') \in Nat
      /\ Cardinality(Pending(c)) \in Nat /\ Cardinality(Pending(c)') \in Nat
      /\ Cardinality(Task) \in Nat /\ Cardinality(Pending(c)') <= Cardinality(Task)
  BY AtFacts, PendingFacts, PolicyAssumption DEF TypeInv, TypeOK
\* Before the step c is within the limit it would have if it were unlisted.
<1>2. drops[c] + Cardinality(Pending(c)) < MaxDrops + Cardinality(Task)
  <2>1. Cardinality(Pending(c)) + Cardinality(At("unlist", c)) <= Cardinality(Task)
    BY Apart
  <2>2. CASE c \in registered
    <3>1. drops[c] < MaxDrops + Cardinality(At("unlist", c))
      BY <2>2 DEF Limited
    <3> QED BY <1>1, <2>1, <3>1
  <2>3. CASE c \notin registered
    BY <2>3 DEF Limited
  <2> QED BY <2>2, <2>3
<1>3. CASE drops'[c] = 0
  BY <1>1, <1>3
\* A step that does not count a drop for c.
<1>4. ASSUME drops'[c] = drops[c], registered' \subseteq registered,
             c \in registered' => Cardinality(At("unlist", c)')
                                    >= Cardinality(At("unlist", c))
      PROVE  IF c \in registered'
               THEN drops'[c] < MaxDrops + Cardinality(At("unlist", c)')
               ELSE drops'[c] + Cardinality(Pending(c)') < MaxDrops + Cardinality(Task)
  <2>1. CASE c \in registered'
    <3>1. drops[c] < MaxDrops + Cardinality(At("unlist", c))
      BY <1>4, <2>1 DEF Limited
    <3> QED BY <1>1, <1>4, <2>1, <3>1
  <2>2. CASE c \notin registered'
    <3>1. Pending(c)' \in SUBSET Pending(c)
      BY <2>2, PendingShrinks
    <3>2. Cardinality(Pending(c)') <= Cardinality(Pending(c))
      BY <3>1, PendingFacts, FS_Subset
    <3> QED BY <1>1, <1>2, <1>4, <2>2, <3>2
  <2> QED BY <2>1, <2>2
<1>5. CASE Elsewhere
  <2>1. drops' = drops /\ registered' \subseteq registered
    BY <1>5, ElsewhereFacts
  <2>2. At("unlist", c)' = At("unlist", c)
    BY <1>5, ElsewhereAt
  <2> QED BY <1>1, <1>4, <2>1, <2>2
<1>6. ASSUME NEW t \in Task, NEW from, NEW to, Hop(t, from, to), from # "unlist"
      PROVE  Cardinality(At("unlist", c)') >= Cardinality(At("unlist", c))
  <2>1. \/ Cardinality(At("unlist", c)') = Cardinality(At("unlist", c)) + 1
        \/ At("unlist", c)' = At("unlist", c)
    BY <1>6, AtHop
  <2> QED BY <1>1, <2>1
<1>7. ASSUME NEW t \in Task, Judge(t) \/ Push(t) \/ Drop(t) \/ Ignore(t)
                              \/ Notify(t) \/ CancelToken(t)
      PROVE  /\ drops' = drops /\ registered' = registered
             /\ Cardinality(At("unlist", c)') >= Cardinality(At("unlist", c))
  <2>1. \E from, to : Hop(t, from, to) /\ from # "unlist"
    BY <1>7, Hops DEF TypeInv
  <2>2. drops' = drops /\ registered' = registered
    BY <1>7 DEF Judge, Push, Drop, Ignore, Notify, CancelToken
  <2> QED BY <1>6, <2>1, <2>2
<1>8. CASE \E t \in Task : \/ Judge(t) \/ Push(t) \/ Drop(t) \/ Ignore(t)
                          \/ Notify(t) \/ CancelToken(t)
  BY <1>4, <1>7, <1>8
<1>9. ASSUME NEW t \in Task, Reset(t)
      PROVE  \/ drops'[c] = 0
             \/ /\ drops'[c] = drops[c] /\ registered' = registered
                /\ Cardinality(At("unlist", c)') >= Cardinality(At("unlist", c))
  <2>1. Hop(t, "reset", "pick")
    BY <1>9, Hops DEF TypeInv
  <2>2. Cardinality(At("unlist", c)') >= Cardinality(At("unlist", c))
    BY <1>6, <2>1
  <2>3. registered' = registered /\ (drops'[c] = 0 \/ drops'[c] = drops[c])
    BY <1>9 DEF Reset, TypeInv, TypeOK
  <2> QED BY <2>2, <2>3
<1>10. CASE \E t \in Task : Reset(t)
  BY <1>3, <1>4, <1>9, <1>10
<1>11. ASSUME NEW t \in Task, Unlist(t)
       PROVE  IF c \in registered'
                THEN drops'[c] < MaxDrops + Cardinality(At("unlist", c)')
                ELSE drops'[c] + Cardinality(Pending(c)') < MaxDrops + Cardinality(Task)
  <2>1. \E to : Hop(t, "unlist", to)
    BY <1>11, Hops DEF TypeInv
  <2>2. drops' = drops /\ registered' = registered \ {target[t]}
    BY <1>11 DEF Unlist
  <2>3. c \in registered' => At("unlist", c)' = At("unlist", c)
    BY <2>1, <2>2, AtHop
  <2> QED BY <1>1, <1>4, <2>2, <2>3
<1>12. ASSUME NEW t \in Task, Count(t)
       PROVE  IF c \in registered'
                THEN drops'[c] < MaxDrops + Cardinality(At("unlist", c)')
                ELSE drops'[c] + Cardinality(Pending(c)') < MaxDrops + Cardinality(Task)
  <2>1. PICK to : /\ Hop(t, "count", to)
                  /\ to = IF drops[target[t]] + 1 >= MaxDrops THEN "unlist" ELSE "pick"
    BY <1>12, Hops DEF TypeInv
  <2>2. registered' = registered
    BY <1>12 DEF Count
  <2>3. CASE target[t] # c
    <3>1. Cardinality(At("unlist", c)') >= Cardinality(At("unlist", c))
      BY <1>6, <2>1
    <3>2. drops'[c] = drops[c]
      BY <1>12, <2>3 DEF Count, TypeInv, TypeOK
    <3> QED BY <1>4, <2>2, <3>1, <3>2
  <2>4. CASE target[t] = c
    <3>1. drops'[c] = drops[c] + 1
      BY <1>12, <2>4 DEF Count, TypeInv, TypeOK
    <3>2. CASE c \in registered
      <4>1. drops[c] < MaxDrops + Cardinality(At("unlist", c))
        BY <3>2 DEF Limited
      <4>2. CASE drops[c] + 1 >= MaxDrops
        <5>1. to = "unlist"
          BY <2>1, <2>4, <4>2
        <5>2. Cardinality(At("unlist", c)') = Cardinality(At("unlist", c)) + 1
          BY <2>1, <2>4, <5>1, AtHop
        <5> QED BY <1>1, <2>2, <3>1, <3>2, <4>1, <5>2
      <4>3. CASE ~(drops[c] + 1 >= MaxDrops)
        BY <1>1, <2>2, <3>1, <3>2, <4>3
      <4> QED BY <4>2, <4>3
    <3>3. CASE c \notin registered
      <4>1. t \in Pending(c)
        BY <2>1, <2>4 DEF Pending, Hop
      <4>2. t \notin Pending(c)'
        <5>1. c \notin plan[t]
          BY <2>1, <2>4 DEF TypeInv, Placed, Hop
        <5>2. pc'[t] \in {"unlist", "pick"} /\ plan' = plan
          BY <2>1 DEF Hop
        <5> QED BY <5>1, <5>2 DEF Pending
      <4>3. Pending(c)' \in SUBSET (Pending(c) \ {t})
        BY <2>2, <3>3, <4>2, PendingShrinks
      <4>4. /\ IsFiniteSet(Pending(c) \ {t})
            /\ Cardinality(Pending(c) \ {t}) = Cardinality(Pending(c)) - 1
        BY <4>1, PendingFacts, FS_RemoveElement
      <4>5. Cardinality(Pending(c)') <= Cardinality(Pending(c)) - 1
        BY <4>3, <4>4, FS_Subset
      <4> QED BY <1>1, <1>2, <2>2, <3>1, <3>3, <4>5
    <3> QED BY <3>2, <3>3
  <2> QED BY <2>3, <2>4
<1> QED BY <1>5, <1>8, <1>10, <1>11, <1>12, NextParts

\* However many fan-outs count a drop for a connection at the same time, the
\* counter stops within one for each of them beyond max_drops
\* (clients.rs:428-436).
THEOREM DropsBoundedHolds == Spec => []DropsBounded
<1>1. Init => Limited
  <2> SUFFICES ASSUME Init, NEW c \in Conn
               PROVE  drops[c] < MaxDrops + Cardinality(At("unlist", c))
    BY DEF Limited, Init
  <2>1. drops[c] = 0 /\ MaxDrops \in Nat \ {0} /\ Cardinality(At("unlist", c)) \in Nat
    BY AtFacts, PolicyAssumption DEF Init
  <2> QED BY <2>1
<1>2. TypeInv /\ Limited => DropsBounded
  <2> SUFFICES ASSUME TypeInv, Limited, NEW c \in Conn
               PROVE  drops[c] < MaxDrops + Cardinality(Task)
    BY DEF DropsBounded
  <2>1. /\ drops[c] \in Nat /\ MaxDrops \in Nat
        /\ Cardinality(At("unlist", c)) \in Nat /\ Cardinality(Pending(c)) \in Nat
        /\ Cardinality(Task) \in Nat
    BY AtFacts, PendingFacts, PolicyAssumption DEF TypeInv, TypeOK
  <2>2. Cardinality(Pending(c)) + Cardinality(At("unlist", c)) <= Cardinality(Task)
    BY Apart
  <2> QED BY <2>1, <2>2 DEF Limited
<1> QED BY <1>1, <1>2, LimitedStep, TypeInductive, PTL DEF Spec

\* A fan-out that returns has tried every recipient that was still alive
\* (clients.rs:224-231, 449).
THEOREM TriesEveryRecipientHolds == Spec => TriesEveryRecipient
<1> DEFINE Tried ==
      \A t \in Task : (pc[t] # "idle" /\ pc'[t] = "idle")
        => plan[t] \cap alive = {}
           /\ (pc[t] = "send" => target[t] \notin alive)
<1>1. TypeInv /\ [Next]_vars => [Tried]_vars
  <2> SUFFICES ASSUME TypeInv, Next,
                      NEW t \in Task, pc[t] # "idle", pc'[t] = "idle"
               PROVE  plan[t] = {} /\ pc[t] # "send"
    OBVIOUS
  <2>1. Return(t)
    <3>1. CASE \E s \in Task : Return(s)
      BY <3>1 DEF Return, Goto, TypeInv, TypeOK
    <3>2. CASE \E s \in Task : Call(s)
      BY <3>2 DEF Call, TypeInv, TypeOK
    <3>3. CASE \E s \in Task : Abort(s)
      BY <3>3 DEF Abort, Goto, TypeInv, TypeOK
    <3>4. CASE \E s \in Task, c \in Conn : Pick(s, c)
      BY <3>4 DEF Pick, Goto, TypeInv, TypeOK
    <3>5. CASE \E s \in Task : \E from, to : Hop(s, from, to)
      BY <3>5 DEF Hop, Sending
    <3>6. CASE \E c \in Conn : Drain(c) \/ Close(c) \/ Leave(c) \/ Measure(c)
      BY <3>6 DEF Drain, Close, Leave, Measure
    <3>7. \A s \in Task : \/ Judge(s) \/ Push(s) \/ Drop(s) \/ Ignore(s) \/ Notify(s)
                         \/ Reset(s) \/ Count(s) \/ Unlist(s) \/ CancelToken(s)
                         => \E from, to : Hop(s, from, to)
      BY Hops DEF TypeInv
    <3> QED BY <3>1, <3>2, <3>3, <3>4, <3>5, <3>6, <3>7 DEF Next, Step
  <2> QED BY <2>1 DEF Return, Goto
<1> QED BY <1>1, TypeInductive, PTL DEF Spec, TriesEveryRecipient

-----------------------------------------------------------------------------
(* One evictor, and fan-outs that come to an end                           *)

LEMMA OneEvictorStep == TypeInv /\ OneEvictor /\ [Next]_vars => OneEvictor'
<1> SUFFICES ASSUME TypeInv, OneEvictor, [Next]_vars PROVE OneEvictor'
  OBVIOUS
<1> USE DEF conns
\* A step that unlists at most, and starts no cancellation.
<1>1. ASSUME evicted' = evicted, registered' \subseteq registered,
             \A s \in Task : pc'[s] = "cancel" => pc[s] = "cancel" /\ target'[s] = target[s]
      PROVE  OneEvictor'
  BY <1>1 DEF OneEvictor
<1>2. CASE Elsewhere
  BY <1>1, <1>2, ElsewhereFacts
<1>3. ASSUME NEW t \in Task, NEW from, NEW to, Hop(t, from, to), to # "cancel"
      PROVE  \A s \in Task : pc'[s] = "cancel" => pc[s] = "cancel" /\ target'[s] = target[s]
  BY <1>3 DEF Hop
<1>4. ASSUME NEW t \in Task, Judge(t) \/ Push(t) \/ Drop(t) \/ Ignore(t)
                              \/ Notify(t) \/ Reset(t) \/ Count(t)
      PROVE  OneEvictor'
  <2>1. \E from, to : Hop(t, from, to) /\ to # "cancel"
    BY <1>4, Hops DEF TypeInv, AfterNotify
  <2>2. evicted' = evicted /\ registered' = registered
    BY <1>4 DEF Judge, Push, Drop, Ignore, Notify, Reset, Count
  <2> QED BY <1>1, <1>3, <2>1, <2>2
<1>5. ASSUME NEW t \in Task, Unlist(t) PROVE OneEvictor'
  <2>1. Hop(t, "unlist", IF target[t] \in registered THEN "cancel" ELSE "pick")
    BY <1>5, Hops DEF TypeInv
  <2>2. evicted' = evicted /\ registered' = registered \ {target[t]}
    BY <1>5 DEF Unlist
  <2>3. CASE target[t] \notin registered
    <3>1. Hop(t, "unlist", "pick")
      BY <2>1, <2>3
    <3> QED BY <1>1, <1>3, <2>2, <3>1
  <2>4. CASE target[t] \in registered
    <3>1. /\ target' = target
          /\ \A s \in Task \ {t} : pc'[s] = pc[s]
      BY <2>1 DEF Hop
    \* Those at "cancel" before the step have unlisted somebody else.
    <3>2. \A s \in Task \ {t} : pc[s] = "cancel"
            => target[s] \notin registered \cup evicted /\ target[s] # target[t]
      BY <2>4 DEF OneEvictor
    <3>3. target[t] \notin evicted
      BY <2>4 DEF OneEvictor
    <3>4. registered' \cap evicted' = {}
      BY <2>2 DEF OneEvictor
    <3>5. ASSUME NEW s \in Task, pc'[s] = "cancel"
          PROVE  /\ target'[s] \notin registered' \cup evicted'
                 /\ \A u \in Task \ {s} : pc'[u] = "cancel" => target'[u] # target'[s]
      <4>1. CASE s = t
        BY <2>2, <3>1, <3>2, <3>3, <4>1
      <4>2. CASE s # t
        <5>1. pc[s] = "cancel"
          BY <3>1, <3>5, <4>2
        <5>2. target[s] \notin registered \cup evicted /\ target[s] # target[t]
          BY <3>2, <4>2, <5>1
        <5>3. ASSUME NEW u \in Task \ {s}, pc'[u] = "cancel"
              PROVE  target[u] # target[s]
          BY <3>1, <5>1, <5>2, <5>3 DEF OneEvictor
        <5> QED BY <2>2, <3>1, <5>2, <5>3
      <4> QED BY <4>1, <4>2
    <3> QED BY <3>4, <3>5 DEF OneEvictor
  <2> QED BY <2>3, <2>4
<1>6. ASSUME NEW t \in Task, CancelToken(t) PROVE OneEvictor'
  <2>1. Hop(t, "cancel", "pick")
    BY <1>6, Hops DEF TypeInv
  <2>2. evicted' = evicted \cup {target[t]} /\ registered' = registered
    BY <1>6 DEF CancelToken
  <2>3. /\ target' = target /\ pc[t] = "cancel"
        /\ \A s \in Task : pc'[s] = "cancel" => pc[s] = "cancel" /\ s # t
    BY <2>1 DEF Hop
  <2>4. \A s \in Task : pc'[s] = "cancel" => target[s] # target[t]
    BY <2>3 DEF OneEvictor
  <2> QED BY <2>2, <2>3, <2>4 DEF OneEvictor
<1> QED BY <1>2, <1>4, <1>5, <1>6, NextParts

\* Whatever fan-outs and teardowns race for a connection, one of them takes it
\* out of the registry and at most that one cancels its token
\* (clients.rs:414, 434).
THEOREM OneEvictorHolds == Spec => []OneEvictor
<1>1. Init => OneEvictor
  BY DEF Init, OneEvictor
<1> QED BY <1>1, OneEvictorStep, TypeInductive, PTL DEF Spec

\* The steps of one send go one way.
LEMMA HopDescends ==
  ASSUME TypeInv, NEW t \in Task,
         Judge(t) \/ Push(t) \/ Drop(t) \/ Ignore(t) \/ Notify(t) \/ Reset(t)
           \/ Count(t) \/ Unlist(t) \/ CancelToken(t)
  PROVE  \E from, to : Hop(t, from, to) /\ Rank(to) < Rank(from)
<1> USE DEF Rank, TypeInv
<1>1. CASE Judge(t)
  BY <1>1, Hops
<1>2. CASE Push(t) \/ Drop(t) \/ Ignore(t)
  <2>1. \E to \in {"reset", "pick", "notify"} : Hop(t, "send", to)
    BY <1>2, Hops
  <2> QED BY <2>1
<1>3. CASE Notify(t)
  <2>1. \E to \in {"count", "unlist", "pick"} : Hop(t, "notify", to)
    BY <1>3, Hops DEF AfterNotify
  <2> QED BY <2>1
<1>4. CASE Reset(t) \/ CancelToken(t)
  <2>1. \E from \in {"reset", "cancel"} : Hop(t, from, "pick")
    BY <1>4, Hops
  <2> QED BY <2>1
<1>5. CASE Count(t) \/ Unlist(t)
  <2>1. \/ \E to \in {"unlist", "pick"} : Hop(t, "count", to)
        \/ \E to \in {"cancel", "pick"} : Hop(t, "unlist", to)
    BY <1>5, Hops
  <2> QED BY <2>1
<1> QED BY <1>1, <1>2, <1>3, <1>4, <1>5

\* A fan-out comes to its end however its sends turn out: no message is sent
\* again, no recipient is visited twice, and no other fan-out adds to its plan
\* (clients.rs:224-231, 382-449).
THEOREM FanOutAdvancesHolds == Spec => FanOutAdvances
<1> DEFINE Advances(t) ==
             \/ Free(t)'
             \/ plan'[t] \subseteq plan[t] /\ plan'[t] # plan[t]
             \/ plan'[t] = plan[t] /\ Rank(pc'[t]) < Rank(pc[t])
           Advancing == \A t \in Task : ~Free(t) /\ pc'[t] # pc[t] => Advances(t)
<1>1. TypeInv /\ [Next]_vars => [Advancing]_vars
  <2> SUFFICES ASSUME TypeInv, Next, NEW t \in Task, ~Free(t), pc'[t] # pc[t]
               PROVE  Advances(t)
    OBVIOUS
  <2>1. CASE \E s \in Task : Call(s)
    BY <2>1 DEF Call, TypeInv, TypeOK
  <2>2. CASE \E s \in Task : Return(s) \/ Abort(s)
    BY <2>2 DEF Return, Abort, Goto, Free, TypeInv, TypeOK
  <2>3. CASE \E s \in Task, c \in Conn : Pick(s, c)
    <3>1. PICK c \in Conn : Pick(t, c)
      BY <2>3 DEF Pick, Goto, TypeInv, TypeOK
    <3> QED BY <3>1 DEF Pick, TypeInv, TypeOK
  <2>4. CASE \E s \in Task : \/ Judge(s) \/ Push(s) \/ Drop(s) \/ Ignore(s) \/ Notify(s)
                             \/ Reset(s) \/ Count(s) \/ Unlist(s) \/ CancelToken(s)
    <3>1. PICK s \in Task : \E from, to : Hop(s, from, to) /\ Rank(to) < Rank(from)
      BY <2>4, HopDescends
    <3>2. s = t
      BY <3>1 DEF Hop
    <3> QED BY <3>1, <3>2 DEF Hop
  <2>5. CASE \E c \in Conn : Drain(c) \/ Close(c) \/ Leave(c) \/ Measure(c)
    BY <2>5 DEF Drain, Close, Leave, Measure
  <2> QED BY <2>1, <2>2, <2>3, <2>4, <2>5 DEF Next, Step
<1> QED BY <1>1, TypeInductive, PTL DEF Spec, FanOutAdvances

-----------------------------------------------------------------------------
(* Whom a fan-out waits for                                                *)

\* What the actions of Step(t) ask of the state, one line for each.  They give
\* every variable one new value, so that an action is enabled where its line
\* holds: Guarded(t) is ENABLED Step(t) without the operator.
Guarded(t) ==
  \/ pc[t] = "pick" /\ \E c \in Conn : c \in plan[t]            \* Pick
  \/ pc[t] = "pick" /\ plan[t] = {}                             \* Return
  \/ pc[t] = "send" /\ target[t] \in alive /\ queued[target[t]] < Cap   \* Push
  \/ /\ pc[t] = "send" /\ Timed                                 \* Drop
     /\ target[t] \notin alive \/ queued[target[t]] = Cap
  \/ pc[t] = "send" /\ ~Timed /\ target[t] \notin alive         \* Ignore
  \/ pc[t] \in {"judge", "notify", "reset", "count", "unlist", "cancel"}

\* A fan-out has a step to take, or sends without a timeout to a live
\* peer that has left its queue full.
StepsOrAwaitsReader ==
  \A t \in Task :
    \/ Free(t)
    \/ Guarded(t)
    \/ /\ ~Timed
       /\ pc[t] = "send"
       /\ target[t] \in alive
       /\ queued[target[t]] = Cap

\* No line of Guarded asks for less than its action.
LEMMA StepIsGuarded ==
  ASSUME NEW t \in Task, Step(t)
  PROVE  Guarded(t)
BY DEF Step, Guarded, Goto, Pick, Return, Judge, Push, Drop, Ignore, Notify,
       Reset, Count, Unlist, CancelToken

\* With any number of fan-outs and connections, a fan-out is stopped by a slow
\* reader alone, and by none under the policies with a timeout
\* (clients.rs:392-405, policy.rs:20-21).
THEOREM StepsOrAwaitsReaderHolds == Spec => []StepsOrAwaitsReader
<1>1. TypeInv => StepsOrAwaitsReader
  <2> SUFFICES ASSUME TypeInv, NEW t \in Task, ~Free(t), ~Guarded(t)
               PROVE  ~Timed /\ pc[t] = "send" /\ target[t] \in alive
                      /\ queued[target[t]] = Cap
    BY DEF StepsOrAwaitsReader
  <2>1. pc[t] \in {"pick", "send"}
    BY DEF TypeInv, TypeOK, Steps, Free, Guarded
  <2>2. pc[t] # "pick"
    <3>1. plan[t] \subseteq Conn
      BY DEF TypeInv, TypeOK
    <3> QED BY <3>1 DEF Guarded
  <2>3. pc[t] = "send" /\ target[t] \in Conn
    BY <2>1, <2>2 DEF TypeInv, Placed, Sending, Steps
  <2>4. queued[target[t]] \in 0 .. Cap
    BY <2>3 DEF TypeInv, TypeOK
  <2> QED BY <2>3, <2>4, PolicyAssumption DEF Guarded
<1> QED BY <1>1, TypeInductive, PTL

-----------------------------------------------------------------------------
(* Consecutive drops, for one sender per connection                        *)

\* From the send to the count or the reset that follows it.
Delivering == {"send", "notify", "count", "reset"}

\* No two fan-outs are in there for one connection: what a lock in each
\* ConnectionState, held from the send to its count, would enforce.
OneSender ==
  \A t, u \in Task : t # u /\ {pc[t], pc[u]} \subseteq Delivering
    => target[t] # target[u]

\* The counter has not overtaken the streak, but between a message queued and
\* the reset that follows, ...
NotAhead(c) ==
  \/ streak[c] = MaxDrops
  \/ drops[c] <= streak[c]
  \/ \E t \in Task : pc[t] = "reset" /\ target[t] = c

\* ... and is behind it while a drop has still to be counted.
Behind(t) ==
  pc[t] \in {"notify", "count"} =>
    streak[target[t]] = MaxDrops \/ drops[target[t]] + 1 <= streak[target[t]]

Streaks ==
  policy = "DropConnection" =>
    (\A c \in Conn : NotAhead(c)) /\ \A t \in Task : Behind(t)

LEMMA ElsewhereStreaks ==
  ASSUME TypeInv, Elsewhere
  PROVE  /\ streak' = streak
         /\ \A s \in Task : pc'[s] = "notify" => pc[s] = "notify" /\ target'[s] = target[s]
<1> USE DEF conns, TypeInv, TypeOK
<1>1. CASE \E t \in Task : Call(t)
  BY <1>1 DEF Call
<1>2. CASE \E t \in Task : Return(t) \/ Abort(t)
  BY <1>2 DEF Return, Abort, Goto
<1>3. CASE \E t \in Task, c \in Conn : Pick(t, c)
  BY <1>3 DEF Pick, Goto
<1>4. CASE \/ \E c \in Conn : Drain(c) \/ Close(c) \/ Leave(c) \/ Measure(c)
           \/ UNCHANGED vars
  BY <1>4 DEF Drain, Close, Leave, Measure, vars
<1> QED BY <1>1, <1>2, <1>3, <1>4 DEF Elsewhere

LEMMA StreaksStep == OneSender /\ TypeInv /\ Paths /\ Streaks /\ [Next]_vars => Streaks'
<1> SUFFICES ASSUME OneSender, TypeInv, Paths, Streaks, [Next]_vars,
                    policy' = "DropConnection"
             PROVE  (\A c \in Conn : NotAhead(c)') /\ \A t \in Task : Behind(t)'
  BY DEF Streaks
<1> USE DEF conns
<1>1. CASE Elsewhere
  BY <1>1, ElsewhereFacts, ElsewhereStreaks DEF Streaks, NotAhead, Behind
\* A sender takes a step.
<1>2. ASSUME NEW t \in Task, NEW from, NEW to, Hop(t, from, to)
      PROVE  /\ target[t] \in Conn /\ target' = target
             /\ pc[t] = from /\ pc'[t] = to /\ policy = "DropConnection"
             /\ \A u \in Task : u # t => pc'[u] = pc[u]
             /\ \A c \in Conn : NotAhead(c) /\ drops[c] \in Nat /\ streak[c] \in 0 .. MaxDrops
             /\ \A u \in Task : Behind(u)
             /\ MaxDrops \in Nat \ {0}
  BY <1>2, HopPlaced, PolicyAssumption DEF Hop, Streaks, TypeInv, TypeOK
\* Off the send and its count, both histories stay.
<1>3. ASSUME NEW t \in Task, NEW from, NEW to, Hop(t, from, to),
             from # "reset", to \in {"notify", "count"} => from = "notify",
             drops' = drops, streak' = streak
      PROVE  (\A c \in Conn : NotAhead(c)') /\ \A u \in Task : Behind(u)'
  <2>1. ASSUME NEW u \in Task PROVE Behind(u)'
    <3>1. CASE u = t
      BY <1>2, <1>3, <3>1 DEF Behind
    <3>2. CASE u # t
      BY <1>2, <1>3, <3>2 DEF Behind
    <3> QED BY <3>1, <3>2
  <2>2. ASSUME NEW c \in Conn PROVE NotAhead(c)'
    BY <1>2, <1>3 DEF NotAhead
  <2> QED BY <2>1, <2>2
\* In there, it is the only one for its recipient.
<1>4. ASSUME NEW t \in Task, NEW from \in Delivering, NEW to, Hop(t, from, to),
             \A c \in Conn : c # target[t] => drops'[c] = drops[c] /\ streak'[c] = streak[c],
             NotAhead(target[t])', Behind(t)'
      PROVE  (\A c \in Conn : NotAhead(c)') /\ \A u \in Task : Behind(u)'
  <2>1. ASSUME NEW u \in Task, u # t PROVE Behind(u)'
    <3> SUFFICES ASSUME pc[u] \in {"notify", "count"}
                 PROVE  streak'[target[u]] = MaxDrops
                        \/ drops'[target[u]] + 1 <= streak'[target[u]]
      BY <1>2, <1>4, <2>1 DEF Behind
    <3>1. target[u] # target[t]
      BY <1>2, <1>4, <2>1 DEF OneSender, Delivering
    <3>2. target[u] \in Conn
      BY DEF TypeInv, Placed, Sending, Steps
    <3> QED BY <1>2, <1>4, <3>1, <3>2 DEF Behind
  <2>2. ASSUME NEW c \in Conn, c # target[t] PROVE NotAhead(c)'
    BY <1>2, <1>4, <2>2 DEF NotAhead
  <2> QED BY <1>2, <1>4, <2>1, <2>2
<1>5. ASSUME NEW t \in Task, pc[t] \in Delivering, target[t] \in Conn,
             policy = "DropConnection"
      PROVE  \/ streak[target[t]] = MaxDrops
             \/ drops[target[t]] <= streak[target[t]]
             \/ pc[t] = "reset"
  BY <1>5 DEF OneSender, Delivering, Streaks, NotAhead
<1>6. ASSUME NEW t \in Task, Judge(t) \/ Ignore(t) PROVE FALSE
  <2>1. \E from, to : Hop(t, from, to)
    BY <1>6, Hops DEF TypeInv
  <2>2. policy = "DropConnection"
    BY <1>2, <2>1
  <2> QED BY <1>6, <2>2 DEF Judge, Ignore, Goto, Paths, Timed
<1>7. ASSUME NEW t \in Task, Push(t)
      PROVE  (\A c \in Conn : NotAhead(c)') /\ \A u \in Task : Behind(u)'
  <2>1. policy = "DropConnection"
    BY <1>2, <1>7, Hops DEF TypeInv
  <2>2. Hop(t, "send", "reset")
    BY <1>7, <2>1, Hops DEF TypeInv
  <2>3. drops' = drops /\ \A c \in Conn : c # target[t] => streak'[c] = streak[c]
    BY <1>7 DEF Push, TypeInv, TypeOK
  <2>4. NotAhead(target[t])' /\ Behind(t)'
    BY <1>2, <2>2 DEF NotAhead, Behind
  <2> QED BY <1>4, <2>2, <2>3, <2>4 DEF Delivering
<1>8. ASSUME NEW t \in Task, Drop(t)
      PROVE  (\A c \in Conn : NotAhead(c)') /\ \A u \in Task : Behind(u)'
  <2>1. Hop(t, "send", "notify")
    BY <1>8, Hops DEF TypeInv
  <2>2. /\ drops' = drops
        /\ streak'[target[t]] = IF streak[target[t]] < MaxDrops
                                  THEN streak[target[t]] + 1 ELSE streak[target[t]]
        /\ \A c \in Conn : c # target[t] => streak'[c] = streak[c]
    <3>1. target[t] \in Conn /\ streak \in [Conn -> 0 .. MaxDrops]
      BY <1>2, <2>1 DEF TypeInv, TypeOK
    <3> QED BY <1>8, <3>1, BumpType DEF Drop
  <2>3. streak[target[t]] = MaxDrops \/ drops[target[t]] <= streak[target[t]]
    BY <1>2, <1>5, <2>1 DEF Delivering
  <2>4. NotAhead(target[t])' /\ Behind(t)'
    BY <1>2, <2>1, <2>2, <2>3 DEF NotAhead, Behind
  <2> QED BY <1>4, <2>1, <2>2, <2>4 DEF Delivering
<1>9. ASSUME NEW t \in Task, Notify(t) \/ Unlist(t) \/ CancelToken(t)
      PROVE  (\A c \in Conn : NotAhead(c)') /\ \A u \in Task : Behind(u)'
  <2>1. \E from, to : /\ Hop(t, from, to) /\ from # "reset"
                      /\ to \in {"notify", "count"} => from = "notify"
    BY <1>9, Hops DEF TypeInv, AfterNotify
  <2>2. drops' = drops /\ streak' = streak
    BY <1>9 DEF Notify, Unlist, CancelToken
  <2> QED BY <1>3, <2>1, <2>2
<1>10. ASSUME NEW t \in Task, Reset(t)
       PROVE  (\A c \in Conn : NotAhead(c)') /\ \A u \in Task : Behind(u)'
  <2>1. Hop(t, "reset", "pick")
    BY <1>10, Hops DEF TypeInv
  <2>2. /\ streak' = streak
        /\ \A c \in Conn : drops'[c] = IF c = target[t] THEN 0 ELSE drops[c]
    BY <1>10 DEF Reset, TypeInv, TypeOK
  <2>3. NotAhead(target[t])' /\ Behind(t)'
    BY <1>2, <2>1, <2>2 DEF NotAhead, Behind
  <2> QED BY <1>4, <2>1, <2>2, <2>3 DEF Delivering
<1>11. ASSUME NEW t \in Task, Count(t)
       PROVE  (\A c \in Conn : NotAhead(c)') /\ \A u \in Task : Behind(u)'
  <2>1. \E to \in {"unlist", "pick"} : Hop(t, "count", to)
    BY <1>11, Hops DEF TypeInv
  <2>2. /\ streak' = streak
        /\ \A c \in Conn : drops'[c] = IF c = target[t] THEN drops[c] + 1 ELSE drops[c]
    BY <1>11 DEF Count, TypeInv, TypeOK
  <2>3. NotAhead(target[t])' /\ Behind(t)'
    BY <1>2, <2>1, <2>2 DEF NotAhead, Behind
  <2> QED BY <1>4, <2>1, <2>2, <2>3 DEF Delivering
<1> QED BY <1>1, <1>6, <1>7, <1>8, <1>9, <1>10, <1>11, NextParts

LEMMA CountIsConsecutive ==
  ASSUME TypeInv, Paths, Streaks, [Next]_vars,
         NEW t \in Task, pc[t] = "count", pc'[t] = "unlist"
  PROVE  streak[target[t]] >= MaxDrops
<1>1. Count(t)
  <2>1. ~Elsewhere
    BY ElsewhereFacts
  <2>2. \E s \in Task : \/ Judge(s) \/ Push(s) \/ Drop(s) \/ Ignore(s) \/ Notify(s)
                        \/ Reset(s) \/ Count(s) \/ Unlist(s) \/ CancelToken(s)
    BY <2>1, NextParts
  <2> QED
    BY <2>2 DEF Judge, Push, Drop, Ignore, Notify, Reset, Count, Unlist,
                CancelToken, Goto, TypeInv, TypeOK
<1>2. drops[target[t]] + 1 >= MaxDrops
  BY <1>1 DEF Count, Goto, TypeInv, TypeOK
<1>3. streak[target[t]] = MaxDrops \/ drops[target[t]] + 1 <= streak[target[t]]
  BY DEF Paths, Streaks, Behind
<1>4. target[t] \in Conn
  BY DEF TypeInv, Placed, Sending, Steps
<1> QED BY <1>2, <1>3, <1>4, PolicyAssumption DEF TypeInv, TypeOK

\* What the policy says of consecutive drops is true as long as no two fan-outs
\* deliver to one connection at a time, however many run, whatever aborts, closes
\* and evictions do meanwhile: that it fails is due to this concurrency alone, and
\* a lock per connection around the send and its count repairs it
\* (policy.rs:26-27).
THEOREM ConsecutiveIfOneSender == Spec /\ []OneSender => ConsecutiveDrops
<1> DEFINE Consecutive ==
      \A t \in Task : (pc[t] = "count" /\ pc'[t] = "unlist")
        => streak[target[t]] >= MaxDrops
<1>1. Init => Paths /\ Streaks
  BY PolicyAssumption DEF Init, Paths, Streaks, NotAhead, Behind
<1>2. OneSender /\ TypeInv /\ Paths /\ Streaks /\ [Next]_vars => (Paths /\ Streaks)'
  BY PathsStep, StreaksStep
<1>3. TypeInv /\ Paths /\ Streaks /\ [Next]_vars => [Consecutive]_vars
  BY CountIsConsecutive
<1> QED BY <1>1, <1>2, <1>3, TypeInductive, PTL DEF Spec, ConsecutiveDrops

\* So it is true of a server that sends from one task.
Alone == \A t, u \in Task : t = u

COROLLARY ConsecutiveIfAlone == Alone => (Spec => ConsecutiveDrops)
<1>1. Alone => OneSender
  BY DEF Alone, OneSender
<1>2. CASE Alone
  BY <1>1, <1>2, ConsecutiveIfOneSender, PTL
<1> QED BY <1>2
=============================================================================
