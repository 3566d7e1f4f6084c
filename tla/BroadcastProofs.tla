--------------------------- MODULE BroadcastProofs --------------------------
(***************************************************************************)
(* Broadcast for any hubs, sockets and capacities: sockets share exactly   *)
(* the registry of their hub, the ring loses only what it has overrun, and *)
(* the whole implements LossyFifo.                                         *)
(***************************************************************************)
EXTENDS Broadcast, Integers, TLAPS

LEMMA RingPositive == Ring \in Nat \ {0} /\ Ring >= Capacity
BY BroadcastAssumption

-----------------------------------------------------------------------------
(* Arithmetic of the ring                                                  *)

\* A position modulo the size of the ring is one of its slots.
LEMMA SlotOf == \A n \in Nat : n % Ring \in 0 .. Ring - 1
BY RingPositive

\* Two positions less than a lap apart have different slots.
LEMMA SlotsDiffer ==
  ASSUME NEW p \in Nat, NEW t \in Nat, p < t, t < p + Ring
  PROVE  p % Ring # t % Ring
<1> DEFINE a == p \div Ring
           b == t \div Ring
<1>1. p = Ring * a + (p % Ring) /\ t = Ring * b + (t % Ring) /\ a \in Int /\ b \in Int
  BY RingPositive
<1>2. SUFFICES ASSUME p % Ring = t % Ring PROVE FALSE
  OBVIOUS
<1>3. t - p = Ring * (b - a)
  BY <1>1, <1>2, RingPositive, SlotOf
<1>4. CASE b - a <= 0
  <2>1. Ring * (b - a) <= 0
    BY <1>1, <1>4, RingPositive
  <2> QED BY <1>3, <2>1
<1>5. CASE b - a >= 1
  <2>1. Ring * (b - a) >= Ring
    BY <1>1, <1>5, RingPositive
  <2> QED BY <1>3, <2>1, RingPositive
<1> QED BY <1>1, <1>4, <1>5

-----------------------------------------------------------------------------
(* The inductive invariant                                                 *)

\* Who has which registry; a registry belongs to the hub of its maker.
Shared ==
  /\ \A s \in Socket : stage[s] # "new" =>
       /\ clients[s] \in Socket
       /\ registry[HubOf[s]] = clients[s]
  /\ \A h \in Hub : registry[h] # None =>
       /\ HubOf[registry[h]] = h
       /\ stage[registry[h]] # "new"

\* What is sent to a hub goes through its one registry.
Counted ==
  /\ \A s \in Socket : stage[s] = "new" => tail[s] = 0
  /\ \A h \in Hub :
       cast[h] = IF registry[h] = None THEN 0 ELSE tail[registry[h]]

\* A slot holds the message it says, and the last Ring messages are in theirs.
Retained ==
  \A c \in Socket :
    /\ \A i \in 0 .. Ring - 1 :
         /\ slots[c][i].nth <= tail[c]
         /\ slots[c][i].nth # 0 => slots[c][i].msg = slots[c][i].nth
    /\ \A p \in Nat : (p < tail[c] /\ tail[c] <= p + Ring)
                        => slots[c][p % Ring].nth = p + 1

Since == \A s \in Socket : stage[s] = "serving" => since[s] <= cast[HubOf[s]]

\* Each message that a socket has lost has been overrun itself.  This is more than
\* LosesOnlyBehind says.  hub.rs:41 has a socket that lags skip "forward to the
\* latest message", which would lose the whole run of messages; tokio's receiver,
\* on which serve.rs:157-159 relies, goes on with the oldest message retained.
LosesOnlyOverrun ==
  \A s \in Socket : stage[s] = "serving" =>
    \A m \in since[s] + 1 .. next[s] :
      Received(s, m) \/ cast[HubOf[s]] >= m + Capacity

BInv == TypeOK /\ Shared /\ Counted /\ Retained /\ Since /\ LosesOnlyOverrun

\* The consequence that the steps use: a socket with a registry sees its hub.
LEMMA Channel ==
  ASSUME BInv, NEW s \in Socket, stage[s] # "new"
  PROVE  /\ HubOf[s] \in Hub
         /\ clients[s] \in Socket
         /\ registry[HubOf[s]] = clients[s]
         /\ HubOf[clients[s]] = HubOf[s]
         /\ stage[clients[s]] # "new"
         /\ cast[HubOf[s]] = tail[clients[s]]
BY BroadcastAssumption DEF BInv, Shared, Counted

\* Receive takes the next message of the hub.
LEMMA ReceiveFacts ==
  ASSUME BInv, NEW s \in Socket, Receive(s)
  PROVE  /\ next[s] \in Nat
         /\ Expected(s).msg = next[s] + 1
         /\ next[s] + 1 <= cast[HubOf[s]]
<1>1. stage[s] # "new" /\ next[s] \in Nat
  BY DEF Receive, BInv, TypeOK
<1>2. next[s] % Ring \in 0 .. Ring - 1
  BY <1>1, SlotOf
<1>3. clients[s] \in Socket /\ cast[HubOf[s]] = tail[clients[s]]
  BY <1>1, Channel
<1> QED BY <1>1, <1>2, <1>3 DEF Receive, Expected, BInv, Retained

\* Lag goes forward, and what it skips has been overrun.
LEMMA LagFacts ==
  ASSUME BInv, NEW s \in Socket, Lag(s)
  PROVE  /\ next[s] \in Nat
         /\ cast[HubOf[s]] \in Nat
         /\ tail[clients[s]] = cast[HubOf[s]]
         /\ next[s] + Ring < cast[HubOf[s]]
<1>1. stage[s] # "new" /\ next[s] \in Nat
  BY DEF Lag, Overrun, BInv, TypeOK
<1>2. clients[s] \in Socket /\ cast[HubOf[s]] = tail[clients[s]]
  BY <1>1, Channel
<1>3. tail[clients[s]] \in Nat
  BY <1>2 DEF BInv, TypeOK
<1> QED BY <1>1, <1>2, <1>3, RingPositive DEF Lag, Overrun, Expected, BInv, Retained

-----------------------------------------------------------------------------
(* The invariant is inductive                                              *)

LEMMA InitBInv == Init => BInv
<1> SUFFICES ASSUME Init PROVE BInv
  OBVIOUS
<1>1. TypeOK
  BY BroadcastAssumption, RingPositive DEF Init, TypeOK, Stages, Slot, listening
<1>2. Shared /\ Counted /\ Since /\ LosesOnlyOverrun
  BY <1>1, BroadcastAssumption
  DEF Init, TypeOK, Shared, Counted, Since, LosesOnlyOverrun, Received
<1>3. Retained
  BY <1>1, RingPositive DEF Init, TypeOK, Retained
<1> QED BY <1>1, <1>2, <1>3 DEF BInv

LEMMA GetClientsBInv ==
  ASSUME BInv, NEW s \in Socket, GetClients(s)
  PROVE  BInv'
<1> USE DEF GetClients, Advance
<1> DEFINE mine == IF registry[HubOf[s]] = None THEN s ELSE registry[HubOf[s]]
<1>1. /\ HubOf[s] \in Hub
      /\ mine \in Socket
      /\ registry' = [registry EXCEPT ![HubOf[s]] = mine]
      /\ clients' = [clients EXCEPT ![s] = mine]
      /\ stage[s] = "new" /\ stage' = [stage EXCEPT ![s] = "found"]
      /\ UNCHANGED <<slots, tail, next, cast, since, got>>
  BY BroadcastAssumption DEF BInv, TypeOK
<1> HIDE DEF GetClients, mine
<1>2. mine = s \/ (registry[HubOf[s]] # None /\ mine = registry[HubOf[s]])
  BY DEF mine
<1>3. TypeOK'
  BY <1>1, Channel DEF BInv, TypeOK, Stages, listening
<1>4. Shared'
  <2>1. registry[HubOf[s]] # None => mine = registry[HubOf[s]]
    BY DEF mine
  <2>2. mine = s \/ (HubOf[mine] = HubOf[s] /\ stage[mine] # "new")
    BY <1>1, <1>2 DEF BInv, Shared
  <2>3. HubOf[mine] = HubOf[s] /\ stage'[mine] # "new" /\ mine # None
    BY <1>1, <2>2, BroadcastAssumption DEF BInv, TypeOK
  <2>4. ASSUME NEW t \in Socket, stage'[t] # "new"
        PROVE  clients'[t] \in Socket /\ registry'[HubOf[t]] = clients'[t]
    <3>1. CASE t = s
      BY <1>1, <3>1, BroadcastAssumption DEF BInv, TypeOK
    <3>2. CASE t # s
      <4>1. stage[t] # "new" /\ clients'[t] = clients[t]
        BY <1>1, <2>4, <3>2 DEF BInv, TypeOK
      <4>2. clients[t] \in Socket /\ registry[HubOf[t]] = clients[t]
        BY <4>1 DEF BInv, Shared
      <4> QED
        BY <1>1, <2>1, <4>1, <4>2, BroadcastAssumption DEF BInv, TypeOK
    <3> QED BY <3>1, <3>2
  <2>5. ASSUME NEW h \in Hub, registry'[h] # None
        PROVE  HubOf[registry'[h]] = h /\ stage'[registry'[h]] # "new"
    <3>1. CASE h = HubOf[s]
      BY <1>1, <2>3, <3>1 DEF BInv, TypeOK
    <3>2. CASE h # HubOf[s]
      BY <1>1, <2>5, <3>2 DEF BInv, TypeOK, Shared
    <3> QED BY <3>1, <3>2
  <2> QED BY <2>4, <2>5 DEF Shared
<1>5. Counted'
  <2>1. ASSUME NEW h \in Hub
        PROVE  cast'[h] = IF registry'[h] = None THEN 0 ELSE tail'[registry'[h]]
    <3>1. CASE h = HubOf[s]
      BY <1>1, <3>1, BroadcastAssumption DEF BInv, TypeOK, Counted, mine
    <3>2. CASE h # HubOf[s]
      BY <1>1, <3>2 DEF BInv, TypeOK, Counted
    <3> QED BY <3>1, <3>2
  <2> QED BY <1>1, <2>1 DEF BInv, TypeOK, Counted
<1>6. Retained'
  BY <1>1 DEF BInv, Retained
<1>7. Since' /\ LosesOnlyOverrun'
  BY <1>1 DEF BInv, TypeOK, Since, LosesOnlyOverrun, Received
<1> QED BY <1>3, <1>4, <1>5, <1>6, <1>7 DEF BInv

LEMMA SubscribeBInv ==
  ASSUME BInv, NEW s \in Socket, Subscribe(s)
  PROVE  BInv'
<1> USE DEF Subscribe, Advance
<1>1. TypeOK'
  BY Channel DEF BInv, TypeOK, Stages, listening
<1>2. Shared' /\ Counted' /\ Retained'
  BY DEF BInv, TypeOK, Shared, Counted, Retained
<1>3. Since' /\ LosesOnlyOverrun'
  BY DEF BInv, TypeOK, Since, LosesOnlyOverrun, Received
<1> QED BY <1>1, <1>2, <1>3 DEF BInv

LEMMA ServeBInv ==
  ASSUME BInv, NEW s \in Socket, Serve(s)
  PROVE  BInv'
<1> USE DEF Serve, Advance
<1>1. /\ cast[HubOf[s]] \in Nat
      /\ next[s] \in Nat
      /\ next[s] <= cast[HubOf[s]]
  BY Channel DEF BInv, TypeOK, listening
<1>2. TypeOK'
  BY <1>1 DEF BInv, TypeOK, Stages, listening
<1>3. Shared' /\ Counted' /\ Retained'
  BY DEF BInv, TypeOK, Shared, Counted, Retained
<1>4. Since'
  BY <1>1, BroadcastAssumption DEF BInv, TypeOK, Since
<1>5. ASSUME NEW t \in Socket, stage'[t] = "serving",
             NEW m \in since'[t] + 1 .. next'[t]
      PROVE  \/ \E i \in 1 .. Len(got'[t]) : got'[t][i] = m
             \/ cast'[HubOf[t]] >= m + Capacity
  <2>1. CASE t = s
    BY <1>1, <1>5, <2>1 DEF BInv, TypeOK
  <2>2. CASE t # s
    BY <1>5, <2>2 DEF BInv, TypeOK, LosesOnlyOverrun, Received
  <2> QED BY <2>1, <2>2
<1> QED BY <1>2, <1>3, <1>4, <1>5 DEF BInv, LosesOnlyOverrun, Received

LEMMA LeaveBInv ==
  ASSUME BInv, NEW s \in Socket, Leave(s)
  PROVE  BInv'
<1> USE DEF Leave, Advance
<1>1. TypeOK'
  BY DEF BInv, TypeOK, Stages, listening
<1>2. Shared' /\ Counted' /\ Retained'
  BY DEF BInv, TypeOK, Shared, Counted, Retained
<1>3. Since' /\ LosesOnlyOverrun'
  BY DEF BInv, TypeOK, Since, LosesOnlyOverrun, Received
<1> QED BY <1>1, <1>2, <1>3 DEF BInv

LEMMA SendBInv ==
  ASSUME BInv, NEW s \in Socket, Send(s)
  PROVE  BInv'
<1> DEFINE c == clients[s]
           h == HubOf[s]
           slot == [nth |-> tail[c] + 1, msg |-> cast[h] + 1]
<1>1. /\ h \in Hub /\ c \in Socket
      /\ registry[h] = c /\ HubOf[c] = h /\ stage[c] # "new"
      /\ cast[h] = tail[c] /\ tail[c] \in Nat
      /\ \A r \in Socket : stage[r] # "new" =>
           /\ clients[r] \in Socket /\ HubOf[r] \in Hub
           /\ registry[HubOf[r]] = clients[r] /\ HubOf[clients[r]] = HubOf[r]
  BY Channel DEF Send, BInv, TypeOK
<1>2. /\ cast' = [cast EXCEPT ![h] = @ + 1]
      /\ tail' = [tail EXCEPT ![c] = @ + 1]
      /\ slots' = [slots EXCEPT ![c][tail[c] % Ring] = slot]
      /\ UNCHANGED <<registry, clients, stage, next, since, got>>
  BY DEF Send
<1>3. tail[c] % Ring \in 0 .. Ring - 1 /\ slot \in Slot
  BY <1>1, SlotOf DEF Slot
<1> HIDE DEF c, h, slot
<1>4. TypeOK'
  <2>1. slots' \in [Socket -> [0 .. Ring - 1 -> Slot]]
    BY <1>1, <1>2, <1>3 DEF BInv, TypeOK
  <2>2. tail' \in [Socket -> Nat] /\ cast' \in [Hub -> Nat]
    BY <1>1, <1>2 DEF BInv, TypeOK
  <2>3. \A r \in listening' : next'[r] <= tail'[clients'[r]]
    <3> SUFFICES ASSUME NEW r \in listening
                 PROVE  next[r] <= tail'[clients[r]]
      BY <1>2 DEF listening
    <3>1. r \in Socket /\ clients[r] \in Socket /\ next[r] <= tail[clients[r]]
      BY <1>1 DEF BInv, TypeOK, listening
    <3> QED BY <1>1, <1>2, <3>1 DEF BInv, TypeOK
  <2> QED BY <1>2, <2>1, <2>2, <2>3 DEF BInv, TypeOK
<1>5. Shared'
  BY <1>2 DEF BInv, Shared
<1>6. Counted'
  <2>1. \A g \in Hub : g # h => registry[g] # c
    BY <1>1, BroadcastAssumption DEF BInv, Shared, TypeOK
  <2>2. ASSUME NEW g \in Hub
        PROVE  cast'[g] = IF registry[g] = None THEN 0 ELSE tail'[registry[g]]
    <3>1. CASE g = h
      BY <1>1, <1>2, <3>1, BroadcastAssumption DEF BInv, TypeOK
    <3>2. CASE g # h
      BY <1>2, <2>1, <3>2 DEF BInv, TypeOK, Counted
    <3> QED BY <3>1, <3>2
  <2> QED BY <1>1, <1>2, <2>2 DEF BInv, TypeOK, Counted
<1>7. Retained'
  <2> SUFFICES ASSUME NEW d \in Socket PROVE
        /\ \A i \in 0 .. Ring - 1 :
             /\ slots'[d][i].nth <= tail'[d]
             /\ slots'[d][i].nth # 0 => slots'[d][i].msg = slots'[d][i].nth
        /\ \A p \in Nat : (p < tail'[d] /\ tail'[d] <= p + Ring)
                            => slots'[d][p % Ring].nth = p + 1
    BY DEF Retained
  <2>1. CASE d # c
    BY <1>2, <2>1 DEF BInv, TypeOK, Retained
  <2>2. CASE d = c
    <3>1. /\ tail'[c] = tail[c] + 1
          /\ \A i \in 0 .. Ring - 1 :
               slots'[c][i] = IF i = tail[c] % Ring THEN slot ELSE slots[c][i]
      BY <1>1, <1>2, <1>3 DEF BInv, TypeOK
    <3>2. slot.nth = tail[c] + 1 /\ slot.msg = tail[c] + 1
      BY <1>1 DEF slot
    <3>3. ASSUME NEW i \in 0 .. Ring - 1
          PROVE  /\ slots'[c][i].nth <= tail'[c]
                 /\ slots'[c][i].nth # 0 => slots'[c][i].msg = slots'[c][i].nth
      <4>1. slots[c][i] \in Slot /\ slots[c][i].nth \in Nat
        BY <1>1 DEF BInv, TypeOK, Slot
      <4> QED BY <1>1, <3>1, <3>2, <4>1 DEF BInv, Retained
    <3>4. ASSUME NEW p \in Nat, p < tail'[c], tail'[c] <= p + Ring
          PROVE  slots'[c][p % Ring].nth = p + 1
      <4>1. CASE p = tail[c]
        BY <1>3, <3>1, <3>2, <4>1
      <4>2. CASE p # tail[c]
        <5>1. p < tail[c] /\ tail[c] < p + Ring
          BY <1>1, <3>1, <3>4, <4>2, RingPositive
        <5>2. p % Ring # tail[c] % Ring /\ p % Ring \in 0 .. Ring - 1
          BY <1>1, <5>1, SlotsDiffer, SlotOf
        <5> QED BY <1>1, <3>1, <5>1, <5>2, RingPositive DEF BInv, Retained
      <4> QED BY <4>1, <4>2
    <3> QED BY <2>2, <3>3, <3>4
  <2> QED BY <2>1, <2>2
<1>8. \A r \in Socket : HubOf[r] \in Hub /\ cast[HubOf[r]] \in Nat
                         /\ cast'[HubOf[r]] >= cast[HubOf[r]]
                         /\ cast'[HubOf[r]] \in Nat
  <2> SUFFICES ASSUME NEW g \in Hub
               PROVE  cast[g] \in Nat /\ cast'[g] >= cast[g] /\ cast'[g] \in Nat
    BY BroadcastAssumption
  <2>1. cast[g] \in Nat /\ cast'[g] = IF g = h THEN cast[g] + 1 ELSE cast[g]
    BY <1>1, <1>2 DEF BInv, TypeOK
  <2> QED BY <2>1
<1>9. Since'
  BY <1>2, <1>8 DEF BInv, TypeOK, Since
<1>10. LosesOnlyOverrun'
  <2> SUFFICES ASSUME NEW r \in Socket, stage[r] = "serving",
                      NEW m \in since[r] + 1 .. next[r]
               PROVE  \/ \E i \in 1 .. Len(got[r]) : got[r][i] = m
                      \/ cast'[HubOf[r]] >= m + Capacity
    BY <1>2 DEF LosesOnlyOverrun, Received
  <2>1. m \in Int
    BY DEF BInv, TypeOK
  <2>2. \/ \E i \in 1 .. Len(got[r]) : got[r][i] = m
        \/ cast[HubOf[r]] >= m + Capacity
    BY DEF BInv, LosesOnlyOverrun, Received
  <2> QED BY <1>8, <2>1, <2>2, BroadcastAssumption
<1> QED BY <1>4, <1>5, <1>6, <1>7, <1>9, <1>10 DEF BInv

LEMMA ReceiveBInv ==
  ASSUME BInv, NEW s \in Socket, Receive(s)
  PROVE  BInv'
<1>1. /\ stage[s] = "serving" /\ clients[s] \in Socket
      /\ next[s] \in Nat
      /\ next[s] + 1 <= tail[clients[s]] /\ tail[clients[s]] \in Nat
      /\ next' = [next EXCEPT ![s] = @ + 1]
      /\ got' = [got EXCEPT ![s] = Append(@, next[s] + 1)]
      /\ UNCHANGED <<registry, clients, stage, slots, tail, cast, since>>
  BY ReceiveFacts, Channel DEF Receive, BInv, TypeOK
<1>2. got[s] \in Seq(Nat)
  BY DEF BInv, TypeOK
<1>3. TypeOK'
  <2>1. next' \in [Socket -> Nat]
    BY <1>1 DEF BInv, TypeOK
  <2>2. Append(got[s], next[s] + 1) \in Seq(Nat)
    BY <1>1, <1>2
  <2>3. got' \in [Socket -> Seq(Nat)]
    BY <1>1, <2>2 DEF BInv, TypeOK
  <2>4. \A r \in listening : next'[r] <= tail[clients[r]]
    BY <1>1 DEF BInv, TypeOK, listening
  <2> QED BY <1>1, <2>1, <2>3, <2>4 DEF BInv, TypeOK, listening
<1>4. Shared' /\ Counted' /\ Retained' /\ Since'
  BY <1>1 DEF BInv, Shared, Counted, Retained, Since
<1>5. ASSUME NEW t \in Socket, stage'[t] = "serving",
             NEW m \in since'[t] + 1 .. next'[t]
      PROVE  \/ \E i \in 1 .. Len(got'[t]) : got'[t][i] = m
             \/ cast'[HubOf[t]] >= m + Capacity
  <2>1. CASE t = s /\ m = next[s] + 1
    <3>1. got'[s] = Append(got[s], m)
      BY <1>1, <2>1 DEF BInv, TypeOK
    <3>2. Len(got'[s]) \in 1 .. Len(got'[s]) /\ got'[s][Len(got'[s])] = m
      BY <1>2, <2>1, <1>1, <3>1
    <3> QED BY <2>1, <3>2
  <2>2. CASE t = s /\ m # next[s] + 1
    <3>1. m \in since[s] + 1 .. next[s]
      BY <1>1, <1>5, <2>2 DEF BInv, TypeOK
    <3>2. CASE cast[HubOf[s]] >= m + Capacity
      BY <1>1, <2>2, <3>2
    <3>3. CASE \E i \in 1 .. Len(got[s]) : got[s][i] = m
      <4>1. PICK i \in 1 .. Len(got[s]) : got[s][i] = m
        BY <3>3
      <4>2. got'[s] = Append(got[s], next[s] + 1)
        BY <1>1 DEF BInv, TypeOK
      <4>3. i \in 1 .. Len(got'[s]) /\ got'[s][i] = m
        BY <1>1, <1>2, <4>1, <4>2
      <4> QED BY <2>2, <4>3
    <3> QED BY <1>1, <3>1, <3>2, <3>3 DEF BInv, LosesOnlyOverrun, Received
  <2>3. CASE t # s
    BY <1>1, <1>5, <2>3 DEF BInv, TypeOK, LosesOnlyOverrun, Received
  <2> QED BY <2>1, <2>2, <2>3
<1> QED BY <1>3, <1>4, <1>5 DEF BInv, LosesOnlyOverrun, Received

LEMMA LagBInv ==
  ASSUME BInv, NEW s \in Socket, Lag(s)
  PROVE  BInv'
<1>1. /\ stage[s] = "serving" /\ clients[s] \in Socket
      /\ next[s] \in Nat
      /\ cast[HubOf[s]] \in Nat /\ tail[clients[s]] = cast[HubOf[s]]
      /\ next[s] + Ring < cast[HubOf[s]]
      /\ next' = [next EXCEPT ![s] = cast[HubOf[s]] - Ring]
      /\ UNCHANGED <<registry, clients, stage, slots, tail, cast, since, got>>
  BY LagFacts, Channel DEF Lag, Overrun
<1>2. cast[HubOf[s]] - Ring \in Nat /\ cast[HubOf[s]] - Ring <= tail[clients[s]]
  BY <1>1, RingPositive
<1>3. TypeOK'
  BY <1>1, <1>2 DEF BInv, TypeOK, listening
<1>4. Shared' /\ Counted' /\ Retained' /\ Since'
  BY <1>1 DEF BInv, Shared, Counted, Retained, Since
<1>5. ASSUME NEW t \in Socket, stage'[t] = "serving",
             NEW m \in since'[t] + 1 .. next'[t]
      PROVE  \/ \E i \in 1 .. Len(got'[t]) : got'[t][i] = m
             \/ cast'[HubOf[t]] >= m + Capacity
  <2>1. CASE t = s /\ m > next[s]
    <3>1. since[s] \in Nat /\ m \in since[s] + 1 .. cast[HubOf[s]] - Ring
      BY <1>1, <1>2, <1>5, <2>1 DEF BInv, TypeOK
    <3>2. cast'[HubOf[t]] = cast[HubOf[s]]
      BY <1>1, <2>1
    <3> QED BY <1>1, <3>1, <3>2, RingPositive, BroadcastAssumption
  <2>2. CASE t = s /\ ~(m > next[s])
    <3>1. m \in since[s] + 1 .. next[s]
      BY <1>1, <1>2, <1>5, <2>2 DEF BInv, TypeOK
    <3> QED BY <1>1, <2>2, <3>1 DEF BInv, LosesOnlyOverrun, Received
  <2>3. CASE t # s
    BY <1>1, <1>5, <2>3 DEF BInv, TypeOK, LosesOnlyOverrun, Received
  <2> QED BY <2>1, <2>2, <2>3
<1> QED BY <1>3, <1>4, <1>5 DEF BInv, LosesOnlyOverrun, Received

LEMMA NextBInv == BInv /\ [Next]_vars => BInv'
<1> SUFFICES ASSUME BInv, [Next]_vars PROVE BInv'
  OBVIOUS
<1>1. CASE UNCHANGED vars
  BY <1>1 DEF vars, BInv, TypeOK, Shared, Counted, Retained, Since,
              LosesOnlyOverrun, Received, listening
<1>2. CASE Next
  BY <1>2, GetClientsBInv, SubscribeBInv, ServeBInv, LeaveBInv, SendBInv,
     ReceiveBInv, LagBInv DEF Next
<1> QED BY <1>1, <1>2

LEMMA BInvHolds == Spec => []BInv
<1>1. Spec => BInv /\ [][Next]_vars
  BY InitBInv DEF Spec
<1> QED BY <1>1, NextBInv, PTL

-----------------------------------------------------------------------------
(* Theorems                                                                *)

\* Registries, rings and positions keep their types; no receiver is ahead of
\* its channel.
THEOREM BroadcastTypeCorrect == Spec => []TypeOK
<1>1. BInv => TypeOK
  BY DEF BInv
<1> QED BY <1>1, BInvHolds, PTL

\* Sockets share a registry exactly if they are of one hub type.
THEOREM OneRegistryHolds == Spec => []OneRegistry
<1>1. BInv => OneRegistry
  BY Channel DEF OneRegistry
<1> QED BY <1>1, BInvHolds, PTL

\* A registered socket loses only messages that have been overrun themselves, for
\* every capacity and size of the ring: a lag resumes at the oldest message that
\* is still there.
THEOREM LosesOnlyOverrunHolds == Spec => []LosesOnlyOverrun
<1>1. BInv => LosesOnlyOverrun
  BY DEF BInv
<1> QED BY <1>1, BInvHolds, PTL

\* A registered socket loses messages only by falling behind by more than the
\* capacity (hub.rs:40).
THEOREM LosesOnlyBehindHolds == Spec => []LosesOnlyBehind
<1>1. BInv => LosesOnlyBehind
  <2> SUFFICES ASSUME BInv, NEW s \in Socket, stage[s] = "serving",
                      NEW m \in since[s] + 1 .. next[s], ~Received(s, m)
               PROVE  \E k \in since[s] + 1 .. m :
                        /\ \A l \in k .. m : ~Received(s, l)
                        /\ cast[HubOf[s]] >= k + Capacity
    BY DEF LosesOnlyBehind
  <2>1. cast[HubOf[s]] >= m + Capacity
    BY DEF BInv, LosesOnlyOverrun
  <2>2. m \in since[s] + 1 .. m /\ m .. m = {m}
    BY DEF BInv, TypeOK
  <2> WITNESS m \in since[s] + 1 .. m
  <2> QED BY <2>1, <2>2
<1> QED BY <1>1, BInvHolds, PTL

LEMMA StepRefines == BInv /\ [Next]_vars => [Fifo!Next]_Fifo!vars
<1> SUFFICES ASSUME BInv, [Next]_vars PROVE [Fifo!Next]_Fifo!vars
  OBVIOUS
<1> USE DEF Fifo!vars
<1>1. CASE UNCHANGED vars
  BY <1>1 DEF vars, listening
<1>2. ASSUME NEW s \in Socket, GetClients(s)
      PROVE  UNCHANGED Fifo!vars
  BY <1>2 DEF GetClients, Advance, listening, BInv, TypeOK
<1>3. ASSUME NEW s \in Socket, Subscribe(s)
      PROVE  Fifo!Join(s)
  <2>1. cast[HubOf[s]] = tail[clients[s]] /\ s \notin listening
    BY <1>3, Channel DEF Subscribe, Advance, listening
  <2>2. listening' = listening \cup {s}
    BY <1>3 DEF Subscribe, Advance, listening, BInv, TypeOK
  <2> QED BY <1>3, <2>1, <2>2 DEF Subscribe, Fifo!Join
<1>4. ASSUME NEW s \in Socket, Serve(s)
      PROVE  UNCHANGED Fifo!vars
  BY <1>4 DEF Serve, Advance, listening, BInv, TypeOK
<1>5. ASSUME NEW s \in Socket, Leave(s)
      PROVE  Fifo!Leave(s)
  <2>1. s \in listening /\ listening' = listening \ {s}
    BY <1>5 DEF Leave, Advance, listening, BInv, TypeOK
  <2> QED BY <1>5, <2>1 DEF Leave, Fifo!Leave
<1>6. ASSUME NEW s \in Socket, Send(s)
      PROVE  HubOf[s] \in Hub /\ Fifo!Cast(HubOf[s])
  <2>1. listening' = listening
    BY <1>6 DEF Send, listening
  <2> QED BY <1>6, <2>1, BroadcastAssumption DEF Send, Fifo!Cast
<1>7. ASSUME NEW s \in Socket, Receive(s)
      PROVE  Fifo!Receive(s)
  <2>1. next[s] + 1 \in next[s] + 1 .. cast[HubOf[s]]
    <3>1. HubOf[s] \in Hub /\ cast[HubOf[s]] \in Nat
      BY BroadcastAssumption DEF BInv, TypeOK
    <3> QED BY <1>7, <3>1, ReceiveFacts
  <2>2. s \in listening /\ listening' = listening
    BY <1>7 DEF Receive, listening
  <2>3. /\ next' = [next EXCEPT ![s] = next[s] + 1]
        /\ got' = [got EXCEPT ![s] = Append(@, next[s] + 1)]
    BY <1>7, ReceiveFacts DEF Receive
  <2> QED BY <1>7, <2>1, <2>2, <2>3 DEF Receive, Fifo!Receive
<1>8. ASSUME NEW s \in Socket, Lag(s)
      PROVE  Fifo!Lose(s)
  <2>1. tail[clients[s]] - Ring \in next[s] + 1 .. cast[HubOf[s]]
    BY <1>8, LagFacts, RingPositive
  <2>2. s \in listening /\ listening' = listening
    BY <1>8 DEF Lag, Overrun, listening
  <2> QED BY <1>8, <2>1, <2>2 DEF Lag, Fifo!Lose
<1>9. CASE Next
  BY <1>9, <1>2, <1>3, <1>4, <1>5, <1>6, <1>7, <1>8 DEF Next, Fifo!Next
<1> QED BY <1>1, <1>9

\* The registries and rings together implement one lossy FIFO channel for each
\* hub type.
THEOREM BroadcastImplementsFifo == Spec => ImplementsFifo
<1>1. Init => Fifo!Init
  BY DEF Init, Fifo!Init, listening
<1> QED BY <1>1, BInvHolds, StepRefines, PTL DEF Spec, ImplementsFifo, Fifo!Spec

FifoFacts == INSTANCE LossyFifoProofs

\* What LossyFifo entails holds of the sockets, because they implement it: each
\* receives a subsequence of what was sent to its hub.
THEOREM BroadcastReceivesInOrder == Spec => []ReceivesInOrder
<1>1. HubOf \in [Socket -> Hub]
  BY BroadcastAssumption
<1>2. FifoFacts!Spec => []FifoFacts!ReceivesInOrder
  BY <1>1, FifoFacts!ReceivesInOrderHolds
<1>3. Fifo!Init => FifoFacts!Init
  BY DEF Fifo!Init, FifoFacts!Init
<1>4. [Fifo!Next]_Fifo!vars => [FifoFacts!Next]_FifoFacts!vars
  BY DEF Fifo!Next, Fifo!vars, Fifo!Join, Fifo!Cast, Fifo!Receive, Fifo!Lose, Fifo!Leave,
         FifoFacts!Next, FifoFacts!vars, FifoFacts!Join, FifoFacts!Cast,
         FifoFacts!Receive, FifoFacts!Lose, FifoFacts!Leave
<1>5. FifoFacts!ReceivesInOrder => ReceivesInOrder
  BY DEF FifoFacts!ReceivesInOrder, ReceivesInOrder, Fifo!ReceivesInOrder
<1> QED
  BY <1>2, <1>3, <1>4, <1>5, BroadcastImplementsFifo, PTL
     DEF ImplementsFifo, Fifo!Spec, FifoFacts!Spec
=============================================================================
