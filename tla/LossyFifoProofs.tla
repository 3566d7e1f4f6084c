-------------------------- MODULE LossyFifoProofs ---------------------------
(***************************************************************************)
(* What the specification LossyFifo gives a socket, for any numbers of     *)
(* hubs and sockets: what it receives is a subsequence of what was sent.   *)
(***************************************************************************)
EXTENDS LossyFifo, TLAPS

\* A socket's position is past everything that it has received.
Passed ==
  \A s \in Socket :
    /\ next[s] <= cast[HubOf[s]]
    /\ \A i \in 1 .. Len(got[s]) : got[s][i] <= next[s]

Inv == TypeOK /\ Passed /\ ReceivesInOrder

LEMMA InvInit == HubOf \in [Socket -> Hub] /\ Init => Inv
BY DEF Init, Inv, TypeOK, Passed, ReceivesInOrder

LEMMA Typed ==
  ASSUME Inv, NEW s \in Socket
  PROVE  /\ HubOf[s] \in Hub /\ cast[HubOf[s]] \in Nat
         /\ next[s] \in Nat /\ got[s] \in Seq(Nat) /\ Len(got[s]) \in Nat
         /\ next[s] <= cast[HubOf[s]]
         /\ \A i \in 1 .. Len(got[s]) : got[s][i] \in Nat
<1>1. /\ HubOf[s] \in Hub /\ cast[HubOf[s]] \in Nat
      /\ next[s] \in Nat /\ got[s] \in Seq(Nat) /\ next[s] <= cast[HubOf[s]]
  BY DEF Inv, TypeOK, Passed
<1> QED BY <1>1

LEMMA CastInv == ASSUME Inv, NEW h \in Hub, Cast(h) PROVE Inv'
<1>1. TypeOK'
  BY DEF Inv, TypeOK, Cast
<1>2. \A s \in Socket : cast'[HubOf[s]] \in Nat /\ cast'[HubOf[s]] >= cast[HubOf[s]]
  BY Typed DEF Cast, Inv, TypeOK
<1>3. Passed'
  BY <1>2, Typed DEF Inv, Passed, Cast
<1>4. ReceivesInOrder'
  BY <1>2, Typed DEF Inv, ReceivesInOrder, Cast
<1> QED BY <1>1, <1>3, <1>4 DEF Inv

LEMMA JoinLeaveInv == ASSUME Inv, NEW s \in Socket, Join(s) \/ Leave(s) PROVE Inv'
<1>1. TypeOK'
  BY Typed DEF Inv, TypeOK, Join, Leave
<1>2. ReceivesInOrder'
  BY DEF Inv, ReceivesInOrder, Join, Leave
<1>3. \A r \in Socket : next'[r] \in {next[r], cast[HubOf[r]]}
  BY DEF Inv, TypeOK, Join, Leave
<1>4. Passed'
  <2> SUFFICES ASSUME NEW r \in Socket
               PROVE  /\ next'[r] <= cast[HubOf[r]]
                      /\ \A i \in 1 .. Len(got[r]) : got[r][i] <= next'[r]
    BY DEF Passed, Join, Leave
  <2>1. next[r] <= next'[r] /\ next'[r] <= cast[HubOf[r]]
    BY <1>3, Typed
  <2> QED BY <1>3, <2>1, Typed DEF Inv, Passed
<1> QED BY <1>1, <1>2, <1>4 DEF Inv

LEMMA ReceiveLoseInv == ASSUME Inv, NEW s \in Socket, Receive(s) \/ Lose(s) PROVE Inv'
<1>1. PICK m \in next[s] + 1 .. cast[HubOf[s]] :
        /\ next' = [next EXCEPT ![s] = m]
        /\ got' = [got EXCEPT ![s] = Append(@, m)] \/ got' = got
  BY DEF Receive, Lose
<1>2. cast' = cast /\ listening' = listening /\ m \in Nat
  BY <1>1, Typed DEF Receive, Lose
<1>3. TypeOK'
  <2>1. next' \in [Socket -> Nat]
    BY <1>1, <1>2 DEF Inv, TypeOK
  <2>2. got' \in [Socket -> Seq(Nat)]
    <3>1. Append(got[s], m) \in Seq(Nat)
      BY <1>2, Typed
    <3> QED BY <1>1, <3>1 DEF Inv, TypeOK
  <2> QED BY <1>2, <2>1, <2>2 DEF Inv, TypeOK
<1>4. \A r \in Socket \ {s} : next'[r] = next[r] /\ got'[r] = got[r]
  BY <1>1 DEF Inv, TypeOK
<1>5. next'[s] = m /\ (got'[s] = Append(got[s], m) \/ got'[s] = got[s])
  BY <1>1 DEF Inv, TypeOK
<1>6. /\ m \in 1 .. cast[HubOf[s]] /\ next[s] < m
      /\ \A i \in 1 .. Len(got[s]) : got[s][i] <= next[s] /\ got[s][i] < m
  BY <1>1, Typed DEF Inv, Passed
<1>7. ASSUME NEW j \in 1 .. Len(got'[s])
      PROVE  /\ got'[s][j] <= m
             /\ got'[s][j] \in 1 .. cast[HubOf[s]]
             /\ \A i \in 1 .. j - 1 : got'[s][i] < got'[s][j]
  <2>1. CASE got'[s] = got[s]
    BY <1>6, <1>7, <2>1, <1>2, Typed DEF Inv, ReceivesInOrder
  <2>2. CASE got'[s] = Append(got[s], m)
    <3>1. /\ Len(got'[s]) = Len(got[s]) + 1 /\ got'[s][Len(got[s]) + 1] = m
          /\ \A i \in 1 .. Len(got[s]) : got'[s][i] = got[s][i]
      BY <2>2, Typed, <1>2
    <3>2. CASE j = Len(got[s]) + 1
      <4>1. got'[s][j] = m /\ 1 .. j - 1 = 1 .. Len(got[s])
        BY <3>1, <3>2, Typed
      <4> QED BY <1>2, <1>6, <3>1, <4>1
    <3>3. CASE j \in 1 .. Len(got[s])
      <4>1. /\ got[s][j] \in 1 .. cast[HubOf[s]] /\ got[s][j] < m
            /\ \A i \in 1 .. j - 1 : got[s][i] < got[s][j]
        BY <1>6, <3>3 DEF Inv, ReceivesInOrder
      <4>2. \A i \in 1 .. j - 1 : i \in 1 .. Len(got[s])
        BY <3>3, Typed
      <4>3. got'[s][j] = got[s][j] /\ \A i \in 1 .. j - 1 : got'[s][i] = got[s][i]
        BY <3>1, <3>3, <4>2
      <4> QED BY <1>2, <4>1, <4>3
    <3> QED BY <1>7, <3>1, <3>2, <3>3, Typed
  <2> QED BY <1>5, <2>1, <2>2
<1>8. Passed'
  <2>1. /\ next'[s] <= cast'[HubOf[s]]
        /\ \A i \in 1 .. Len(got'[s]) : got'[s][i] <= next'[s]
    BY <1>2, <1>5, <1>6, <1>7
  <2> QED BY <1>2, <1>4, <2>1 DEF Inv, Passed
<1>9. ReceivesInOrder'
  BY <1>2, <1>4, <1>7 DEF Inv, ReceivesInOrder
<1> QED BY <1>3, <1>8, <1>9 DEF Inv

LEMMA InvStep == Inv /\ [Next]_vars => Inv'
<1> SUFFICES ASSUME Inv, [Next]_vars PROVE Inv'
  OBVIOUS
<1>1. CASE UNCHANGED vars
  BY <1>1 DEF vars, Inv, TypeOK, Passed, ReceivesInOrder
<1>2. CASE Next
  BY <1>2, CastInv, JoinLeaveInv, ReceiveLoseInv DEF Next
<1> QED BY <1>1, <1>2

\* Whoever is promised a lossy FIFO channel receives a subsequence of what its
\* hub was sent.
THEOREM ReceivesInOrderHolds ==
  ASSUME HubOf \in [Socket -> Hub]
  PROVE  Spec => []ReceivesInOrder
<1>1. Inv => ReceivesInOrder
  BY DEF Inv
<1> QED BY <1>1, InvInit, InvStep, PTL DEF Spec
=============================================================================
