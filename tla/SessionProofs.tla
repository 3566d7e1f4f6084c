--------------------------- MODULE SessionProofs ---------------------------
(***************************************************************************)
(* Theorems about Session, for every set of connections and handlers,      *)
(* every queue capacity, and peers that may stall.                         *)
(***************************************************************************)
EXTENDS Session, TLAPS

\* A step of one connection, as Next lists them.
StepOf(c) ==
  \/ ServeStep(c) \/ ReadStep(c) \/ WriterStep(c) \/ PeerStep(c)
  \/ LoopCancelled(c) \/ IdleTimeout(c) \/ Tick(c)
  \/ SendControl(c) \/ SendControlFails(c)
  \/ Enqueue(c) \/ Evict(c) \/ EvictCancel(c)
  \/ RemoveWaits(c) \/ ShardFreed(c)
  \/ \E h \in Handler : HandlerStep(c, h)

-----------------------------------------------------------------------------
(* The inductive invariant                                                 *)

\* The serve task has fired the token itself.
Ending == {"removing", "blocked", "joining", "disconnecting", "done"}

\* The teardown, step by step, and the birth of the writer.
Progress ==
  \A c \in Conn :
    /\ serve[c] \in Ending => c \in cancelled
    /\ serve[c] \in {"joining", "disconnecting", "done"} => c \notin registered
    /\ serve[c] \in {"disconnecting", "done"} => writer[c] = "exited"
    /\ writer[c] = "none" <=> serve[c] \in {"fresh", "spawning"}
    /\ serve[c] = "fresh" => c \notin registered \cup cancelled \cup evicting

\* Who is evicted, or cancelled by an evictor, has been unregistered.
Unlisted ==
  \A c \in Conn :
    /\ c \in evicting => c \notin registered
    /\ c \in cancelled => c \notin registered \/ serve[c] \in Ending

\* Writes to a lost peer fail at once.
Reading == \A c \in stalled : peer[c] # "gone"

Inv == TypeOK /\ Progress /\ Unlisted /\ Reading /\ NoZombie /\ NotMute

LEMMA InvInit == Init => Inv
  BY SessionAssumption
  DEF Init, Inv, TypeOK, Progress, Unlisted, Reading, Ending, NoZombie, NotMute, InLoop

\* Each step of the serve task, the writer, a handler, an evictor or the peer
\* keeps the invariant.
LEMMA InvStep ==
  ASSUME Inv, NEW c \in Conn, StepOf(c)
  PROVE  Inv'
<1> USE SessionAssumption
    DEF Inv, TypeOK, Progress, Unlisted, Reading, Ending, NoZombie, NotMute, InLoop,
        ServeGoto, WriterGoto, Read, Frames, socket, handlers, registry
<1>1. CASE Register(c)
  BY <1>1 DEF Register
<1>2. CASE SpawnWriter(c)
  BY <1>2 DEF SpawnWriter
<1>3. CASE OnConnectReturns(c)
  BY <1>3 DEF OnConnectReturns
<1>4. CASE Cancel(c)
  BY <1>4 DEF Cancel
<1>5. CASE Remove(c)
  BY <1>5 DEF Remove
<1>6. CASE JoinWriter(c)
  BY <1>6 DEF JoinWriter
<1>7. CASE OnDisconnectReturns(c)
  BY <1>7 DEF OnDisconnectReturns
<1>8. CASE HandleOther(c)
  BY <1>8 DEF HandleOther
<1>9. CASE HandlePing(c)
  BY <1>9 DEF HandlePing
<1>10. CASE HandleClose(c)
  BY <1>10 DEF HandleClose
<1>11. CASE StreamEnds(c)
  BY <1>11 DEF StreamEnds
<1>12. CASE IdleTimeout(c)
  BY <1>12 DEF IdleTimeout
<1>13. CASE LoopCancelled(c)
  BY <1>13 DEF LoopCancelled
<1>14. CASE Tick(c)
  BY <1>14 DEF Tick
<1>15. CASE SendControl(c)
  BY <1>15 DEF SendControl
<1>16. CASE SendControlFails(c)
  BY <1>16 DEF SendControlFails
<1>17. CASE WriterReceives(c)
  BY <1>17 DEF WriterReceives
<1>18. CASE WriterReceivesBroadcast(c)
  BY <1>18 DEF WriterReceivesBroadcast
<1>19. CASE WriterSends(c)
  BY <1>19 DEF WriterSends
<1>20. CASE WriterFails(c)
  BY <1>20 DEF WriterFails
<1>21. CASE WriterCancelled(c)
  BY <1>21 DEF WriterCancelled
<1>22. CASE Enqueue(c)
  BY <1>22 DEF Enqueue
<1>23. CASE Evict(c)
  BY <1>23 DEF Evict
<1>24. CASE EvictCancel(c)
  BY <1>24 DEF EvictCancel
<1>25. CASE PeerStalls(c)
  BY <1>25 DEF PeerStalls
<1>26. CASE PeerResumes(c)
  BY <1>26 DEF PeerResumes
<1>27. CASE PeerVanishes(c)
  BY <1>27 DEF PeerVanishes
<1>28. CASE \E h \in Handler : HandleData(c, h)
  BY <1>28 DEF HandleData
<1>29. CASE \E h \in Handler : HandlerStep(c, h)
  BY <1>29 DEF HandlerStep, StartHandler, DropHandler, EndHandler
<1>30. CASE \E kind \in Frames : PeerSends(c, kind)
  BY <1>30 DEF PeerSends
<1>31. CASE RemoveWaits(c)
  BY <1>31 DEF RemoveWaits
<1>32. CASE ShardFreed(c)
  BY <1>32 DEF ShardFreed
<1> QED
  BY <1>1, <1>2, <1>3, <1>4, <1>5, <1>6, <1>7, <1>8, <1>9, <1>10, <1>11,
     <1>12, <1>13, <1>14, <1>15, <1>16, <1>17, <1>18, <1>19, <1>20, <1>21,
     <1>22, <1>23, <1>24, <1>25, <1>26, <1>27, <1>28, <1>29, <1>30, <1>31, <1>32
  DEF StepOf, ServeStep, ReadStep, WriterStep, PeerStep

LEMMA InvNext == Inv /\ [Next]_vars => Inv'
<1>1. ASSUME Inv, NEW c \in Conn, StepOf(c) PROVE Inv'
  BY <1>1, InvStep
<1>2. Inv /\ UNCHANGED vars => Inv'
  BY DEF vars, socket, handlers, registry, Inv, TypeOK, Progress, Unlisted, Reading,
         NoZombie, NotMute
<1> QED
  BY <1>1, <1>2 DEF Next, StepOf

LEMMA Invariance == Spec => []Inv
  BY InvInit, InvNext, PTL DEF Spec

\* The state keeps its types; in particular no queue exceeds its capacity.
THEOREM SessionTypeCorrect == Spec => []TypeOK
  BY Invariance, PTL DEF Inv

\* on_disconnect begins only when the writer has exited, the registry has
\* forgotten the connection and its token has fired.
THEOREM TornDownHolds == Spec => []TornDown
<1>1. Inv => TornDown
  BY DEF Inv, Progress, Ending, TornDown
<1> QED
  BY <1>1, Invariance, PTL

\* No connection is served for ever out of everybody's reach.
THEOREM NoZombieHolds == Spec => []NoZombie
  BY Invariance, PTL DEF Inv

\* A served connection that has lost its writer is about to end.
THEOREM NotMuteHolds == Spec => []NotMute
  BY Invariance, PTL DEF Inv

\* The serve task and its writer never wait for each other; what is left is the
\* wait for a peer that does not read.
THEOREM NoWaitCycleHolds == Spec => []NoWaitCycle
<1>1. Inv => NoWaitCycle
  BY SessionAssumption
  DEF Inv, TypeOK, Progress, Ending, NoWaitCycle, AwaitsWriter
<1> QED
  BY <1>1, Invariance, PTL

-----------------------------------------------------------------------------
(* Why a cancelled connection ends                                         *)

\* What must hold for a step of the serve task that waits for nothing from
\* outside (on_connect and on_disconnect are the hub's, and return), and for a
\* step of the writer.
ServeMoves(c) ==
  \/ serve[c] \in {"fresh", "spawning", "connecting",
                   "cancelling", "removing", "disconnecting"}
  \/ serve[c] = "reading" /\ c \in cancelled
  \/ serve[c] \in {"pinging", "ponging"} /\ (writer[c] = "exited" \/ queued[c] < Cap)
  \/ serve[c] = "joining" /\ writer[c] = "exited"

WriterMoves(c) ==
  \/ writer[c] = "waiting" /\ (queued[c] > 0 \/ c \in cancelled)
  \/ writer[c] = "sending" /\ c \notin stalled

LEMMA MovesAreGuards ==
  ASSUME TypeOK, NEW c \in Conn
  PROVE  /\ \/ ServeStep(c) \/ LoopCancelled(c)
            \/ SendControl(c) \/ SendControlFails(c) => ServeMoves(c)
         /\ \/ WriterReceives(c) \/ WriterCancelled(c)
            \/ SendEnds(c) => WriterMoves(c)
  BY SessionAssumption
  DEF TypeOK, ServeMoves, WriterMoves, ServeStep, ServeGoto, WriterGoto, Register,
      SpawnWriter, OnConnectReturns, Cancel, Remove, JoinWriter,
      OnDisconnectReturns, LoopCancelled, SendControl, SendControlFails,
      WriterReceives, WriterCancelled, SendEnds, WriterSends, WriterFails

\* The two waits that no token and no task of the connection can end: that of its
\* removal for a shard that a fan-out holds (serve.rs:128, clients.rs:459), and
\* that of its writer for a peer that does not read (serve.rs:152, 156), where
\* the serve task waits for the writer (serve.rs:129, 217).
AwaitsFanOut(c) == serve[c] = "blocked"
AwaitsPeer(c) == AwaitsWriter(c) /\ writer[c] = "sending" /\ c \in stalled

\* A connection whose token has fired is nowhere stuck short of its end but in
\* these two waits: wherever else it is, its serve task can go on, or the writer
\* it waits for can.  (Callbacks are assumed to return, a thread to be left.)
CancelledGoesOn ==
  \A c \in cancelled : serve[c] # "done" =>
    \/ ServeMoves(c)
    \/ AwaitsWriter(c) /\ WriterMoves(c)
    \/ AwaitsFanOut(c) \/ AwaitsPeer(c)

\* A cancelled connection waits for a fan-out, for a stalled peer, or for nobody.
THEOREM CancelledGoesOnHolds == Spec => []CancelledGoesOn
<1>1. Inv => CancelledGoesOn
  BY SessionAssumption
  DEF Inv, TypeOK, Progress, Ending, InLoop, CancelledGoesOn, ServeMoves, WriterMoves,
      AwaitsWriter, AwaitsFanOut, AwaitsPeer
<1> QED
  BY <1>1, Invariance, PTL

-----------------------------------------------------------------------------
(* Why a connection ends whose peer has left                               *)

\* The Close that a peer has sent stays in the socket for as long as the
\* connection is served: reading it ends the loop.
CloseUnread ==
  \A c \in Conn :
    peer[c] = "closed" /\ serve[c] \in {"fresh", "spawning", "connecting"} \cup InLoop
      => inbox[c] = "close"

LEMMA CloseUnreadStep ==
  ASSUME TypeOK, CloseUnread, NEW c \in Conn, StepOf(c)
  PROVE  CloseUnread'
<1> USE DEF TypeOK, CloseUnread, InLoop, ServeGoto, WriterGoto, Read, socket
<1>1. CASE ServeStep(c) \/ LoopCancelled(c) \/ IdleTimeout(c) \/ Tick(c)
           \/ SendControl(c) \/ SendControlFails(c) \/ RemoveWaits(c) \/ ShardFreed(c)
  <2>1. /\ UNCHANGED <<inbox, peer>>
        /\ \A d \in Conn :
             serve'[d] \in {"fresh", "spawning", "connecting"} \cup InLoop
               => serve[d] \in {"fresh", "spawning", "connecting"} \cup InLoop
    BY <1>1 DEF ServeStep, Register, SpawnWriter, OnConnectReturns, Cancel, Remove,
                JoinWriter, OnDisconnectReturns, LoopCancelled, IdleTimeout, Tick,
                SendControl, SendControlFails, RemoveWaits, ShardFreed
  <2> QED
    BY <2>1
<1>2. CASE \E h \in Handler : HandleData(c, h)
  BY <1>2 DEF HandleData
<1>3. CASE HandleOther(c) \/ HandlePing(c)
  BY <1>3 DEF HandleOther, HandlePing
<1>4. CASE HandleClose(c) \/ StreamEnds(c)
  BY <1>4 DEF HandleClose, StreamEnds
<1>5. CASE WriterStep(c) \/ Enqueue(c) \/ Evict(c) \/ EvictCancel(c)
           \/ \E h \in Handler : HandlerStep(c, h)
  <2>1. UNCHANGED <<serve, inbox, peer>>
    BY <1>5 DEF WriterStep, WriterReceives, WriterReceivesBroadcast, WriterSends,
                WriterFails, WriterCancelled, Enqueue, Evict, EvictCancel,
                HandlerStep, StartHandler, DropHandler, EndHandler
  <2> QED
    BY <2>1
<1>6. CASE \E kind \in Frames : PeerSends(c, kind)
  BY <1>6 DEF PeerSends
<1>7. CASE PeerStalls(c) \/ PeerResumes(c) \/ PeerVanishes(c)
  BY <1>7 DEF PeerStalls, PeerResumes, PeerVanishes
<1> QED
  BY <1>1, <1>2, <1>3, <1>4, <1>5, <1>6, <1>7 DEF StepOf, ReadStep, PeerStep

\* The loop has a frame, or the end of the stream, to read.
HasToRead(c) == serve[c] = "reading" /\ (inbox[c] # "none" \/ peer[c] = "gone")

\* A connection whose peer has closed or is lost is nowhere stuck short of its end
\* either, whether or not anybody cancels it, but in these two waits, the second
\* of them only for a peer that has sent a Close and does not read.  In the loop it
\* has the Close, or the end of the stream, to read, and a writer that it waits
\* for has a send that will end, something to receive, or the token to notice
\* (serve.rs:200-208, 217).
PeerEndGoesOn ==
  \A c \in Conn : peer[c] \in {"closed", "gone"} /\ serve[c] # "done" =>
    \/ ServeMoves(c)
    \/ HasToRead(c)
    \/ AwaitsWriter(c) /\ WriterMoves(c)
    \/ AwaitsFanOut(c)
    \/ AwaitsPeer(c) /\ peer[c] = "closed"

\* A connection whose peer has left waits for a fan-out, for a peer that has closed
\* without reading on, or for nobody.
THEOREM PeerEndGoesOnHolds == Spec => []PeerEndGoesOn
<1>1. Init => CloseUnread
  BY DEF Init, CloseUnread
<1>2. Inv /\ CloseUnread /\ [Next]_vars => CloseUnread'
  <2>1. ASSUME Inv, CloseUnread, NEW c \in Conn, StepOf(c) PROVE CloseUnread'
    BY <2>1, CloseUnreadStep DEF Inv
  <2>2. CloseUnread /\ UNCHANGED vars => CloseUnread'
    BY DEF vars, socket, CloseUnread
  <2> QED
    BY <2>1, <2>2 DEF Next, StepOf
<1>3. Inv /\ CloseUnread => PeerEndGoesOn
  BY SessionAssumption
  DEF Inv, TypeOK, Progress, Ending, Reading, InLoop, CloseUnread, PeerEndGoesOn,
      ServeMoves, HasToRead, WriterMoves, AwaitsWriter, AwaitsFanOut, AwaitsPeer
<1> QED
  BY <1>1, <1>2, <1>3, Invariance, PTL DEF Spec

-----------------------------------------------------------------------------
(* Session implements HubLifecycle                                         *)

LEMMA PhaseValues ==
  /\ PhaseOf("fresh") = "waiting" /\ PhaseOf("spawning") = "waiting"
  /\ PhaseOf("connecting") = "connecting"
  /\ \A step \in InLoop : PhaseOf(step) = "live"
  /\ \A step \in {"cancelling", "removing", "blocked", "joining"} :
       PhaseOf(step) = "ending"
  /\ PhaseOf("disconnecting") = "disconnecting" /\ PhaseOf("done") = "over"
  BY DEF PhaseOf, InLoop

LEMMA LifecycleInit == Init => Lifecycle!Init
  BY PhaseValues DEF Init, Lifecycle!Init

\* What a move of the serve task is to the hub.
LEMMA PhaseMove ==
  ASSUME Inv, NEW c \in Conn, NEW from, NEW to, ServeGoto(c, from, to)
  PROVE  /\ PhaseOf(serve[c]) = PhaseOf(from)
         /\ [d \in Conn |-> PhaseOf(serve'[d])]
              = [[d \in Conn |-> PhaseOf(serve[d])] EXCEPT ![c] = PhaseOf(to)]
  BY DEF Inv, TypeOK, ServeGoto

\* Every way out of the read loop ends the live phase.
LEMMA LoopEnds ==
  ASSUME Inv, NEW c \in Conn, NEW from \in InLoop,
         ServeGoto(c, from, "cancelling"),
         UNCHANGED <<writer, registered, spawned, running>>
  PROVE  Lifecycle!End(c)
  BY PhaseMove, PhaseValues DEF Lifecycle!End, Lifecycle!Move

\* Steps that the hub cannot see: the abstract state stutters.
LEMMA LifecycleStutter ==
  ASSUME Inv, \A c \in Conn : PhaseOf(serve'[c]) = PhaseOf(serve[c]),
         UNCHANGED <<registered, spawned, running>>,
         \A c \in Conn : writer'[c] \in {"waiting", "sending"}
                          <=> writer[c] \in {"waiting", "sending"}
  PROVE  UNCHANGED Lifecycle!vars
  BY DEF Lifecycle!vars

\* Every step of a connection is a step of its life cycle, or a stutter.
LEMMA LifecycleStep ==
  ASSUME Inv, NEW c \in Conn, StepOf(c)
  PROVE  [Lifecycle!Next]_Lifecycle!vars
<1> USE SessionAssumption
    DEF Inv, TypeOK, InLoop, WriterGoto, Read, socket, handlers, registry
<1>1. CASE Register(c)
  <2>1. Lifecycle!Reach(c)
    BY <1>1, PhaseMove, PhaseValues DEF Progress, ServeGoto, Register,
       Lifecycle!Reach
  <2> QED
    BY <2>1 DEF Lifecycle!Next
<1>2. CASE SpawnWriter(c)
  <2>1. Lifecycle!Wire(c)
    <3>1. ServeGoto(c, "spawning", "connecting") /\ UNCHANGED <<registered, handlers>>
      BY <1>2 DEF SpawnWriter
    <3>2. {d \in Conn : writer'[d] \in {"waiting", "sending"}}
            = {d \in Conn : writer[d] \in {"waiting", "sending"}} \cup {c}
      BY <1>2 DEF SpawnWriter
    <3> QED
      BY <3>1, <3>2, PhaseMove, PhaseValues DEF Lifecycle!Wire
  <2> QED
    BY <2>1 DEF Lifecycle!Next
<1>3. CASE OnConnectReturns(c)
  <2>1. Lifecycle!Live(c)
    BY <1>3, PhaseMove, PhaseValues DEF Progress, ServeGoto,
       OnConnectReturns, Lifecycle!Live, Lifecycle!Move
  <2> QED
    BY <2>1 DEF Lifecycle!Next
<1>4. CASE Remove(c)
  <2>1. Lifecycle!Unreach(c)
    BY <1>4, PhaseMove, PhaseValues DEF Progress, ServeGoto, Remove,
       Lifecycle!Unreach
  <2> QED
    BY <2>1 DEF Lifecycle!Next
<1>5. CASE JoinWriter(c)
  <2>1. Lifecycle!Disconnect(c)
    BY <1>5, PhaseMove, PhaseValues DEF Progress, ServeGoto, JoinWriter,
       Lifecycle!Disconnect, Lifecycle!Move
  <2> QED
    BY <2>1 DEF Lifecycle!Next
<1>6. CASE OnDisconnectReturns(c)
  <2>1. Lifecycle!Over(c)
    BY <1>6, PhaseMove, PhaseValues DEF Progress, ServeGoto,
       OnDisconnectReturns, Lifecycle!Over, Lifecycle!Move
  <2> QED
    BY <2>1 DEF Lifecycle!Next
<1>7. CASE HandleClose(c)
  <2>1. Lifecycle!End(c)
    BY <1>7, LoopEnds DEF HandleClose
  <2> QED
    BY <2>1 DEF Lifecycle!Next
<1>8. CASE StreamEnds(c)
  <2>1. Lifecycle!End(c)
    BY <1>8, LoopEnds DEF StreamEnds
  <2> QED
    BY <2>1 DEF Lifecycle!Next
<1>9. CASE IdleTimeout(c)
  <2>1. Lifecycle!End(c)
    BY <1>9, LoopEnds DEF IdleTimeout
  <2> QED
    BY <2>1 DEF Lifecycle!Next
<1>10. CASE LoopCancelled(c)
  <2>1. Lifecycle!End(c)
    BY <1>10, LoopEnds DEF LoopCancelled
  <2> QED
    BY <2>1 DEF Lifecycle!Next
<1>11. CASE SendControlFails(c)
  <2>1. Lifecycle!End(c)
    BY <1>11, LoopEnds DEF SendControlFails
  <2> QED
    BY <2>1 DEF Lifecycle!Next
<1>12. CASE WriterFails(c)
  <2>1. Lifecycle!Unwire(c)
    BY <1>12, PhaseValues DEF Progress, WriterFails, Lifecycle!Unwire
  <2> QED
    BY <2>1 DEF Lifecycle!Next
<1>13. CASE WriterCancelled(c)
  <2>1. Lifecycle!Unwire(c)
    BY <1>13, PhaseValues DEF Progress, WriterCancelled, Lifecycle!Unwire
  <2> QED
    BY <2>1 DEF Lifecycle!Next
<1>14. CASE Evict(c)
  <2>1. Lifecycle!Unreach(c)
    BY <1>14, PhaseValues DEF Progress, Evict, Lifecycle!Unreach
  <2> QED
    BY <2>1 DEF Lifecycle!Next
<1>15. CASE \E h \in Handler : HandleData(c, h)
  <2>1. \E h \in Handler : Lifecycle!Take(c, h)
    BY <1>15, PhaseValues DEF HandleData, Lifecycle!Take
  <2> QED
    BY <2>1 DEF Lifecycle!Next
<1>16. CASE \E h \in Handler : HandlerStep(c, h)
  <2> PICK h \in Handler : HandlerStep(c, h)
    BY <1>16
  <2>1. CASE StartHandler(c, h)
    <3>1. Lifecycle!StartHandler(c, h)
      BY <2>1 DEF StartHandler, Lifecycle!StartHandler
    <3> QED
      BY <3>1 DEF Lifecycle!Next
  <2>2. CASE DropHandler(c, h)
    <3>1. c \notin registered \/ PhaseOf(serve[c]) \in {"ending", "disconnecting", "over"}
      BY <2>2, PhaseValues DEF DropHandler, Unlisted, Ending
    <3>2. Lifecycle!Skip(c, h)
      BY <2>2, <3>1 DEF DropHandler, Lifecycle!Skip, Lifecycle!GivenUp
    <3> QED
      BY <3>2 DEF Lifecycle!Next
  <2>3. CASE EndHandler(c, h)
    <3>1. Lifecycle!EndHandler(c, h)
      BY <2>3 DEF EndHandler, Lifecycle!EndHandler
    <3> QED
      BY <3>1 DEF Lifecycle!Next
  <2> QED
    BY <2>1, <2>2, <2>3 DEF HandlerStep
<1>17. CASE \/ Cancel(c) \/ HandleOther(c) \/ HandlePing(c) \/ Tick(c)
            \/ SendControl(c) \/ RemoveWaits(c) \/ ShardFreed(c)
  <2>1. UNCHANGED Lifecycle!vars
    BY <1>17, LifecycleStutter, PhaseMove, PhaseValues DEF ServeGoto, Cancel,
       HandleOther, HandlePing, Tick, SendControl, RemoveWaits, ShardFreed
  <2> QED
    BY <2>1
<1>18. CASE \/ WriterReceives(c) \/ WriterReceivesBroadcast(c) \/ WriterSends(c)
            \/ Enqueue(c) \/ EvictCancel(c)
            \/ PeerStalls(c) \/ PeerResumes(c) \/ PeerVanishes(c)
            \/ \E kind \in Frames : PeerSends(c, kind)
  <2>1. UNCHANGED Lifecycle!vars
    BY <1>18, LifecycleStutter DEF WriterReceives, WriterReceivesBroadcast,
       WriterSends, Enqueue, EvictCancel, PeerStalls, PeerResumes,
       PeerVanishes, PeerSends
  <2> QED
    BY <2>1
<1> QED
  BY <1>1, <1>2, <1>3, <1>4, <1>5, <1>6, <1>7, <1>8, <1>9, <1>10, <1>11,
     <1>12, <1>13, <1>14, <1>15, <1>16, <1>17, <1>18 DEF StepOf, ServeStep,
     ReadStep, WriterStep, PeerStep

\* The hub is called as HubLifecycle promises, for any number of connections.
THEOREM SessionImplementsLifecycle == Spec => ImplementsLifecycle
<1>1. Inv /\ [Next]_vars => [Lifecycle!Next]_Lifecycle!vars
  <2>1. ASSUME Inv, NEW c \in Conn, StepOf(c)
        PROVE  [Lifecycle!Next]_Lifecycle!vars
    BY <2>1, LifecycleStep
  <2>2. UNCHANGED vars => UNCHANGED Lifecycle!vars
    BY DEF vars, socket, handlers, registry, Lifecycle!vars
  <2> QED
    BY <2>1, <2>2 DEF Next, StepOf
<1> QED
  BY <1>1, LifecycleInit, Invariance, PTL
  DEF Spec, ImplementsLifecycle, Lifecycle!Spec

-----------------------------------------------------------------------------
(* What the author of a hub may rely on                                    *)

LifecycleFacts == INSTANCE HubLifecycleProofs WITH
  phase <- [c \in Conn |-> PhaseOf(serve[c])],
  reachable <- registered,
  taken <- spawned,
  wired <- {c \in Conn : writer[c] \in {"waiting", "sending"}}

\* What HubLifecycleProofs concludes from the promises holds of the tasks of
\* serve.rs: the callbacks of a connection come in order, each once, with messages
\* taken in the live phase, and handled unless the connection is given up; what
\* has been given up is not taken back; on_disconnect is called when nobody
\* reaches the connection and nobody writes to it.
THEOREM HubPromisesHold ==
  Spec => /\ []LifecycleFacts!Quiet
          /\ LifecycleFacts!CallbacksInOrder
          /\ LifecycleFacts!OffForGood
<1>1. Lifecycle!Init => LifecycleFacts!Init
  BY DEF Lifecycle!Init, LifecycleFacts!Init
<1>2. [Lifecycle!Next]_Lifecycle!vars => [LifecycleFacts!Next]_LifecycleFacts!vars
  BY DEF Lifecycle!Next, Lifecycle!vars, Lifecycle!Reach, Lifecycle!Wire,
         Lifecycle!Unreach, Lifecycle!Unwire, Lifecycle!Move, Lifecycle!Live,
         Lifecycle!End, Lifecycle!Disconnect, Lifecycle!Over,
         Lifecycle!GivenUp, Lifecycle!Take, Lifecycle!StartHandler,
         Lifecycle!Skip, Lifecycle!EndHandler,
         LifecycleFacts!Next, LifecycleFacts!vars, LifecycleFacts!Reach,
         LifecycleFacts!Wire, LifecycleFacts!Unreach, LifecycleFacts!Unwire,
         LifecycleFacts!Move, LifecycleFacts!Live, LifecycleFacts!End,
         LifecycleFacts!Disconnect, LifecycleFacts!Over,
         LifecycleFacts!GivenUp, LifecycleFacts!Take, LifecycleFacts!StartHandler,
         LifecycleFacts!Skip, LifecycleFacts!EndHandler
<1>3. LifecycleFacts!Spec => /\ []LifecycleFacts!Quiet
                             /\ LifecycleFacts!CallbacksInOrder
                             /\ LifecycleFacts!OffForGood
  BY LifecycleFacts!QuietHolds, LifecycleFacts!CallbacksInOrderHolds,
     LifecycleFacts!OffForGoodHolds
<1> QED
  BY <1>1, <1>2, <1>3, SessionImplementsLifecycle, PTL
  DEF ImplementsLifecycle, Lifecycle!Spec, LifecycleFacts!Spec
=============================================================================
