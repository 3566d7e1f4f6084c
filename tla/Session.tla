------------------------------ MODULE Session ------------------------------
(***************************************************************************)
(* The life of a connection in serve.rs: the serve task of                 *)
(* serve_hub_with_clients with its read loop, the writer task it spawns,   *)
(* the handler tasks it spawns for data frames, the peer at the other end  *)
(* of the socket, and the fan-outs of other tasks that send to the         *)
(* connection or evict it.                                                 *)
(*                                                                         *)
(* Payloads and times are left out: a unicast queue is its length, a frame *)
(* is its kind, and a timer is a step that may happen.                     *)
(***************************************************************************)
EXTENDS Naturals

CONSTANTS
  Conn,       \* connections
  Handler,    \* names of the on_message tasks of a connection; bounds how
              \* many run at one time
  Cap,        \* unicast_channel_capacity
  CanStall,   \* TRUE: a peer may stop reading its socket and keep it open
  CanBlock,   \* TRUE: a fan-out may hold a lock that a removal needs
              \* (connections join groups)
  IdleFires   \* TRUE: the idle timer may fire (idle_timeout below
              \* heartbeat_interval, else every tick restarts it)

ASSUME SessionAssumption ==
  /\ Cap \in Nat \ {0}
  /\ CanStall \in BOOLEAN
  /\ CanBlock \in BOOLEAN
  /\ IdleFires \in BOOLEAN

VARIABLES
  serve,       \* the point that the serve task has reached
  writer,      \* the writer task
  queued,      \* length of the unicast queue
  inbox,       \* the frame that the peer has sent and nobody has read yet
  peer,        \* the other end of the socket; "closed": it has sent Close,
               \* and writing to it may fail
  stalled,     \* connections whose peer does not read
  spawned,     \* the handler tasks that have not been polled yet
  running,     \* those that have called on_message and not ended
  registered,  \* keys of `connections`
  cancelled,   \* connections whose CancellationToken has fired
  evicting     \* connections that a fan-out has taken out of `connections`
               \* and whose token it is about to cancel

socket == <<inbox, peer, stalled>>
handlers == <<spawned, running>>
registry == <<registered, cancelled, evicting>>
vars == <<serve, writer, queued, socket, handlers, registry>>

Frames == {"data", "junk", "ping", "pong", "close"}

\* run_read_loop: waiting in select!, or sending a Ping or a Pong to the queue
InLoop == {"reading", "pinging", "ponging"}

TypeOK ==
  /\ serve \in [Conn -> InLoop \cup
       {"fresh", "spawning", "connecting", "cancelling", "removing",
        "blocked", "joining", "disconnecting", "done"}]
  /\ writer \in [Conn -> {"none", "waiting", "sending", "exited"}]
  /\ queued \in [Conn -> 0 .. Cap]
  /\ inbox \in [Conn -> Frames \cup {"none"}]
  /\ peer \in [Conn -> {"up", "closed", "gone"}]
  /\ stalled \subseteq Conn
  /\ spawned \in [Conn -> SUBSET Handler]
  /\ running \in [Conn -> SUBSET Handler]
  /\ registered \subseteq Conn
  /\ cancelled \subseteq Conn
  /\ evicting \subseteq Conn

Init ==
  /\ serve = [c \in Conn |-> "fresh"]
  /\ writer = [c \in Conn |-> "none"]
  /\ queued = [c \in Conn |-> 0]
  /\ inbox = [c \in Conn |-> "none"]
  /\ peer = [c \in Conn |-> "up"]
  /\ stalled = {}
  /\ spawned = [c \in Conn |-> {}]
  /\ running = [c \in Conn |-> {}]
  /\ registered = {}
  /\ cancelled = {}
  /\ evicting = {}

ServeGoto(c, from, to) ==
  /\ serve[c] = from
  /\ serve' = [serve EXCEPT ![c] = to]

-----------------------------------------------------------------------------
(* serve_hub_with_clients                                                  *)

\* subscribe, then clients.add
Register(c) ==
  /\ ServeGoto(c, "fresh", "spawning")
  /\ registered' = registered \cup {c}
  /\ UNCHANGED <<writer, queued, socket, handlers, cancelled, evicting>>

SpawnWriter(c) ==
  /\ ServeGoto(c, "spawning", "connecting")
  /\ writer' = [writer EXCEPT ![c] = "waiting"]
  /\ UNCHANGED <<queued, socket, handlers, registry>>

\* Nothing interrupts on_connect, not even the token.
OnConnectReturns(c) ==
  /\ ServeGoto(c, "connecting", "reading")
  /\ UNCHANGED <<writer, queued, socket, handlers, registry>>

\* Mutant: the teardown does not fire the token.
CancelOmitted(c) ==
  /\ ServeGoto(c, "cancelling", "removing")
  /\ UNCHANGED <<writer, queued, socket, handlers, registry>>

Cancel(c) ==
  /\ ServeGoto(c, "cancelling", "removing")
  /\ cancelled' = cancelled \cup {c}
  /\ UNCHANGED <<writer, queued, socket, handlers, registered, evicting>>

\* clients.remove cleans up the groups first, and a fan-out that holds a shard
\* of `group_members` that it prunes makes it wait.
RemoveWaits(c) ==
  /\ CanBlock
  /\ ServeGoto(c, "removing", "blocked")
  /\ UNCHANGED <<writer, queued, socket, handlers, registry>>

\* The fan-out returns, and gives up the shard.
ShardFreed(c) ==
  /\ ServeGoto(c, "blocked", "removing")
  /\ UNCHANGED <<writer, queued, socket, handlers, registry>>

Remove(c) ==
  /\ ServeGoto(c, "removing", "joining")
  /\ registered' = registered \ {c}
  /\ UNCHANGED <<writer, queued, socket, handlers, cancelled, evicting>>

\* Mutant: on_disconnect does not wait for the writer.
JoinWriterDetached(c) ==
  /\ ServeGoto(c, "joining", "disconnecting")
  /\ UNCHANGED <<writer, queued, socket, handlers, registry>>

\* writer.await; on_disconnect begins
JoinWriter(c) ==
  /\ ServeGoto(c, "joining", "disconnecting")
  /\ writer[c] = "exited"
  /\ UNCHANGED <<writer, queued, socket, handlers, registry>>

OnDisconnectReturns(c) ==
  /\ ServeGoto(c, "disconnecting", "done")
  /\ UNCHANGED <<writer, queued, socket, handlers, registry>>

-----------------------------------------------------------------------------
(* run_read_loop and handle_frame                                          *)

\* stream.next() yields a frame of this kind.
Read(c, kind) ==
  /\ inbox[c] = kind
  /\ inbox' = [inbox EXCEPT ![c] = "none"]

\* Mutant: data frames are read before on_connect has returned.
HandleDataEarly(c, h) ==
  /\ serve[c] \in {"connecting", "reading"}
  /\ Read(c, "data")
  /\ h \notin spawned[c] \cup running[c]
  /\ spawned' = [spawned EXCEPT ![c] = @ \cup {h}]
  /\ UNCHANGED <<serve, writer, queued, peer, stalled, running, registry>>

\* The frame decodes, and a task is spawned that nobody joins.
HandleData(c, h) ==
  /\ serve[c] = "reading"
  /\ Read(c, "data")
  /\ h \notin spawned[c] \cup running[c]
  /\ spawned' = [spawned EXCEPT ![c] = @ \cup {h}]
  /\ UNCHANGED <<serve, writer, queued, peer, stalled, running, registry>>

\* A frame that does not decode, or a Pong: the loop goes on.
HandleOther(c) ==
  /\ serve[c] = "reading"
  /\ Read(c, "junk") \/ Read(c, "pong")
  /\ UNCHANGED <<serve, writer, queued, peer, stalled, handlers, registry>>

HandlePing(c) ==
  /\ ServeGoto(c, "reading", "ponging")
  /\ Read(c, "ping")
  /\ UNCHANGED <<writer, queued, peer, stalled, handlers, registry>>

HandleClose(c) ==
  /\ ServeGoto(c, "reading", "cancelling")
  /\ Read(c, "close")
  /\ UNCHANGED <<writer, queued, peer, stalled, handlers, registry>>

\* stream.next() yields None or an error, once what was sent has been read.
StreamEnds(c) ==
  /\ ServeGoto(c, "reading", "cancelling")
  /\ peer[c] = "gone"
  /\ inbox[c] = "none"
  /\ UNCHANGED <<writer, queued, socket, handlers, registry>>

IdleTimeout(c) ==
  /\ IdleFires
  /\ ServeGoto(c, "reading", "cancelling")
  /\ UNCHANGED <<writer, queued, socket, handlers, registry>>

\* Mutant: the token is not one of the arms of select!.
LoopCancelledNever(c) ==
  /\ FALSE
  /\ ServeGoto(c, "reading", "cancelling")
  /\ UNCHANGED <<writer, queued, socket, handlers, registry>>

LoopCancelled(c) ==
  /\ ServeGoto(c, "reading", "cancelling")
  /\ c \in cancelled
  /\ UNCHANGED <<writer, queued, socket, handlers, registry>>

Tick(c) ==
  /\ ServeGoto(c, "reading", "pinging")
  /\ UNCHANGED <<writer, queued, socket, handlers, registry>>

\* Mutant: a control frame is queued whether or not there is a place.
SendControlUnbounded(c) ==
  /\ \E step \in {"pinging", "ponging"} : ServeGoto(c, step, "reading")
  /\ writer[c] # "exited"
  /\ queued' = [queued EXCEPT ![c] = @ + 1]
  /\ UNCHANGED <<writer, socket, handlers, registry>>

\* heartbeat_tx.send: waits for a place in the queue, and for nothing else
SendControl(c) ==
  /\ \E step \in {"pinging", "ponging"} : ServeGoto(c, step, "reading")
  /\ writer[c] # "exited"
  /\ queued[c] < Cap
  /\ queued' = [queued EXCEPT ![c] = @ + 1]
  /\ UNCHANGED <<writer, socket, handlers, registry>>

SendControlFails(c) ==
  /\ \E step \in {"pinging", "ponging"} : ServeGoto(c, step, "cancelling")
  /\ writer[c] = "exited"
  /\ UNCHANGED <<writer, queued, socket, handlers, registry>>

\* The first poll of the spawned task calls on_message, whatever has become of
\* the connection meanwhile: select! may look at the token second.
StartHandler(c, h) ==
  /\ h \in spawned[c]
  /\ spawned' = [spawned EXCEPT ![c] = @ \ {h}]
  /\ running' = [running EXCEPT ![c] = @ \cup {h}]
  /\ UNCHANGED <<serve, writer, queued, socket, registry>>

\* It looks at the token first: on_message is never called.
DropHandler(c, h) ==
  /\ h \in spawned[c]
  /\ c \in cancelled
  /\ spawned' = [spawned EXCEPT ![c] = @ \ {h}]
  /\ UNCHANGED <<serve, writer, queued, socket, running, registry>>

\* on_message returns, or the token fires.
EndHandler(c, h) ==
  /\ h \in running[c]
  /\ running' = [running EXCEPT ![c] = @ \ {h}]
  /\ UNCHANGED <<serve, writer, queued, socket, spawned, registry>>

-----------------------------------------------------------------------------
(* spawn_writer                                                            *)

WriterGoto(c, from, to) ==
  /\ writer[c] = from
  /\ writer' = [writer EXCEPT ![c] = to]

WriterReceives(c) ==
  /\ WriterGoto(c, "waiting", "sending")
  /\ queued[c] > 0
  /\ queued' = [queued EXCEPT ![c] = @ - 1]
  /\ UNCHANGED <<serve, socket, handlers, registry>>

\* Mutant: a receiver that has been overrun ends the writer.
WriterQuitsOnLag(c) ==
  /\ \E step \in {"sending", "exited"} : WriterGoto(c, "waiting", step)
  /\ UNCHANGED <<serve, queued, socket, handlers, registry>>

\* A message arrives on the broadcast channel.
WriterReceivesBroadcast(c) ==
  /\ WriterGoto(c, "waiting", "sending")
  /\ UNCHANGED <<serve, queued, socket, handlers, registry>>

\* sink.send returns; a peer that does not read keeps it waiting, whether or not
\* it has sent a Close, token or no token.
WriterSends(c) ==
  /\ WriterGoto(c, "sending", "waiting")
  /\ c \notin stalled
  /\ peer[c] # "gone"
  /\ UNCHANGED <<serve, queued, socket, handlers, registry>>

\* Nothing can be sent once the Close has been read or the connection is lost.
WriterFails(c) ==
  /\ WriterGoto(c, "sending", "exited")
  /\ peer[c] \in {"closed", "gone"}
  /\ UNCHANGED <<serve, queued, socket, handlers, registry>>

WriterCancelled(c) ==
  /\ WriterGoto(c, "waiting", "exited")
  /\ c \in cancelled
  /\ UNCHANGED <<serve, queued, socket, handlers, registry>>

-----------------------------------------------------------------------------
(* The other tasks of the server: unicasts, fan-outs and evictions         *)

\* sender.send by a task that holds a clone of the sender, which may outlive
\* the registration
Enqueue(c) ==
  /\ serve[c] # "fresh"
  /\ writer[c] # "exited"
  /\ queued[c] < Cap
  /\ queued' = [queued EXCEPT ![c] = @ + 1]
  /\ UNCHANGED <<serve, writer, socket, handlers, registry>>

\* Mutant: the evictor keeps no hold of the state whose token it must cancel.
EvictAndForget(c) ==
  /\ c \in registered
  /\ registered' = registered \ {c}
  /\ UNCHANGED <<serve, writer, queued, socket, handlers, cancelled, evicting>>

\* connections.remove returns Some: only one evictor gets it
Evict(c) ==
  /\ c \in registered
  /\ registered' = registered \ {c}
  /\ evicting' = evicting \cup {c}
  /\ UNCHANGED <<serve, writer, queued, socket, handlers, cancelled>>

EvictCancel(c) ==
  /\ c \in evicting
  /\ evicting' = evicting \ {c}
  /\ cancelled' = cancelled \cup {c}
  /\ UNCHANGED <<serve, writer, queued, socket, handlers, registered>>

-----------------------------------------------------------------------------
(* The peer                                                                *)

\* A peer that does not read may still send, a Close too.
PeerSends(c, kind) ==
  /\ serve[c] # "fresh"
  /\ peer[c] = "up"
  /\ inbox[c] = "none"
  /\ inbox' = [inbox EXCEPT ![c] = kind]
  /\ peer' = [peer EXCEPT ![c] = IF kind = "close" THEN "closed" ELSE @]
  /\ UNCHANGED <<serve, writer, queued, stalled, handlers, registry>>

PeerStalls(c) ==
  /\ CanStall
  /\ serve[c] # "fresh"
  /\ peer[c] # "gone"
  /\ stalled' = stalled \cup {c}
  /\ UNCHANGED <<serve, writer, queued, inbox, peer, handlers, registry>>

PeerResumes(c) ==
  /\ c \in stalled
  /\ stalled' = stalled \ {c}
  /\ UNCHANGED <<serve, writer, queued, inbox, peer, handlers, registry>>

\* The connection is lost: reads and writes fail.
PeerVanishes(c) ==
  /\ serve[c] # "fresh"
  /\ peer[c] # "gone"
  /\ peer' = [peer EXCEPT ![c] = "gone"]
  /\ stalled' = stalled \ {c}
  /\ UNCHANGED <<serve, writer, queued, inbox, handlers, registry>>

-----------------------------------------------------------------------------
ServeStep(c) ==
  \/ Register(c) \/ SpawnWriter(c) \/ OnConnectReturns(c)
  \/ Cancel(c) \/ Remove(c) \/ JoinWriter(c) \/ OnDisconnectReturns(c)

ReadStep(c) ==
  \/ \E h \in Handler : HandleData(c, h)
  \/ HandleOther(c) \/ HandlePing(c) \/ HandleClose(c) \/ StreamEnds(c)

HandlerStep(c, h) == StartHandler(c, h) \/ DropHandler(c, h) \/ EndHandler(c, h)

WriterStep(c) ==
  \/ WriterReceives(c) \/ WriterReceivesBroadcast(c)
  \/ WriterSends(c) \/ WriterFails(c) \/ WriterCancelled(c)

PeerStep(c) ==
  \/ \E kind \in Frames : PeerSends(c, kind)
  \/ PeerStalls(c) \/ PeerResumes(c) \/ PeerVanishes(c)

Next == \E c \in Conn :
  \/ ServeStep(c) \/ ReadStep(c) \/ WriterStep(c) \/ PeerStep(c)
  \/ LoopCancelled(c) \/ IdleTimeout(c) \/ Tick(c)
  \/ SendControl(c) \/ SendControlFails(c)
  \/ Enqueue(c) \/ Evict(c) \/ EvictCancel(c)
  \/ RemoveWaits(c) \/ ShardFreed(c)
  \/ \E h \in Handler : HandlerStep(c, h)

Spec == Init /\ [][Next]_vars

\* The writer's send ends, when the peer reads or is lost.
SendEnds(c) == c \notin stalled /\ (WriterSends(c) \/ WriterFails(c))

\* The runtime polls each task that can run.  select! polls its arms in a
\* random order, so an arm that is ready again and again is taken: strong
\* fairness for the token, the stream and the queue.  A handler or a callback
\* that the hub wrote is assumed to return.
FairSpec ==
  /\ Spec
  /\ \A c \in Conn :
       /\ WF_vars(SpawnWriter(c) \/ OnConnectReturns(c))
       /\ WF_vars(Cancel(c) \/ Remove(c) \/ JoinWriter(c)
                  \/ OnDisconnectReturns(c))
       /\ SF_vars(ReadStep(c))
       /\ SF_vars(LoopCancelled(c))
       /\ SF_vars(SendControl(c)) /\ WF_vars(SendControlFails(c))
       /\ WF_vars(SendEnds(c))
       /\ SF_vars(WriterReceives(c))
       /\ SF_vars(WriterCancelled(c))
       /\ WF_vars(EvictCancel(c))
       /\ \A h \in Handler : WF_vars(HandlerStep(c, h))

\* The same with an environment that keeps nobody waiting for good.  A peer that
\* has stopped reading reads again or is lost, and a pending write gets through
\* to one that reads again and again.  A fan-out that a removal waits for
\* returns (GroupIndex!FanOutReturns has the conditions: no evictions inside it,
\* and a thread left to poll it), and a removal has finitely many groups to wait
\* for.
WaitsEnd(c) ==
  /\ WF_vars(c \in stalled /\ (PeerResumes(c) \/ PeerVanishes(c)))
  /\ SF_vars(SendEnds(c))
  /\ WF_vars(ShardFreed(c))
  /\ SF_vars(Remove(c))

ReadingSpec == FairSpec /\ \A c \in Conn : WaitsEnd(c)

-----------------------------------------------------------------------------
(* Properties                                                              *)

\* on_disconnect sees a connection "fully torn down" (hub.rs:106) as far as
\* the server's own tasks go: no writer, no registration, token fired.
TornDown ==
  \A c \in Conn : serve[c] \in {"disconnecting", "done"} =>
    writer[c] = "exited" /\ c \notin registered /\ c \in cancelled

\* No connection is served that nobody can reach, unless its end is on the
\* way: an evictor that has unregistered it is about to cancel it.
NoZombie ==
  \A c \in Conn :
    (serve[c] \in {"spawning", "connecting"} \cup InLoop /\ c \notin registered)
      => c \in cancelled \cup evicting

\* A connection is not served without a writer, except while its end is on the
\* way: its token has fired, or the peer is closing or lost (serve.rs:139, the
\* writer "exits when `cancel` is triggered, either source closes, or a send
\* error occurs").
NotMute ==
  \A c \in Conn :
    (serve[c] \in {"connecting"} \cup InLoop /\ writer[c] = "exited")
      => c \in cancelled \/ peer[c] \in {"closed", "gone"}

\* The serve task waits for its writer: to make room in the queue for a Ping or
\* a Pong, or to exit.
AwaitsWriter(c) ==
  /\ writer[c] # "exited"
  /\ \/ serve[c] = "joining"
     \/ serve[c] \in {"pinging", "ponging"} /\ queued[c] = Cap

\* The serve task and its writer never wait for each other: a writer that is
\* waited for has something to receive or to notice, or a send under way, which
\* waits for the peer alone (serve.rs:217 sends to the queue it empties, and
\* serve.rs:127 fires the token before :129 awaits it).
NoWaitCycle ==
  \A c \in Conn : AwaitsWriter(c) =>
    \/ writer[c] = "sending"
    \/ writer[c] = "waiting" /\ (queued[c] > 0 \/ c \in cancelled)

\* A connection whose token has fired ends, on_disconnect included
\* (policy.rs:27, "it is forcibly closed"), provided that its peer does not stay
\* away from its socket for good and that the fan-outs its removal waits for
\* return (ReadingSpec).
CancelledEnds == \A c \in Conn : (c \in cancelled) ~> (serve[c] = "done")

\* A connection whose peer closes or vanishes ends, with no help of a timer,
\* under the same two provisos: a peer may send its Close and not read.
PeerEndEnds ==
  \A c \in Conn : (peer[c] \in {"closed", "gone"}) ~> (serve[c] = "done")

-----------------------------------------------------------------------------
(* What the hub is promised                                                *)

PhaseOf(step) ==
  CASE step \in {"fresh", "spawning"} -> "waiting"
    [] step = "connecting" -> "connecting"
    [] step \in InLoop -> "live"
    [] step \in {"cancelling", "removing", "blocked", "joining"} -> "ending"
    [] step = "disconnecting" -> "disconnecting"
    [] step = "done" -> "over"

Lifecycle == INSTANCE HubLifecycle WITH
  phase <- [c \in Conn |-> PhaseOf(serve[c])],
  reachable <- registered,
  taken <- spawned,
  wired <- {c \in Conn : writer[c] \in {"waiting", "sending"}}

\* serve_hub_with_clients keeps the promises of HubLifecycle.
ImplementsLifecycle == Lifecycle!Spec
=============================================================================
