# axum-signal in TLA+

This directory holds TLA+ models of the axum-signal library, server and client
(`src/axum-signal/`), the TLC configurations that check them on small
instances, and theorems that TLAPS proves for every instance.  It follows the
code: each definition that models code is listed in `PROJECT.json` ("map") with
the lines it stands for.

    tlc -workers 2 -config GroupIndex_index.cfg GroupIndexMC    # one run
    tlapm GroupIndexProofs.tla                                  # one proof module

## The system

axum-signal runs *hubs* over WebSockets.  For each socket, `serve_hub` looks up
the registry of the hub's type and drives the connection: it registers it,
spawns a writer task, calls `on_connect`, runs a read loop that spawns an
`on_message` task for each data frame, and finally tears the connection down
and calls `on_disconnect`.  Handlers reach other connections through the
registry (`MessageContext`): unicast, broadcasts, groups.

| Component | State | Operations | Talks to |
|---|---|---|---|
| Connection registry, group indexes (`clients.rs`) | `connections`, `group_members`, `connection_groups`: three concurrent maps | `add`, `remove`, `add_to_group`, `remove_from_group`, `cleanup_groups`, `unicast`, `broadcast*` | called by serve tasks and handlers; sends to the queue of each connection |
| Delivery policies (`policy.rs`, `send_with_policy`) | per connection: bounded queue, `drops`, `rtt_samples`, cancellation token | `send_with_policy`, eviction, `on_drop` | the queues; the registry (an eviction is a `remove` and a `cleanup_groups`) |
| Connection life cycle (`serve.rs`, `hub.rs`) | program points of the serve, writer and handler tasks, the token, `ping_sent_at`, the heartbeat | `serve_hub_with_clients`, `run_read_loop`, `handle_frame`, `spawn_writer` | registry, hub callbacks, peer |
| Broadcast channel (`clients.rs`, tokio `broadcast`) | ring of messages, a position per receiver | `subscribe`, `broadcast`, `recv` with lag | writers |
| RTT window (`update_rtt`) | `rtt_samples` | push, evict oldest, average | read loop, `DropOnHighRtt` |
| Registry of registries (`get_clients`) | a global map by hub type | get or create | `serve_hub` |
| Hub client (`hub_client.rs`) | channel, writer and reader handles, handler | `on_message`, `connect`, `send`, `disconnect`, drop | the server |
| Codecs (`codec.rs`, the custom codec example) | none | `encode`, `decode` | client, registry, read loop |
| Handler context, crate root, examples | none | forwarding | |

What makes it hard:

* *Concurrency.*  The maps are concurrent, and a call makes several accesses to
  them: `add_to_group` fills one index, then the other; `cleanup_groups` empties
  one, then visits the other group by group; a fan-out reads them while both
  run.  A `Ref` into a map is a lock, and `broadcast_group` keeps one across its
  sends; who waits for it blocks a worker thread.
* *Teardown from two sides.*  The serve task and an evictor take a connection
  down with the same two operations, in opposite orders, at any time.
* *Cancellation.*  A token is seen only where a task waits for it.  The writer
  inside `sink.send`, and the read loop inside `heartbeat_tx.send`, do not.
* *Tasks nobody joins.*  Handlers outlive `on_disconnect`, or begin after it.
* *Bounded queues and timeouts.*  A full queue blocks, drops or evicts; drops
  are counted in steps of concurrent senders; a broadcast overwrites what a slow
  receiver has not seen.
* *The client's tasks.*  They outlive the calls that made them, and the link may
  break between any two of their steps.

What makes each part correct: a torn-down connection is in no group and a
joined one is reached; a fan-out sends once to everybody it should and returns;
a connection's phases come in order, messages are taken in its live phase only,
and `on_disconnect` sees it torn down (when the handlers of the messages taken run
is promised nowhere); every connection that should end does, if its peer reads and
the fan-outs in its way return; an eviction is announced and deserved; a broadcast is
received in order, or skipped by a receiver that fell behind; the client's messages arrive
in order, and all of them before `disconnect` returns.  `PROJECT.json`
lists the hazards line by line, with the properties that watch them.

## The modules

### GroupIndex — the registry and its group indexes

A `Task` is an asynchronous computation (a serve task or a handler) that
executes one registry call at a time; each *access to a concurrent map* is one
action.  `pc` names the next access; the other per-task variables are the
call's locals.

| Code | Model |
|---|---|
| `connections`, `group_members`, `connection_groups` | `registered`, `groupKeys` and `groupMembers`, `connGroups` |
| `add_to_group` | `CallAddToGroup`, `JoinMembers`, `JoinGroups` |
| `remove_from_group` | `CallRemoveFromGroup`, `LeaveMembers`, `LeaveGroups` |
| `cleanup_groups` | `TakeGroups`, then `Detach`, `CheckEmpty`, `Prune` or `SkipGroup` for each group, `CleanupDone` |
| `remove` | `CallRemove`, the cleanup, `Unlist` |
| `broadcast_group(_except)`, `broadcast_except` | `Call...`, `Pass` or `Collect` for each id, `EndScan`, then `Deliver` or `Evict` for each recipient, `EndFanOut` |
| `broadcast_groups` | `CallBroadcastGroups`, for each group `Gather`, `Copy`, `EndScan`, `Lookup`, `EndLookup`, then `EndGather` and the sends |
| a DashMap `Ref`, an exclusive shard lock | `Holds`, `Exclusive`; `Shard` says which groups collide |

An id set iterates in no particular order, so `Pass`, `Collect`, `Copy` and
`Lookup` choose the next id.  A member that joins during the iteration may or
may not be visited: `left` starts as all ids, and an id is judged when its turn
comes.

A task is `Suspended` between calls and in each send, the only points where the
code awaits; everywhere else it occupies one of the `Workers`, also while it
waits for a shard.  `Polled` lets a suspended task go on when a thread is free.

`Serial` is the one assumption about the hub: when TRUE, it issues the group
calls of a connection one at a time, and none after its connection has begun to
be torn down.  That is what a hub gets that joins and leaves in `on_connect`,
which the serve task awaits.  When FALSE any task may issue a call for a
connection at any time, as `on_message` tasks can.  `Evicts` says whether the
policy can evict; the send itself is one step here and is opened in SendPolicy.

### Session and HubLifecycle — a connection's life

`Session` models the serve task, its writer, its handlers and the peer.
`serve` is the program point of `serve_hub_with_clients` and its read loop;
`writer` says whether the writer waits in `select!` or in `sink.send`.  A queue
is its length, a frame its kind, and timers are steps that may happen (`Tick`,
`IdleTimeout`).  `Enqueue`, `Evict` and `EvictCancel` are what other tasks do to
the connection.  The peer sends frames, closes or vanishes, and may stop reading
(`PeerStalls`, `stalled`) whether or not it has sent a Close: a write to it then
waits.  Bounds: `Handler` limits the handlers under way at once, and the peer has
one unread frame at a time.

A data frame spawns a task (`HandleData`, `spawned`), and `on_message` is called
when that task is first polled: before or after the token has fired, the removal
or `on_disconnect` (`StartHandler`, `running`), or never, if `select!` looks at a
token that has fired first (`DropHandler`).

`clients.remove` prunes groups, for which it may have to wait for a shard that a
fan-out holds (`RemoveWaits`, the serve point "blocked", `ShardFreed`).  Who holds
the shard, and whether it is given up, is GroupIndex's matter; here it may be held
for ever, unless the specification says otherwise.

`HubLifecycle` is the abstract specification: the protocol of callbacks that a
hub's author relies on.  `Session` implements it under the mapping

    phase     <- PhaseOf(serve)           (the three loop points are "live")
    reachable <- registered
    taken     <- spawned
    wired     <- the writer is waiting or sending

It takes messages in the live phase only (`Take`), calls `on_message` for a message
taken at any time (`StartHandler`), and leaves one out only when the connection is
out of reach or being torn down (`Skip`, `GivenUp`).  It does not say when handlers
run or end, for the code does not.

`Session!ImplementsLifecycle` is checked by TLC and proved.  What a hub's author may
conclude from the protocol is proved of `HubLifecycle` alone, in
`HubLifecycleProofs`, and holds of `Session` through the mapping.

### ReadLoop — the timers

`run_read_loop` on one connection with discrete time.  `idleIn` and `tickIn`
are what is left of the idle timer and of the heartbeat; `Select` is a new
iteration, which builds a new idle timer; every frame resets the heartbeat
(`ReadFrame`); `Tick` overwrites `ping_sent_at` and keeps the rhythm of the
interval when it is late.  The loop is punctual in `select!`, and may wait any
time (up to `MaxLate`) for a place in the writer's queue.  `flight` holds the
Pings that the peer may still answer, in order and possibly skipping some; a
peer that sends Pongs unasked is left out.  `update_rtt` records a sample in the
window (`Record`), for a connection that is registered under `DropOnHighRtt`.
`idle` and `heartbeat` are chosen in the initial state.  `silence` (time waited
for a frame) and `lagged` (a control frame was held up since the last frame)
are history variables.

### SendPolicy — queues, drops and evictions

`send_with_policy` under concurrent fan-outs.  A fan-out is its set of
recipients still to send to (`plan`) and the recipient it is at; a send either
queues (`Push`), is dropped (`Drop`: timeout on a full queue, or closed queue),
or ignores a closed queue (`Ignore`); after a drop the policy runs its steps one
by one, since others interleave: `Notify` (`on_drop`), `Count` (`fetch_add` and
the comparison), `Unlist` (`connections.remove`), `CancelToken`; after a success
`Reset`.  `Abort` is the handler that issued the fan-out being cancelled while it
waits for a place (`CanAbort`).  The policy is chosen once, in the initial state,
among `Policies`.  The average RTT of a connection is only "slow" or not, and
`Measure` moves it.  `notified` and `streak` are history variables: calls of
`on_drop`, and drops since the last message queued, both counted up to
`MaxDrops`.

### Broadcast and LossyFifo — registries and their channels

`Broadcast` takes sockets of several hub types from `get_clients` to the end of
their writer.  A registry is named by the socket that created it; `GetClients`
is one step because the code holds the entry of the global map from the look-up
to the insertion.  Then come `Subscribe`, `Serve` (`clients.add` and the writer),
`Send` (a handler's `broadcast`), `Receive` and `Lag` (the writer's `recv`), and
`Leave`.  tokio's channel is a ring of slots, each with the number of the
message it holds; a receiver finds its next message by `next % Ring` and sees
from the number whether it has been overrun.

`LossyFifo` is the abstract channel: each listener receives a subsequence of what
was sent since it subscribed (`ReceivesInOrder`, proved of `LossyFifo` itself).
`Broadcast` implements it with `cast`, `next` and `got` as they are and with

    listening <- the sockets that are subscribed or served

so that `Lag` is a loss, and the registries and rings disappear.

### HubClient and Codec — the client

| Code | Model |
|---|---|
| `HubClient.tx`, `.writer` and `.reader`, `.handler` | `tx`, `handle`, `handler` (connection numbers, 0 for `None`) |
| the unbounded channel, the tasks | `out`, `writer`, `reader` |
| `on_message`, `connect`, `send`, `disconnect`, `Drop` | `OnMessage`, `Connect`, `Send`, `Disconnect` then `JoinWriter` and `JoinReader`, `Drop` |
| writer task, reader task | `WriterSends`, `WriterFails`, `WriterEnds`; `ReaderReads`, `ReaderEnds` |
| the server's end | `ServerReads`, `ServerSends`, `ServerReleases`, `ServerLost` |

A message is numbered by its sender, so order, gaps and repetitions show in what
the other side decodes (`heard`, `told`).  The server is `handle_frame` and the
writer as far as the client sees them: it decodes what arrives, leaves its loop at
a Close ("closed"), holds the stream until it has torn the connection down
(`ServerReleases`, "over"), and may be lost at any moment before the Close with
what is under way to it.  The client's reader ends when the stream does.  `orphans` are
connections that a second `connect` has replaced; their tasks go on unowned.
A failed connect, a message that does not encode, and a send without a connection
leave the state as it is.

`Codec` says which frame variant each codec produces and accepts, that a payload
reads back only in its own format, and what the client's two conversions between
axum's and tungstenite's messages keep.

## What is checked

| Run | Question | Instance |
|---|---|---|
| `group_index` | Does a hub that serialises its group calls leave ghosts? Does a fan-out reach the right connections, once? Can calls wait for each other in a cycle, or go round in circles? | 2 connections, 2 groups in one shard, 2 tasks |
| `group_returns` | Does a fan-out return, while others block worker threads on its lock? | 1 connection, 1 group, 3 tasks on 2 threads, no evictions |
| `group_lost_join` | *violated*: a connection that joined is a member | 2 connections, 1 group, 2 tasks |
| `group_self_deadlock` | *violated*: `broadcast_group` returns under a policy that evicts | 2 connections, 1 group, 1 task |
| `session_life` | Order of teardown, no connection served without registration or writer, no wait of serve task and writer for each other, refinement of HubLifecycle; does an evicted, closed or lost connection end, if peers do not stay away for good and fan-outs return? | 1 connection, 2 handlers, queue of 2 |
| `session_stalled` | *violated*: an evicted connection ends, when its peer has stopped reading | the same |
| `policy_sends` | Is an eviction announced, and made by one of those that race for it? Does the counter stop? Does a fan-out try everybody, come to an end, and whom does it wait for? | 2 connections, 2 tasks, queue of 1, 2 drops, all policies |
| `policy_racing_drops` | *violated*: only consecutive drops evict, with two senders | 1 connection, 2 tasks |
| `readloop_timers` | How do idle timer and heartbeat compete, and when is an RTT sample the time to the matching Pong? | heartbeat 3; idle timeout 2, 3, 4 |
| `readloop_idle` | *violated*: a peer that sends nothing is dropped after `idle_timeout` | heartbeat 3, idle timeout 4 |
| `broadcast` | Do sockets share the registry of their type? What may a receiver lose, what does it receive twice or out of order, and does the ring implement the lossy FIFO? | 2 sockets of one hub type, 1 of another; ring of 2; 4 and 1 messages |
| `client` | Do messages arrive in order and none get lost while the link holds, does `disconnect` flush and, if the server tears down, return, does a dropped client close, behind everything it accepted? | 2 connections, 2 and 1 messages up, 1 down on each, 1 under way in each direction |

*Why these bounds.*  Group membership is a relation between one connection and
one group, and the hazards need three actors at most: the fan-out that evicts,
the call that joins or leaves, and the serve task that removes.  A cycle of
waiting calls needs two that hold and want the one shard.  A recipient
list needs two entries to hold a duplicate or to skip a member, and two groups
for `broadcast_groups` to meet a member twice; a single shard makes every lock
conflict that is possible happen.  `group_returns` has a thread more than calls
that can wait for a shard at once; that matters, see below.  Connections of
`Session` share no variable, so one stands for all; a queue of two separates
empty, partly full and full.  Two drops separate the first drop from the evicting
one, and a queue of one is full at once.  `ReadLoop` needs an idle timeout on
either side of the heartbeat and equal to it, and a bound on ages (`MaxAge`)
beyond one heartbeat, so that a Pong can cross the next Ping.  Four messages
overrun a ring of two twice, with a lag in between; three sockets are two that
race for a registry and one that must not get it.  A client needs two connections
for one to replace another, two messages for an order, and one place on the wire
makes the writer wait.  The proofs below hold for every instance.

*Fairness.*  tokio polls every runnable task, so each step of a call, of the
serve task and of the writer has weak fairness.  `tokio::select!` polls its
arms in random order, so an arm that is ready again and again is eventually
taken: strong fairness for reading the stream, for the token and for the
writer's queue.  A bounded mpsc channel grants its places first come, first
served, so a sender waiting for a place that becomes free again and again gets
it: strong fairness for `SendControl`.  Worker threads take tasks from a queue in
order: weak fairness for a task that holds a thread, strong fairness for one that
awaits a free one (`GroupIndex!FairSpec`); a send is assumed to end, which the
default policy gives only with peers that read.
`on_connect`, `on_message` and `on_disconnect` are written by the hub's author
and are assumed to return.  In `session_life`
(`ReadingSpec`, `WaitsEnd`) a peer that has stopped reading reads again or is lost,
a pending write gets through to a peer that reads again and again, and a removal
that waits for a fan-out's shard gets it: that fan-out returns, which `group_returns`
shows of policies that do not evict and with a thread left (findings 2 and "all
threads blocked" are the cases where it does not), and a connection has finitely
many groups to wait for.  In `session_stalled` (`FairSpec`) a peer may stop reading
for ever, and nothing blocks removals, so that the violation is the peer's alone.  In `broadcast`
a served socket's writer is polled again and again.  In `client` the tasks run
and the server reads what arrives, because its read loop stops only for a full
writer queue, and this client always reads; and a server that has read the Close
gets through `remove`, the join of its writer and `on_disconnect`, or its loss is
noticed.  That is an assumption about the server, since `disconnect` has no timeout:
finding 2, or an `on_disconnect` that hangs, keeps it waiting.  Nobody has to send,
and nothing has to be lost.  No timer is assumed to fire.
`SendPolicy` states no fairness: `WaitsOnlyForReaders` says instead which fan-outs
have no step of their own to take.

*Deadlock* is checked except where the system may stop: a connection, a client or
an audience that is done stays done (`Session`, `ReadLoop`, `HubClient`,
`Broadcast`), and in GroupIndex an eviction inside `broadcast_group` waits for its
own lock (`group_index` and the two violations).

## Findings

1. *Lost join* (`clients.rs:457-459`, run `group_lost_join`).  `cleanup_groups`
   sees a group empty, drops its lock, and removes the group with whatever it
   contains by then.  A connection that joined in between is listed in
   `connection_groups` and in no group.  Nothing else loses a join of a hub that
   serialises its group calls: `LostJoinsNeedTheGap` proves it.
2. *Self-deadlock* (`clients.rs:270` and `:459`, run `group_self_deadlock`).
   `broadcast_group` holds a `Ref` across its sends; evicting the last member of
   that group asks for the same shard exclusively, on the same thread.
3. *A stalled peer is never closed* (`serve.rs:152`, `:217`, run
   `session_stalled`).  The eviction fires a token that nobody is looking at:
   the writer is in `sink.send`, the read loop in `heartbeat_tx.send` on the full
   queue or in `writer.await`.  `CancelledGoesOn` knows one other wait at which a
   cancelled connection can be stuck: its removal's, for a fan-out that does not
   return (finding 2, and below).
4. *Drops that are not consecutive evict* (`clients.rs:420`, run
   `policy_racing_drops`).  A success resets the counter in a later step, and
   another sender counts its drop on top of the old value.  Nothing else is
   wrong: fan-outs that do not overlap on a connection between the send and the
   count evict for consecutive drops only (`ConsecutiveIfOneSender`).
5. *The idle timeout does not fire* (`serve.rs:194`, run `readloop_idle`).
   Every tick starts it anew.  Above the heartbeat interval, as with the default
   60 s against 15 s, it never expires (`IdleYieldsToHeartbeat`), and a peer that
   is gone without a trace stays until the operating system notices.

More to know, which no statement of the repository forbids or no run of its own
shows:

* *All threads blocked.*  The `Ref` of `broadcast_group` makes joiners, and
  cleanups that prune, block their threads until the slowest send has returned.
  With as many of them as worker threads nobody is left to poll the fan-out.
  `GroupIndex_returns.cfg` with `Workers = 1` shows it; as it stands it says that
  one thread more than waiting calls is enough.
* *A teardown waits for fan-outs* (`clients.rs:459`, called at `serve.rs:128`).  A
  connection that is the last member of a group cannot be removed before the
  fan-out to that group, or to another one in its shard, has returned: its writer
  is not awaited and `on_disconnect` not called so long, nor ever after finding 2.
  `CancelledEnds` and `PeerEndEnds` assume fan-outs that return.
* *Ghost members* (`serve.rs:275`).  Handlers are cancelled but not joined; one
  that joins a group late leaves a member that no cleanup will remove, and so do
  two handlers that join and leave at once.  `GoneLeavesGroups` fails with
  `Serial = FALSE`; `NoGhosts` is what a hub gets that joins in `on_connect`.
* *Cancelled handlers* (`serve.rs:275-282`).  A handler may be dropped before its
  first poll when its connection ends right after the frame was decoded, though
  `hub.rs:129` says "called for every successfully decoded incoming message".  Or it
  may be called after the token has fired, and even after `on_disconnect`: `select!`
  polls its arms in random order, so `on_message` then runs up to its first await.
  `CallbacksInOrder` promises no more than that.  In the middle of a fan-out (`Abort`)
  some recipients get the message and others do not.
* *Where a lagging receiver resumes.*  `hub.rs:41` says it "skips forward to the
  latest message"; tokio goes on with the oldest message retained, so the document
  is wrong of the code.  `LosesOnlyBehind`, which a run checks, says what both have
  in common: who loses messages has fallen behind by more than the capacity.  That
  nothing is lost that has not been overrun itself (`LosesOnlyOverrun`) is what the
  code does beyond the document, and is proved.  tokio also rounds the capacity up
  to a power of two, so it keeps up to twice as many.
* *A second connect* without a disconnect leaves the first connection open and its
  handler called: its writer ends when the old sender is dropped, and sends no
  Close.  `Quiet` and `DropCloses` except these connections (`orphans`).
* *RTT.*  `policy.rs:37-38` speaks of "the elapsed time until the matching `Pong`
  arrives"; the code measures against the last Ping sent (`serve.rs:216`, `:255-262`),
  so a Pong that arrives after the next Ping yields too small a sample, and an RTT
  above the heartbeat interval is underestimated.  `RttMatchesUnlessCrossed` says
  when the sample is the one of the document, and which it is otherwise.

## What is proved

TLAPS proves, for any sets of connections, groups, tasks and handlers, any
assignment of groups to shards, and any queue capacity:

* `GroupIndexProofs!TypeCorrect`: `TypeOK`.  Its inductive form `TInv` adds that
  the locals a step is about to use hold a connection and a group (`Targets`)
  and that each program point belongs to its call (`CallSteps`).
* `GroupIndexProofs!NoGhostsHolds`: `NoGhosts`.  That a group does not list a
  connection that is gone is not inductive, since an eviction can run between
  the two insertions of a join.  The strengthening is `Accounted`: whoever is
  listed by a group will be found, either because `connection_groups` has the
  group, or because a join is about to record it there, or because a cleanup
  under way has it on its list.  It rests on `SerialInv` (one group call per
  connection, and none while it is removed, and one remover) and on `Taken`,
  `AbsentEmpty`, `LeftAlready` (`GhostInv`).
* `GroupIndexProofs!RecipientsDistinctHolds`: `RecipientsDistinct`, because a
  recipient collected has been consumed by the only iteration, or is in `seen`
  (`DistinctInv`).
* `GroupIndexProofs!NoMemberSkippedHolds`: `NoMemberSkipped`, because the `Ref`
  held excludes joiners and pruners, and every member is among the recipients
  or still to be visited (`GuardInv`).
* `GroupIndexProofs!NoLockCycleHolds`: `NoLockCycle`.  Whoever holds a `Ref` is
  scanning, checking or sending, or cleans up inside `broadcast_group`
  (`HolderSteps`, from `GuardHeld`), and only an eviction leads there
  (`EvictorsClean`); the first three never wait for a shard.  And tasks that wait,
  being fewer than the worker threads, leave one to go on with (`ThreadFree`).
  `SomebodyRunsHolds` draws the conclusion: under `Block` or `DropMessage`, or
  without `broadcast_group`, the registry does not deadlock.
* `GroupIndexProofs!CallAdvancesHolds`: `CallAdvances`, each step of a call goes
  down in a well-founded order, which needs finite sets of connections and
  groups and no fairness.  Together with the theorem before it says of any
  instance why fan-outs return; that they do, under the stated fairness, is what
  TLC checks on one (`FanOutReturns`).
* `GroupIndexProofs!JoinedIfAlone`: with a single task `JoinedIsMember` is an
  invariant (`SeqInv`), so the lost join of finding 1 is a race and nothing else.
* `GroupIndexProofs!LostJoinsNeedTheGap`: in a behaviour of `Spec` in which no
  removal takes out a group that somebody has joined since the check
  (`RemovesEmptyOnly`), and under `Serial`, a connection that is listed with a group
  in `connection_groups`, is registered and is not being served by a group call is a
  member of it (`RegisteredIsMember`), for any number of tasks, with fan-outs and
  evictions running.  So each join that such a hub loses is lost in the gap between
  the check and the removal, which is the whole of finding 1 for it.  Its invariant
  (`MemberInv`) says where the two indexes may disagree for a moment, and that an
  evicted connection never comes back.
* `SessionProofs!SessionTypeCorrect`, `TornDownHolds`, `NoZombieHolds`,
  `NotMuteHolds`, from the invariant `Inv`: types, the milestones of the teardown
  (`Progress`), `NoZombie` and `NotMute` themselves.
* `SessionProofs!NoWaitCycleHolds`: a serve task that waits for its writer has
  filled the queue or fired the token, and the writer looks at both, unless it is
  in `sink.send`; finding 3 is the case of a peer that never lets that return.
* `SessionProofs!CancelledGoesOnHolds`: wherever a cancelled connection is, its serve
  task can go on, or the writer it waits for can, except in two waits: the writer's
  for a stalled peer (`AwaitsPeer`) and the removal's for a fan-out (`AwaitsFanOut`).
  `PeerEndGoesOnHolds` says the same of a connection whose peer has closed or is
  lost, and of a lost one leaves the second wait alone; it needs that the Close stays
  in the socket until the loop has read it (`CloseUnread`).  Both are about guards
  (`ServeMoves`, `WriterMoves`), in the place of ENABLED.
* `SessionProofs!SessionImplementsLifecycle`: each step of `Session` is a step of
  `HubLifecycle` or a stutter, under the mapping above.  A handler that is dropped
  before its first poll is a `Skip`, because a connection whose token has fired is
  unregistered or in its teardown.
* `HubLifecycleProofs!QuietHolds`, `CallbacksInOrderHolds`, `OffForGoodHolds`, from the
  protocol alone: no message is taken or handled before `on_connect` has returned,
  nobody reaches or writes to a connection from `on_disconnect` on; the phases come
  in order, each once, messages are taken in the live phase only, `on_message` is
  called for messages taken, at any time, and left out only when the connection is
  given up; what was unregistered or lost its writer stays so.
  `SessionProofs!HubPromisesHold` takes all three over to the tasks of `serve.rs`
  through the refinement.
* `ReadLoopProofs!ReadLoopTypeCorrect`, for any idle timeouts, heartbeats and
  bounds; the window of samples stays within `rtt_samples`.
* `ReadLoopProofs!IdleYieldsToHeartbeatHolds`: because what is left of the idle
  timer exceeds what is left to the next tick by the difference of the periods
  (`TickFirst`).
* `ReadLoopProofs!SilentIsDroppedHolds`: without lag, silence and the idle timer
  add up to at most `idle_timeout`, and the next tick is at least
  `heartbeat_interval` after the last frame (`Accounted`).
* `ReadLoopProofs!RttMatchesUnlessCrossedHolds`: `ping_sent_at` is the age of the
  newest Ping, which is the last one still under way or, if there is none, the one
  that has just been answered (`Newest`).

* `SendPolicyProofs!PolicyTypeCorrect`; no queue exceeds its capacity.  Every step
  of `send_with_policy` is a `Hop` of one task between two program points, and a
  task that is sending has its recipient and no longer plans it (`Placed`).
* `SendPolicyProofs!EvictionAnnouncedHolds`: `Counted` says that, as long as
  `on_drop` has been called fewer than `MaxDrops` times, the counter plus the
  fan-outs that are about to count is at most the number of calls.  The counter
  may fall behind by resets, never run ahead.  So whoever reaches the threshold
  has been announced (`Announced`), with any number of senders.
* `SendPolicyProofs!DropsBoundedHolds`: while a connection is registered its
  counter exceeds the threshold only by the fan-outs about to unlist it;
  afterwards each task that still plans or sends to it may count once more
  (`Limited`, `Pending`), and no fan-out begins to.
* `SendPolicyProofs!OneEvictorHolds`: `OneEvictor` is inductive with the types:
  `connections.remove` answers `Some` once, to whoever goes on to cancel.
* `SendPolicyProofs!TriesEveryRecipientHolds` and `FanOutAdvancesHolds`: the steps
  of a send go one way (`HopDescends`), and only `Call` adds to a plan.
* `SendPolicyProofs!StepsOrAwaitsReaderHolds`: `WaitsOnlyForReaders` with the
  guards of the actions (`Guarded`) in the place of ENABLED.  `StepIsGuarded`
  proves that no action has a weaker guard; that it has no stronger one is read
  off the actions, which give each variable a value.
* `SendPolicyProofs!ConsecutiveIfOneSender`: `ConsecutiveDrops` holds of every behaviour
  in which no two fan-outs are at once between the send to a connection and the
  count or reset that follows it (`OneSender`, what a lock per connection would
  ensure), for the counter then never gets ahead of the streak.  So finding 4 takes
  two senders at one connection within these steps.  `ConsecutiveIfAlone`, for a
  single task, is a corollary.
* `BroadcastProofs!BroadcastTypeCorrect`, `OneRegistryHolds`,
  `LosesOnlyOverrunHolds` and with it `LosesOnlyBehindHolds`, from `BInv`: sockets use the registry
  of their hub and
  it counts its messages (`Shared`, `Counted`), and the last `Ring` messages sent
  are in their slots (`Retained`), for any capacity: two positions less than a lap
  apart have different slots (`SlotsDiffer`).
* `BroadcastProofs!BroadcastImplementsFifo`: each step of `Broadcast` is one of
  `LossyFifo` or a stutter.
* `LossyFifoProofs!ReceivesInOrderHolds`, about the abstract channel alone, where a
  socket's position is past everything it has received (`Passed`); and
  `BroadcastProofs!BroadcastReceivesInOrder`, which takes it over through the
  refinement instead of proving it of rings and lags again.
* `HubClientProofs!CodecRoundTrip`: every codec reads back what it wrote, also
  after the client's conversions.
* `HubClientProofs!ClientTypeCorrect`, `InOrderHolds`, `QuietHolds`,
  `NothingLostHolds`, `FlushedHolds`, from `IInv`.  For each connection, `Up` says that the numbers in
  what was heard, on the wire and in the channel are consecutive, add up to what
  was accepted while the link is intact, and that a Close is behind all of them
  with no sender left; `Down` says the same of the way back, around the first
  Ping.  `OwnerInv` ties the handles to the tasks.  `Flushed` follows because the
  server can only be "closed", and then "over", by that Close, and the reader ends
  only when the server's end is gone.
* `HubClientProofs!CloseUnderwayHolds`: `CloseUnderway`, by an invariant of its own
  for a connection given up (`Given`): its Close is at the end of the wire, or of
  the channel of a writer that runs.
* `HubClientProofs!DisconnectGoesOnHolds`: a `disconnect` that has not returned waits for a
  task that is done or whose guard holds, or for a server that has a message to
  take or has read the Close and is tearing the connection down; it never waits for
  a server that has not been told.  How long the server takes is bounded by
  nothing.  `RunsDryHolds`: once the owner has given a connection up, every
  step at its channel, its writer or its messages under way leaves fewer of them
  (`Pending`), whatever other connections do.

The assumptions are those the modules name (`ConstantsAssumption`,
`SessionAssumption`, `ReadLoopAssumption`, `PolicyAssumption`,
`BroadcastAssumption`, `RingAssumption`, `ClientAssumption`); nothing else is
taken for granted.  `PolicyAssumption` and `ConstantsAssumption` ask that the tasks
are finitely many, since `DropsBounded` and `Polled` count them.

*Only model-checked:* liveness (`FanOutReturns`, `CancelledEnds`, `PeerEndEnds`,
`DisconnectReturns`, `DropCloses`, `Reaches`) and `WaitsOnlyForReaders`, which
speaks of ENABLED; both are out of the prover's reach.  The safety behind them is
proved: `NoLockCycle` and `CallAdvances` for the return of a fan-out, `NoWaitCycle`,
`CancelledGoesOn` and `PeerEndGoesOn` for the end of a connection, `CloseUnderway`,
`DisconnectGoesOn` and `RunsDry` for that of a client's, and `StepsOrAwaitsReader` for
whom a fan-out waits for.  Where a theorem speaks of guards, `MovesAreGuards` (or
`StepIsGuarded`) proves that no action has a weaker one.

## Not modelled

* *Time* in `Session`; `IdleFires` stands for both relations of the two timers
  that `ReadLoop` studies.
* *The average RTT*: `SendPolicy` lets any connection become slow or recover.
  `rtt_samples = 0` is excluded: the window would then grow without bound.
* *The formats of serde*: a payload either reads back in its format or does not
  decode.
* *Panics* of callbacks and serve futures dropped by their caller: nothing in the
  code cleans up after them, and nothing says that it should.
* *Calls of the client's owner dropped half-way*: `connect` and `disconnect` are
  awaited to their end.
* *Crate root, examples and benchmarks*: re-exports and demonstrations.

## What is left

* The composition of `Session` and `GroupIndex` over one registry.  Each has the
  other's part as free steps (`Enqueue`, `Evict`, `EvictCancel`, `RemoveWaits` and
  `ShardFreed` in `Session`; `Add`, `CallRemove` and the calls of any task in
  `GroupIndex`), so the safety of either should carry over; their liveness does not:
  `Session` assumes fan-outs that return and a thread that is left, `GroupIndex` sends
  that end, and each is in part the other's matter.  The composition would also derive
  `Serial` from when handlers run instead of assuming it.
* A serve future that is dropped, should the library come to define what happens.
