------------------------------ MODULE ReadLoop ------------------------------
(***************************************************************************)
(* The timers of run_read_loop (serve.rs) on one connection: the idle      *)
(* timeout, which select! starts anew in each iteration, the heartbeat,    *)
(* and the RTT samples taken from Pings and Pongs.  The tasks around the   *)
(* loop are in Session, which has no time.                                 *)
(*                                                                         *)
(* Time is discrete and the loop is punctual: time passes while the loop   *)
(* waits in select! and nothing is due, or while it waits for a place in   *)
(* the queue of the writer.                                                *)
(***************************************************************************)
EXTENDS Integers, Sequences

CONSTANTS
  Idles,       \* values of idle_timeout
  Heartbeats,  \* values of heartbeat_interval
  RttSamples,  \* rtt_samples of DropOnHighRtt
  MaxAge,      \* bound: ages are not told apart from here on
  MaxLate,     \* bound: the longest the loop lags behind its heartbeat
  MaxFlight,   \* bound: Pings that the peer may still answer
  MaxSilence,  \* bound: silence is not told apart from here on
  NoPing       \* ping_sent_at is None

ASSUME ReadLoopAssumption ==
  /\ Idles \subseteq Nat \ {0}
  /\ Heartbeats \subseteq Nat \ {0}
  /\ RttSamples \in Nat \ {0}
  /\ MaxAge \in Nat
  /\ MaxLate \in Nat
  /\ MaxFlight \in Nat \ {0}
  /\ MaxSilence \in Nat /\ \A i \in Idles : i < MaxSilence
  /\ NoPing \notin Int

VARIABLES
  idle, heartbeat,  \* the configuration
  at,        \* where the loop is
  idleIn,    \* time left to the idle timer of this iteration
  tickIn,    \* time left to the next tick, negative when it is overdue
  pingAge,   \* time since ping_sent_at, or NoPing
  inbox,     \* the next frame of the stream, "none" if none has arrived
  answered,  \* age of the Ping that the Pong in inbox answers
  flight,    \* ages of the Pings that the peer may yet answer
  samples,   \* ConnectionState.rtt_samples
  silence,   \* history: time waited for a frame since the last one
  lagged     \* history: the loop has waited for a place in the queue since
             \* the last frame

config == <<idle, heartbeat>>
vars == <<idle, heartbeat, at, idleIn, tickIn, pingAge, inbox, answered,
          flight, samples, silence, lagged>>

history == <<silence, lagged>>

Age == 0 .. MaxAge
Older(age) == IF age < MaxAge THEN age + 1 ELSE age

TypeOK ==
  /\ idle \in Idles
  /\ heartbeat \in Heartbeats
  /\ at \in {"select", "pinging", "ponging", "ended"}
  /\ idleIn \in 0 .. idle
  /\ tickIn \in Int /\ tickIn <= heartbeat
  /\ pingAge \in Age \cup {NoPing}
  /\ inbox \in {"none", "data", "ping", "pong"}
  /\ answered \in Age
  /\ flight \in Seq(Age) /\ Len(flight) <= MaxFlight
  /\ samples \in Seq(Age) /\ Len(samples) <= RttSamples
  /\ silence \in 0 .. MaxSilence
  /\ lagged \in BOOLEAN

\* The first tick of an interval is due at once.
Init ==
  /\ idle \in Idles
  /\ heartbeat \in Heartbeats
  /\ at = "select"
  /\ idleIn = idle
  /\ tickIn = 0
  /\ pingAge = NoPing
  /\ inbox = "none"
  /\ answered = 0
  /\ flight = <<>>
  /\ samples = <<>>
  /\ silence = 0
  /\ lagged = FALSE

-----------------------------------------------------------------------------
(* The loop                                                                *)

\* A new iteration, with a new timeout around stream.next().
Select == at' = "select" /\ idleIn' = idle

\* Every frame, a control frame included, puts the next tick off.
ReadFrame(kind) ==
  /\ at = "select"
  /\ inbox = kind
  /\ inbox' = "none"
  /\ answered' = 0
  /\ tickIn' = heartbeat
  /\ silence' = 0
  /\ lagged' = FALSE

\* Mutant: a data frame does not reset the heartbeat.
HandleDataKeepsTick ==
  /\ at = "select" /\ inbox = "data"
  /\ inbox' = "none" /\ answered' = 0 /\ silence' = 0 /\ lagged' = FALSE
  /\ Select
  /\ UNCHANGED <<config, tickIn, pingAge, flight, samples>>

HandleData ==
  /\ ReadFrame("data")
  /\ Select
  /\ UNCHANGED <<config, pingAge, flight, samples>>

HandlePing ==
  /\ ReadFrame("ping")
  /\ at' = "ponging"
  /\ UNCHANGED <<config, idleIn, pingAge, flight, samples>>

\* Mutant: the window never gives up a sample.
RecordAll(sample) == samples' = Append(samples, sample)

\* update_rtt: the oldest sample makes way when the window is full.
Record(sample) ==
  samples' = Append(IF Len(samples) = RttSamples THEN Tail(samples)
                                                 ELSE samples, sample)

HandlePong ==
  /\ ReadFrame("pong")
  /\ Select
  /\ IF pingAge = NoPing THEN UNCHANGED samples ELSE Record(pingAge)
  /\ pingAge' = NoPing
  /\ UNCHANGED <<config, flight>>

\* One more Ping; the peer never answers the one that is forgotten for it.
NewPing ==
  Append(IF Len(flight) = MaxFlight THEN Tail(flight) ELSE flight, 0)

\* Mutant: a Ping that is still unanswered keeps its time.
TickKeepsPing ==
  /\ at = "select"
  /\ tickIn <= 0
  /\ at' = "pinging"
  /\ tickIn' = tickIn + heartbeat
  /\ pingAge' = IF pingAge = NoPing THEN 0 ELSE pingAge
  /\ flight' = NewPing
  /\ UNCHANGED <<config, idleIn, inbox, answered, samples, history>>

\* The next tick is due one period after this one was, late or not.
Tick ==
  /\ at = "select"
  /\ tickIn <= 0
  /\ at' = "pinging"
  /\ tickIn' = tickIn + heartbeat
  /\ pingAge' = 0
  /\ flight' = NewPing
  /\ UNCHANGED <<config, idleIn, inbox, answered, samples, history>>

\* Mutant: one idle timer for the whole loop, restarted by frames only.
SendPingResume ==
  /\ at = "pinging"
  /\ at' = "select"
  /\ UNCHANGED <<config, idleIn, tickIn, pingAge, inbox, answered,
                 flight, samples, history>>

\* heartbeat_tx.send returns.
SendPing ==
  /\ at = "pinging"
  /\ Select
  /\ UNCHANGED <<config, tickIn, pingAge, inbox, answered,
                 flight, samples, history>>

SendPong ==
  /\ at = "ponging"
  /\ Select
  /\ UNCHANGED <<config, tickIn, pingAge, inbox, answered,
                 flight, samples, history>>

\* timeout() polls the stream before its deadline.
IdleTimeout ==
  /\ at = "select"
  /\ inbox = "none"
  /\ idleIn = 0
  /\ at' = "ended"
  /\ UNCHANGED <<config, idleIn, tickIn, pingAge, inbox, answered,
                 flight, samples, history>>

\* Close, a read error, the end of the stream, a closed queue or the token.
End ==
  /\ at # "ended"
  /\ at' = "ended"
  /\ UNCHANGED <<config, idleIn, tickIn, pingAge, inbox, answered,
                 flight, samples, history>>

-----------------------------------------------------------------------------
(* The peer and the clock                                                  *)

Arrive(kind) ==
  /\ at # "ended"
  /\ inbox = "none"
  /\ inbox' = kind
  /\ UNCHANGED <<config, at, idleIn, tickIn, pingAge, answered,
                 flight, samples, history>>

\* The Pong that answers the Ping at position i, and no Ping before it.  The
\* last one is not sent yet while the loop is still pinging.
ArrivePong(i) ==
  /\ at # "ended"
  /\ at = "pinging" => i < Len(flight)
  /\ inbox = "none"
  /\ inbox' = "pong"
  /\ answered' = flight[i]
  /\ flight' = SubSeq(flight, i + 1, Len(flight))
  /\ UNCHANGED <<config, at, idleIn, tickIn, pingAge, samples, history>>

\* One unit of time.  The idle timer exists only in select!.
Pass ==
  /\ \/ /\ at = "select"
        /\ inbox = "none" /\ idleIn > 0 /\ tickIn > 0
        /\ idleIn' = idleIn - 1
        /\ silence' = IF silence < MaxSilence THEN silence + 1 ELSE silence
        /\ UNCHANGED lagged
     \/ /\ at \in {"pinging", "ponging"}
        /\ tickIn > -MaxLate
        /\ lagged' = TRUE
        /\ UNCHANGED <<idleIn, silence>>
  /\ tickIn' = tickIn - 1
  /\ pingAge' = IF pingAge = NoPing THEN NoPing ELSE Older(pingAge)
  /\ answered' = IF inbox = "pong" THEN Older(answered) ELSE answered
  /\ flight' = [i \in DOMAIN flight |-> Older(flight[i])]
  /\ UNCHANGED <<config, at, inbox, samples>>

Next ==
  \/ HandleData \/ HandlePing \/ HandlePong
  \/ Tick \/ SendPing \/ SendPong \/ IdleTimeout \/ End
  \/ Arrive("data") \/ Arrive("ping") \/ \E i \in DOMAIN flight : ArrivePong(i)
  \/ Pass

Spec == Init /\ [][Next]_vars

-----------------------------------------------------------------------------
(* Properties                                                              *)

\* A sample is the age of the Ping that the Pong answers ("the elapsed time until
\* the matching Pong arrives", policy.rs:37-38), provided that no later Ping has
\* been sent when the Pong is read.  Otherwise the code does not do what that
\* sentence says: it measures the Pong against the last Ping, which yields too
\* small a sample, never too large a one, so that no connection is evicted under
\* DropOnHighRtt for more than it is guilty of.
RttMatchesUnlessCrossed ==
  (inbox = "pong" /\ pingAge # NoPing) =>
    IF flight = <<>> THEN pingAge = answered
                     ELSE pingAge = flight[Len(flight)] /\ pingAge <= answered

\* With an idle timeout above the heartbeat interval, as in the default
\* configuration, the idle timer never expires: a tick comes first and starts
\* it anew.
IdleYieldsToHeartbeat == heartbeat < idle => idleIn > 0

\* With an idle timeout below the heartbeat interval a silent peer is dropped
\* in time, provided that no control frame waits for a place in the queue:
\* each one that does brings the next tick nearer, and may restart the timer.
SilentIsDropped ==
  (idle < heartbeat /\ ~lagged /\ at # "ended") => silence <= idle

\* A connection that stays idle for longer than idle_timeout is dropped
\* (hub.rs:15, "how long a connection may remain idle (no incoming messages)
\* before it is dropped").
IdleIsDropped == at # "ended" => silence <= idle
=============================================================================
