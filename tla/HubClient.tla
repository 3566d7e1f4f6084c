----------------------------- MODULE HubClient ------------------------------
(***************************************************************************)
(* HubClient (hub_client.rs): the calls of its owner, the writer and the   *)
(* reader task of each connection, and as much of the server as they see   *)
(* of it.                                                                  *)
(*                                                                         *)
(* The value of a message is its number among those that its side has      *)
(* accepted for the connection.  A message that does not encode, a failed  *)
(* connect and a send without a connection change nothing and are not      *)
(* actions.                                                                *)
(***************************************************************************)
EXTENDS Naturals, Sequences, Codec

CONSTANTS
  codec,   \* the codec of the client and of its hub
  Links,   \* the connections that the client may open, one after the other
  MaxMsg,  \* messages that send accepts for each connection
  MaxSaid, \* messages that the server sends over each
  Wire     \* messages under way in each direction

ASSUME ClientAssumption ==
  /\ codec \in Codecs
  /\ Links \in Nat \ {0}
  /\ MaxMsg \in [1 .. Links -> Nat]
  /\ MaxSaid \in [1 .. Links -> Nat]
  /\ Wire \in Nat \ {0}

Link == 1 .. Links
NoLink == 0

VARIABLES
  api,       \* where the owner's call of disconnect is, or "idle"
  tx,        \* the connection whose channel `tx` feeds
  handle,    \* the connection whose tasks `writer` and `reader` are
  handler,   \* a handler has been set with on_message
  orphans,   \* connections that a further connect has replaced
  hears,     \* connections whose reader has captured a handler
  out,       \* the channel of each connection
  writer,    \* its writer task
  reader,    \* its reader task
  up, down,  \* messages on their way to the server and back
  server,    \* what has become of the server's end
  accepted,  \* history: messages that send has accepted
  heard,     \* history: messages that the server has decoded
  said,      \* history: messages that the server has sent
  told       \* history: messages that the handler has been called with

owner == <<api, tx, handle, handler, orphans, hears>>
sending == <<out, writer, up, accepted>>
receiving == <<reader, down, said, told>>
serving == <<server, heard>>
vars == <<owner, sending, receiving, serving>>

Message ==
  [variant : Variants, format : Codecs \cup {"none"}, value : Nat]

TaskStates == {"none", "running", "done"}

TypeOK ==
  /\ api \in {"idle", "joinWriter", "joinReader", "dropped"}
  /\ tx \in Link \cup {NoLink}
  /\ handle \in Link \cup {NoLink}
  /\ handler \in BOOLEAN
  /\ orphans \subseteq Link
  /\ hears \subseteq Link
  /\ out \in [Link -> Seq(Message)]
  /\ writer \in [Link -> TaskStates]
  /\ reader \in [Link -> TaskStates]
  /\ up \in [Link -> Seq(Message)]
  /\ down \in [Link -> Seq(Message)]
  /\ server \in [Link -> {"none", "open", "closed", "over", "lost"}]
  /\ accepted \in [Link -> Nat]
  /\ heard \in [Link -> Seq(Nat)]
  /\ said \in [Link -> Nat]
  /\ told \in [Link -> Seq(Nat)]

Init ==
  /\ api = "idle"
  /\ tx = NoLink
  /\ handle = NoLink
  /\ handler = FALSE
  /\ orphans = {}
  /\ hears = {}
  /\ out = [k \in Link |-> <<>>]
  /\ writer = [k \in Link |-> "none"]
  /\ reader = [k \in Link |-> "none"]
  /\ up = [k \in Link |-> <<>>]
  /\ down = [k \in Link |-> <<>>]
  /\ server = [k \in Link |-> "none"]
  /\ accepted = [k \in Link |-> 0]
  /\ heard = [k \in Link |-> <<>>]
  /\ said = [k \in Link |-> 0]
  /\ told = [k \in Link |-> <<>>]

-----------------------------------------------------------------------------
(* The owner of the client                                                 *)

OnMessage ==
  /\ api = "idle"
  /\ handler' = TRUE
  /\ UNCHANGED <<api, tx, handle, orphans, hears,
                 sending, receiving, serving>>

\* Mutant: it takes for granted that there is a connection to replace.
ConnectReplacing(k) ==
  /\ api = "idle"
  /\ server[k] = "none"
  /\ \A j \in 1 .. k - 1 : server[j] # "none"
  /\ tx' = k
  /\ handle' = k
  /\ orphans' = orphans \cup {handle}
  /\ hears' = IF handler THEN hears \cup {k} ELSE hears
  /\ writer' = [writer EXCEPT ![k] = "running"]
  /\ reader' = [reader EXCEPT ![k] = "running"]
  /\ server' = [server EXCEPT ![k] = "open"]
  /\ down' = [down EXCEPT ![k] = <<Control("Ping")>>]
  /\ UNCHANGED <<api, handler, out, up, accepted, said, told, heard>>

\* Mutant: the writer of the connection before it is aborted.
ConnectAborting(k) ==
  /\ api = "idle"
  /\ server[k] = "none"
  /\ \A j \in 1 .. k - 1 : server[j] # "none"
  /\ tx' = k
  /\ handle' = k
  /\ orphans' = orphans \cup ({handle} \ {NoLink})
  /\ hears' = IF handler THEN hears \cup {k} ELSE hears
  /\ writer' = [j \in Link |-> IF j = k THEN "running" ELSE
                               IF j = tx THEN "done" ELSE writer[j]]
  /\ out' = [j \in Link |-> IF j = tx THEN <<>> ELSE out[j]]
  /\ reader' = [reader EXCEPT ![k] = "running"]
  /\ server' = [server EXCEPT ![k] = "open"]
  /\ down' = [down EXCEPT ![k] = <<Control("Ping")>>]
  /\ UNCHANGED <<api, handler, up, accepted, said, told, heard>>

\* A further connect drops the sender and the handles of the one before it.
\* The server's first Ping is under way at once (tokio's interval).
Connect(k) ==
  /\ api = "idle"
  /\ server[k] = "none"
  /\ \A j \in 1 .. k - 1 : server[j] # "none"
  /\ tx' = k
  /\ handle' = k
  /\ orphans' = orphans \cup ({handle} \ {NoLink})
  /\ hears' = IF handler THEN hears \cup {k} ELSE hears
  /\ writer' = [writer EXCEPT ![k] = "running"]
  /\ reader' = [reader EXCEPT ![k] = "running"]
  /\ server' = [server EXCEPT ![k] = "open"]
  /\ down' = [down EXCEPT ![k] = <<Control("Ping")>>]
  /\ UNCHANGED <<api, handler, out, up, accepted, said, told, heard>>

\* Sending on a channel whose receiver the writer has dropped is an error.
Queue(k, msg) ==
  out' = IF k # NoLink /\ writer[k] = "running"
           THEN [out EXCEPT ![k] = Append(@, msg)]
           ELSE out

Send ==
  /\ api = "idle"
  /\ tx # NoLink
  /\ writer[tx] = "running"
  /\ accepted[tx] < MaxMsg[tx]
  /\ Queue(tx, AxumToTung(Encode(codec, accepted[tx] + 1)))
  /\ accepted' = [accepted EXCEPT ![tx] = @ + 1]
  /\ UNCHANGED <<owner, writer, up, receiving, serving>>

\* Mutant: the Close overtakes the messages in the channel.
DisconnectAtOnce ==
  /\ api = "idle"
  /\ api' = "joinWriter"
  /\ tx' = NoLink
  /\ out' = IF tx # NoLink /\ writer[tx] = "running"
              THEN [out EXCEPT ![tx] = <<Control("Close")>> \o @]
              ELSE out
  /\ UNCHANGED <<handle, handler, orphans, hears,
                 writer, up, accepted, receiving, serving>>

\* Mutant: the sender is borrowed, not taken.
DisconnectKeepsTx ==
  /\ api = "idle"
  /\ api' = "joinWriter"
  /\ Queue(tx, Control("Close"))
  /\ UNCHANGED <<tx, handle, handler, orphans, hears,
                 writer, up, accepted, receiving, serving>>

Disconnect ==
  /\ api = "idle"
  /\ api' = "joinWriter"
  /\ tx' = NoLink
  /\ Queue(tx, Control("Close"))
  /\ UNCHANGED <<handle, handler, orphans, hears,
                 writer, up, accepted, receiving, serving>>

JoinWriter ==
  /\ api = "joinWriter"
  /\ handle # NoLink => writer[handle] = "done"
  /\ api' = "joinReader"
  /\ UNCHANGED <<tx, handle, handler, orphans, hears,
                 sending, receiving, serving>>

\* Mutant: the reader is detached.
JoinReaderDetached ==
  /\ api = "joinReader"
  /\ api' = "idle"
  /\ handle' = NoLink
  /\ UNCHANGED <<tx, handler, orphans, hears,
                 sending, receiving, serving>>

\* disconnect returns.
JoinReader ==
  /\ api = "joinReader"
  /\ handle # NoLink => reader[handle] = "done"
  /\ api' = "idle"
  /\ handle' = NoLink
  /\ UNCHANGED <<tx, handler, orphans, hears,
                 sending, receiving, serving>>

\* Mutant: no impl Drop.
DropSilently ==
  /\ api = "idle"
  /\ api' = "dropped"
  /\ tx' = NoLink
  /\ UNCHANGED <<handle, handler, orphans, hears,
                 sending, receiving, serving>>

\* Drop: the tasks go on, detached.
Drop ==
  /\ api = "idle"
  /\ api' = "dropped"
  /\ tx' = NoLink
  /\ Queue(tx, Control("Close"))
  /\ UNCHANGED <<handle, handler, orphans, hears,
                 writer, up, accepted, receiving, serving>>

-----------------------------------------------------------------------------
(* The tasks of a connection                                               *)

\* Mutant: a message is sent again as if the first attempt had failed.
WriterSendsAgain(k) ==
  /\ writer[k] = "running" /\ out[k] # <<>>
  /\ server[k] = "open" /\ Len(up[k]) < Wire
  /\ up' = [up EXCEPT ![k] = Append(@, Head(out[k]))]
  /\ out' \in {out, [out EXCEPT ![k] = Tail(@)]}
  /\ UNCHANGED <<owner, writer, accepted, receiving, serving>>

WriterSends(k) ==
  /\ writer[k] = "running" /\ out[k] # <<>>
  /\ server[k] = "open" /\ Len(up[k]) < Wire
  /\ up' = [up EXCEPT ![k] = Append(@, Head(out[k]))]
  /\ out' = [out EXCEPT ![k] = Tail(@)]
  /\ UNCHANGED <<owner, writer, accepted, receiving, serving>>

\* The other end is gone: the message is lost, and the writer may learn of it.
WriterFails(k) ==
  /\ writer[k] = "running" /\ out[k] # <<>>
  /\ server[k] # "open"
  /\ \/ writer' = [writer EXCEPT ![k] = "done"] /\ out' = [out EXCEPT ![k] = <<>>]
     \/ writer' = writer /\ out' = [out EXCEPT ![k] = Tail(@)]
  /\ UNCHANGED <<owner, up, accepted, receiving, serving>>

\* recv returns None: the sender is dropped and the channel drained.
WriterEnds(k) ==
  /\ writer[k] = "running" /\ out[k] = <<>>
  /\ tx # k
  /\ writer' = [writer EXCEPT ![k] = "done"]
  /\ UNCHANGED <<owner, out, up, accepted, receiving, serving>>

ReaderReads(k) ==
  LET msg == TungToAxum(Head(down[k])) IN
  /\ reader[k] = "running" /\ down[k] # <<>>
  /\ down' = [down EXCEPT ![k] = Tail(@)]
  /\ told' = IF k \in hears /\ Decodes(codec, msg)
               THEN [told EXCEPT ![k] = Append(@, Decode(codec, msg))]
               ELSE told
  /\ UNCHANGED <<owner, sending, reader, said, serving>>

\* The stream ends or fails, which it does when the server has dropped its half
\* or the link has broken; what is still on its way may be lost.
ReaderEnds(k) ==
  /\ reader[k] = "running"
  /\ server[k] \in {"over", "lost"}
  /\ reader' = [reader EXCEPT ![k] = "done"]
  /\ down' = [down EXCEPT ![k] = <<>>]
  /\ UNCHANGED <<owner, sending, said, told, serving>>

-----------------------------------------------------------------------------
(* The server's end                                                        *)

ServerReads(k) ==
  LET msg == Head(up[k]) IN
  /\ server[k] = "open" /\ up[k] # <<>>
  /\ up' = [up EXCEPT ![k] = Tail(@)]
  /\ server' = IF msg.variant = "Close"
                 THEN [server EXCEPT ![k] = "closed"] ELSE server
  /\ heard' = IF Decodes(codec, msg)
                THEN [heard EXCEPT ![k] = Append(@, Decode(codec, msg))]
                ELSE heard
  /\ UNCHANGED <<owner, out, writer, accepted, receiving>>

ServerSends(k) ==
  /\ server[k] = "open"
  /\ said[k] < MaxSaid[k] /\ Len(down[k]) < Wire
  /\ said' = [said EXCEPT ![k] = @ + 1]
  /\ down' = [down EXCEPT ![k] = Append(@, Encode(codec, said[k] + 1))]
  /\ UNCHANGED <<owner, sending, reader, told, serving>>

\* The server has left its loop at the Close: remove, the join of its writer and
\* on_disconnect return and the stream is dropped, or the link breaks meanwhile.
ServerReleases(k) ==
  /\ server[k] = "closed"
  /\ server' = [server EXCEPT ![k] = "over"]
  /\ UNCHANGED <<owner, sending, receiving, heard>>

\* A crash, a broken link, or a server that has left its loop for another reason
\* (an eviction, an idle timeout) and has dropped the stream.
ServerLost(k) ==
  /\ server[k] = "open"
  /\ server' = [server EXCEPT ![k] = "lost"]
  /\ up' = [up EXCEPT ![k] = <<>>]
  /\ UNCHANGED <<owner, out, writer, accepted, receiving, heard>>

-----------------------------------------------------------------------------
Writer(k) == WriterSends(k) \/ WriterFails(k) \/ WriterEnds(k)

Next ==
  \/ OnMessage \/ Send \/ Disconnect \/ JoinWriter \/ JoinReader \/ Drop
  \/ \E k \in Link :
       \/ Connect(k) \/ Writer(k) \/ ReaderReads(k) \/ ReaderEnds(k)
       \/ ServerReads(k) \/ ServerSends(k) \/ ServerReleases(k) \/ ServerLost(k)

Spec == Init /\ [][Next]_vars

\* The client's tasks run.  The server reads what arrives or is lost: its read
\* loop stops only for a full queue, and this client always reads.  A server that
\* has read the Close drops its stream in the end, or the link breaks: remove,
\* the writer and on_disconnect return.  This is an assumption about the server
\* and its hub; the client has no timeout of its own.
FairSpec ==
  /\ Spec
  /\ WF_vars(JoinWriter) /\ WF_vars(JoinReader)
  /\ \A k \in Link : /\ WF_vars(Writer(k))
                     /\ WF_vars(ReaderEnds(k))
                     /\ WF_vars(ServerReads(k))
                     /\ WF_vars(ServerReleases(k))

-----------------------------------------------------------------------------
(* Properties                                                              *)

\* In both directions messages are decoded in the order in which they were
\* accepted, without gaps or repetitions, whatever is lost at the end
\* (hub_client.rs:239, "queues it for delivery").
InOrder ==
  \A k \in Link :
    /\ \A i \in 1 .. Len(heard[k]) : heard[k][i] = i
    /\ \A i \in 1 .. Len(told[k]) : told[k][i] = i
    /\ Len(heard[k]) <= accepted[k]
    /\ Len(told[k]) <= said[k]

Closing == Control("Close")
Closed(s) == s # <<>> /\ s[Len(s)] = Closing

\* The messages in s, leaving out a Close at its end.
Count(s) == IF Closed(s) THEN Len(s) - 1 ELSE Len(s)

\* As long as the server's end is open, no accepted message has been lost: it
\* is decoded, under way, or in the channel of a writer that still runs, also
\* when a further connect has replaced the connection (hub_client.rs:239,
\* "queues it for delivery").
NothingLost ==
  \A k \in Link :
    server[k] = "open" =>
      /\ Len(heard[k]) + Count(up[k]) + Count(out[k]) = accepted[k]
      /\ out[k] # <<>> => writer[k] = "running"

\* A connection that its owner has given up, by disconnect or by dropping the
\* client, is closed or will be: as long as the server's end is open a Close
\* is under way to it, behind everything else, and while it is still in the
\* channel the writer runs (hub_client.rs:148).  Not so a connection that a
\* further connect replaced.
CloseUnderway ==
  \A k \in Link :
    (server[k] = "open" /\ tx # k /\ k \notin orphans) =>
      Closed(up[k]) \/ (Closed(out[k]) /\ writer[k] = "running")

\* When disconnect returns, the server has decoded every message accepted
\* before and has dropped its end, unless it was lost on its own
\* (hub_client.rs:222, "all in-flight messages have been flushed").
Flushed ==
  [][(api = "joinReader" /\ api' = "idle" /\ handle # NoLink)
       => \/ server[handle] = "lost"
          \/ server[handle] = "over" /\ Len(heard[handle]) = accepted[handle]
    ]_vars

\* No task runs but those that disconnect would wait for: once it has returned
\* the handler is not called any more, except by connections that were
\* replaced without a disconnect (hub_client.rs:219, "waits for both background
\* tasks to exit").
Quiet ==
  \A k \in Link : "running" \in {writer[k], reader[k]} => k \in orphans \cup {handle}

\* disconnect returns (hub_client.rs:221), provided that the server goes on
\* reading and tears the connection down once it has read the Close, or that its
\* loss is noticed (FairSpec): neither disconnect nor the tasks that it waits for
\* have a timeout.
DisconnectReturns == (api \in {"joinWriter", "joinReader"}) ~> (api = "idle")

\* A client that goes out of scope closes its connection, unless a further
\* connect had replaced it before (hub_client.rs:148).
DropCloses ==
  \A k \in Link :
    (api = "dropped" /\ k \notin orphans) ~> (server[k] # "open" \/ k \in orphans)
=============================================================================
