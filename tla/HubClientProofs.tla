--------------------------- MODULE HubClientProofs --------------------------
(***************************************************************************)
(* HubClient for any number of connections and messages and every codec:   *)
(* types, order in both directions, and what disconnect guarantees.        *)
(*                                                                         *)
(* The invariants of the two directions of a connection are operators on   *)
(* values, so that what a step does to a channel is a lemma about          *)
(* sequences.                                                              *)
(***************************************************************************)
EXTENDS HubClient, Integers, TLAPS

-----------------------------------------------------------------------------
(* Codecs                                                                  *)

\* Every codec reads back what it has written, also through the conversions
\* of the client.
THEOREM CodecRoundTrip ==
  \A c \in Codecs, n \in Nat :
    LET msg == Encode(c, n) IN
    /\ AxumToTung(msg) = msg /\ TungToAxum(msg) = msg
    /\ Decodes(c, msg) /\ Decode(c, msg) = n
BY DEF Codecs, Encode, Produces, Accepts, AxumToTung, TungToAxum, Decodes, Decode

Pinging == Control("Ping")

LEMMA DataFacts ==
  \A n \in Nat :
    /\ Encode(codec, n) \in Message
    /\ Encode(codec, n).variant # "Close"
    /\ Encode(codec, n) # Closing
    /\ Encode(codec, n) # Pinging
BY ClientAssumption
DEF Codecs, Encode, Produces, Message, Variants, Closing, Pinging, Control, NoMessage

LEMMA ControlFacts ==
  /\ Closing \in Message /\ Pinging \in Message
  /\ Closing.variant = "Close"
  /\ ~Decodes(codec, Closing)
  /\ ~Decodes(codec, TungToAxum(Pinging))
BY ClientAssumption
DEF Codecs, Accepts, Message, Variants, Closing, Pinging, Control, NoMessage,
    Decodes, TungToAxum

-----------------------------------------------------------------------------
(* The way up                                                              *)

\* The messages n + 1, n + 2, ..., and a Close at most at the end.
Numbered(s, n) ==
  \A i \in 1 .. Len(s) :
    s[i] = Encode(codec, n + i) \/ (i = Len(s) /\ s[i] = Closing)

\* For the channel o of writer w, the frames u on their way to server v, the
\* count a of accepted messages and those, h, heard; x is the
\* connection that tx feeds.
UpInv(k, x, o, w, u, v, a, h) ==
  /\ \A i \in 1 .. Len(h) : h[i] = i
  /\ Numbered(u, Len(h))
  /\ Len(h) + Count(u) <= a
  /\ (v = "open" /\ w = "running") =>
       /\ Numbered(o, Len(h) + Len(u))
       /\ Len(h) + Count(u) + Count(o) = a
       /\ Closed(u) => o = <<>>
       /\ Closed(u) \/ Closed(o) => x # k
  /\ (v = "open" /\ Closed(u)) => Len(h) + Count(u) = a /\ x # k
  /\ (v = "open" /\ x = k) => w = "running"
  /\ (v = "open" /\ w = "done") => Len(h) + Count(u) = a /\ o = <<>>
  /\ v \in {"closed", "over"} => Len(h) = a /\ x # k
  /\ v = "none" => /\ w = "none" /\ x # k
                   /\ o = <<>> /\ u = <<>> /\ h = <<>> /\ a = 0
  /\ v # "none" => w # "none"

LEMMA AppendFacts ==
  ASSUME NEW s \in Seq(Message), NEW msg \in Message
  PROVE  /\ Append(s, msg) \in Seq(Message)
         /\ Len(Append(s, msg)) = Len(s) + 1
         /\ Append(s, msg)[Len(s) + 1] = msg
         /\ Append(s, msg) # <<>>
         /\ \A i \in 1 .. Len(s) : Append(s, msg)[i] = s[i]
OBVIOUS

LEMMA TailFacts ==
  ASSUME NEW s \in Seq(Message), s # <<>>
  PROVE  /\ Head(s) = s[1] /\ Head(s) \in Message
         /\ Tail(s) \in Seq(Message)
         /\ Len(s) \in Nat \ {0} /\ Len(Tail(s)) = Len(s) - 1
         /\ \A i \in 1 .. Len(s) - 1 : Tail(s)[i] = s[i + 1]
         /\ Len(s) = 1 => Tail(s) = <<>>
<1>1. /\ Head(s) = s[1] /\ Head(s) \in Message
      /\ Tail(s) \in Seq(Message)
      /\ Len(s) \in Nat \ {0} /\ Len(Tail(s)) = Len(s) - 1
      /\ \A i \in 1 .. Len(s) - 1 : Tail(s)[i] = s[i + 1]
  OBVIOUS
<1>2. \A t \in Seq(Message) : Len(t) = 0 => t = <<>>
  OBVIOUS
<1>3. Len(s) = 1 => Len(Tail(s)) = 0
  BY <1>1
<1> QED BY <1>1, <1>2, <1>3

\* Taking the first frame of a numbered channel.
LEMMA NumberedTail ==
  ASSUME NEW s \in Seq(Message), NEW n \in Nat, s # <<>>, Numbered(s, n)
  PROVE  /\ s[1] = Encode(codec, n + 1) \/ (s[1] = Closing /\ Len(s) = 1)
         /\ Numbered(Tail(s), n + 1)
         /\ s[1] # Closing => /\ Closed(Tail(s)) <=> Closed(s)
                              /\ Count(Tail(s)) = Count(s) - 1
<1>1. PICK q : q = Tail(s)
  OBVIOUS
<1>2. /\ q \in Seq(Message) /\ Len(s) \in Nat \ {0} /\ Len(q) = Len(s) - 1
      /\ \A i \in 1 .. Len(s) - 1 : q[i] = s[i + 1]
  BY <1>1, TailFacts
<1>3. \A i \in 1 .. Len(s) :
        s[i] = Encode(codec, n + i) \/ (i = Len(s) /\ s[i] = Closing)
  BY DEF Numbered
<1>4. s[1] = Encode(codec, n + 1) \/ (s[1] = Closing /\ Len(s) = 1)
  BY <1>2, <1>3
<1>5. Numbered(q, n + 1)
  <2> SUFFICES ASSUME NEW i \in 1 .. Len(q)
               PROVE  \/ q[i] = Encode(codec, n + 1 + i)
                      \/ i = Len(q) /\ q[i] = Closing
    BY DEF Numbered
  <2>1. i + 1 \in 1 .. Len(s) /\ q[i] = s[i + 1] /\ n + (i + 1) = n + 1 + i
    BY <1>2
  <2>2. \/ s[i + 1] = Encode(codec, n + (i + 1))
        \/ i + 1 = Len(s) /\ s[i + 1] = Closing
    BY <1>3, <2>1
  <2> QED BY <1>2, <2>1, <2>2
<1>6. ASSUME s[1] # Closing
      PROVE  (Closed(q) <=> Closed(s)) /\ Count(q) = Count(s) - 1
  <2>1. CASE Len(s) = 1
    <3>1. q = <<>> /\ ~Closed(s)
      BY <1>2, <1>6, <2>1 DEF Closed
    <3> QED BY <1>2, <2>1, <3>1 DEF Closed, Count
  <2>2. CASE Len(s) > 1
    <3>1. q # <<>> /\ q[Len(q)] = s[Len(s)]
      BY <1>2, <2>2
    <3> QED BY <1>2, <3>1 DEF Closed, Count
  <2> QED BY <1>2, <2>1, <2>2
<1> QED BY <1>1, <1>4, <1>5, <1>6

\* Adding the next message, or a Close, to a numbered channel.
LEMMA NumberedAppend ==
  ASSUME NEW s \in Seq(Message), NEW n \in Nat, NEW msg \in Message,
         Numbered(s, n), ~Closed(s),
         msg = Encode(codec, n + (Len(s) + 1)) \/ msg = Closing
  PROVE  /\ Numbered(Append(s, msg), n)
         /\ Closed(Append(s, msg)) <=> msg = Closing
         /\ Count(s) = Len(s)
         /\ Count(Append(s, msg)) = IF msg = Closing THEN Len(s) ELSE Len(s) + 1
<1>1. PICK q : q = Append(s, msg)
  OBVIOUS
<1>2. /\ q \in Seq(Message) /\ q # <<>> /\ Len(q) = Len(s) + 1
      /\ q[Len(s) + 1] = msg /\ Len(s) \in Nat
      /\ \A i \in 1 .. Len(s) : q[i] = s[i]
  BY <1>1, AppendFacts
<1>3. \A i \in 1 .. Len(s) : s[i] = Encode(codec, n + i)
  BY DEF Numbered, Closed
<1>4. Numbered(q, n)
  <2> SUFFICES ASSUME NEW i \in 1 .. Len(q)
               PROVE  q[i] = Encode(codec, n + i) \/ (i = Len(q) /\ q[i] = Closing)
    BY DEF Numbered
  <2>1. CASE i = Len(s) + 1
    BY <1>2, <2>1
  <2>2. CASE i \in 1 .. Len(s)
    BY <1>2, <1>3, <2>2
  <2> QED BY <1>2, <2>1, <2>2
<1>5. (Closed(q) <=> msg = Closing) /\ Count(s) = Len(s)
  BY <1>2 DEF Closed, Count
<1>6. Count(q) = IF msg = Closing THEN Len(s) ELSE Len(s) + 1
  BY <1>2, <1>5 DEF Count
<1> QED BY <1>1, <1>4, <1>5, <1>6

LEMMA CountFacts ==
  ASSUME NEW s \in Seq(Message)
  PROVE  /\ Count(s) \in Nat /\ Len(s) \in Nat
         /\ ~Closed(s) => Count(s) = Len(s)
BY DEF Count, Closed

LEMMA EmptyFacts ==
  ~Closed(<<>>) /\ Count(<<>>) = 0 /\ (\A n : Numbered(<<>>, n))
BY DEF Count, Closed, Numbered

LEMMA UpUnfed ==
  ASSUME NEW o, NEW w, NEW u, NEW v, NEW a, NEW h, NEW k, NEW x,
         NEW y, y # k, UpInv(k, x, o, w, u, v, a, h)
  PROVE  UpInv(k, y, o, w, u, v, a, h)
BY DEF UpInv

LEMMA UpStart ==
  ASSUME NEW k
  PROVE  UpInv(k, k, <<>>, "running", <<>>, "open", 0, <<>>)
BY EmptyFacts DEF UpInv

LEMMA UpNone ==
  ASSUME NEW k, NEW x, x # k
  PROVE  UpInv(k, x, <<>>, "none", <<>>, "none", 0, <<>>)
BY EmptyFacts DEF UpInv

LEMMA UpSend ==
  ASSUME NEW o \in Seq(Message), NEW u \in Seq(Message), NEW v,
         NEW a \in Nat, NEW h \in Seq(Nat),
         NEW k, NEW msg, msg = Encode(codec, a + 1),
         UpInv(k, k, o, "running", u, v, a, h)
  PROVE  UpInv(k, k, Append(o, msg), "running", u, v, a + 1, h)
<1>1. v \notin {"none", "closed", "over"}
  BY DEF UpInv
<1>2. Count(u) \in Nat /\ Len(h) \in Nat /\ Len(h) + Count(u) <= a + 1
  BY CountFacts DEF UpInv
<1>3. CASE v = "open"
  <2>1. /\ ~Closed(u) /\ ~Closed(o)
        /\ Count(u) = Len(u) /\ Count(o) = Len(o)
        /\ Len(u) \in Nat /\ Len(o) \in Nat
    BY <1>3, CountFacts DEF UpInv
  <2>2. PICK n \in Nat : n = Len(h) + Len(u)
    BY <1>2, <2>1
  <2>3. Numbered(o, n) /\ a + 1 = n + (Len(o) + 1)
    BY <1>2, <1>3, <2>1, <2>2 DEF UpInv
  <2>4. msg \in Message /\ msg # Closing /\ msg = Encode(codec, n + (Len(o) + 1))
    BY <2>3, DataFacts
  <2>5. /\ Numbered(Append(o, msg), n) /\ ~Closed(Append(o, msg))
        /\ Count(Append(o, msg)) = Len(o) + 1
    BY <2>1, <2>3, <2>4, NumberedAppend
  <2> QED BY <1>1, <1>2, <1>3, <2>1, <2>2, <2>3, <2>5 DEF UpInv
<1>4. CASE v # "open"
  BY <1>1, <1>2, <1>4 DEF UpInv
<1> QED BY <1>3, <1>4

LEMMA UpClose ==
  ASSUME NEW o \in Seq(Message), NEW u \in Seq(Message), NEW v,
         NEW a \in Nat, NEW h \in Seq(Nat),
         NEW k, NEW x, x # k, UpInv(k, k, o, "running", u, v, a, h)
  PROVE  UpInv(k, x, Append(o, Closing), "running", u, v, a, h)
<1>1. v \notin {"none", "closed", "over"}
  BY DEF UpInv
<1>2. CASE v = "open"
  <2>1. /\ ~Closed(u) /\ ~Closed(o)
        /\ Count(u) = Len(u) /\ Count(o) = Len(o)
        /\ Len(u) \in Nat /\ Len(o) \in Nat /\ Len(h) \in Nat
    BY <1>2, CountFacts DEF UpInv
  <2>2. PICK n \in Nat : n = Len(h) + Len(u)
    BY <2>1
  <2>3. Numbered(o, n)
    BY <1>2, <2>2 DEF UpInv
  <2>4. /\ Numbered(Append(o, Closing), n)
        /\ Count(Append(o, Closing)) = Len(o)
    BY <2>1, <2>3, ControlFacts, NumberedAppend
  <2> QED BY <1>1, <1>2, <2>1, <2>2, <2>4 DEF UpInv
<1>3. CASE v # "open"
  BY <1>1, <1>3 DEF UpInv
<1> QED BY <1>2, <1>3

LEMMA UpWriterSends ==
  ASSUME NEW o \in Seq(Message), NEW u \in Seq(Message),
         NEW a \in Nat, NEW h \in Seq(Nat), NEW k, NEW x, o # <<>>,
         UpInv(k, x, o, "running", u, "open", a, h)
  PROVE  UpInv(k, x, Tail(o), "running", Append(u, Head(o)), "open", a, h)
<1>1. /\ Head(o) = o[1] /\ Head(o) \in Message
      /\ Tail(o) \in Seq(Message)
      /\ Len(o) \in Nat \ {0} /\ Len(Tail(o)) = Len(o) - 1
  BY TailFacts
<1>2. /\ ~Closed(u) /\ Count(u) = Len(u)
      /\ Len(u) \in Nat /\ Len(h) \in Nat /\ Count(o) \in Nat
  BY CountFacts DEF UpInv
<1>3. PICK n \in Nat : n = Len(h) + Len(u)
  BY <1>2
<1>4. /\ Numbered(u, Len(h)) /\ Numbered(o, n)
      /\ Len(h) + Len(u) + Count(o) = a
      /\ Closed(o) => x # k
  BY <1>2, <1>3 DEF UpInv
<1>5. /\ o[1] = Encode(codec, n + 1) \/ (o[1] = Closing /\ Len(o) = 1)
      /\ Numbered(Tail(o), n + 1)
      /\ o[1] # Closing => /\ Closed(Tail(o)) <=> Closed(o)
                           /\ Count(Tail(o)) = Count(o) - 1
  BY <1>4, NumberedTail
<1>6. n + 1 = Len(h) + (Len(u) + 1)
  BY <1>2, <1>3
<1>7. /\ Numbered(Append(u, o[1]), Len(h))
      /\ Closed(Append(u, o[1])) <=> o[1] = Closing
      /\ Count(Append(u, o[1])) = IF o[1] = Closing THEN Len(u) ELSE Len(u) + 1
  BY <1>1, <1>2, <1>4, <1>5, <1>6, NumberedAppend
<1>8. Len(Append(u, o[1])) = Len(u) + 1
  BY <1>1, AppendFacts
<1>9. Numbered(Tail(o), Len(h) + Len(Append(u, o[1])))
  BY <1>5, <1>6, <1>8
<1>. PICK p, q : p = Tail(o) /\ q = Append(u, o[1])
  OBVIOUS
<1>10. /\ \A i \in 1 .. Len(h) : h[i] = i
       /\ Numbered(q, Len(h)) /\ Numbered(p, Len(h) + Len(q))
  BY <1>7, <1>9 DEF UpInv
<1>11. Count(p) \in Nat /\ Count(q) \in Nat
  <2>1. p \in Seq(Message) /\ q \in Seq(Message)
    BY <1>1, AppendFacts
  <2> QED BY <2>1, CountFacts
<1>12. CASE o[1] = Closing
  <2>1. Len(o) = 1
    <3>1. n + 1 \in Nat /\ Encode(codec, n + 1) # Closing
      BY DataFacts
    <3> QED BY <1>5, <1>12, <3>1
  <2>2. Closed(o)
    BY <1>12, <2>1 DEF Closed
  <2>3. p = <<>>
    BY <2>1, TailFacts
  <2>4. Count(o) = 0
    BY <2>1, <2>2 DEF Count
  <2>5. x # k
    BY <1>4, <2>2
  <2>6. Closed(q)
    BY <1>7, <1>12
  <2>7. Len(h) + Count(q) = a
    <3>1. Count(q) = Len(u)
      BY <1>7, <1>12
    <3> QED BY <1>2, <1>4, <2>4, <3>1
  <2>8. Len(h) + Count(q) <= a /\ Len(h) + Count(q) + Count(p) = a
    <3>1. Count(p) = 0
      BY <2>3, EmptyFacts
    <3> QED BY <1>2, <1>11, <2>7, <3>1
  <2>9. UpInv(k, x, p, "running", q, "open", a, h)
    BY <1>10, <2>3, <2>5, <2>7, <2>8 DEF UpInv
  <2> QED BY <1>1, <2>9
<1>13. CASE o[1] # Closing
  <2>1. ~Closed(q) /\ Count(q) = Len(u) + 1
    BY <1>7, <1>13
  <2>2. (Closed(p) <=> Closed(o)) /\ Count(p) = Count(o) - 1
    BY <1>5, <1>13
  <2>3. Len(h) + Count(q) + Count(p) = a
    BY <1>2, <1>4, <2>1, <2>2
  <2>4. Closed(p) => x # k
    BY <1>4, <2>2
  <2>5. Len(h) + Count(q) <= a
    BY <1>2, <1>11, <2>3
  <2>6. UpInv(k, x, p, "running", q, "open", a, h)
    BY <1>10, <2>1, <2>3, <2>4, <2>5 DEF UpInv
  <2> QED BY <1>1, <2>6
<1> QED BY <1>12, <1>13

LEMMA UpWriterFails ==
  ASSUME NEW o, NEW w, NEW u, NEW v, NEW a, NEW h, NEW k, NEW x,
         NEW p, NEW y, v # "open", w # "none", y # "none",
         UpInv(k, x, o, w, u, v, a, h)
  PROVE  UpInv(k, x, p, y, u, v, a, h)
BY DEF UpInv

LEMMA UpWriterEnds ==
  ASSUME NEW u \in Seq(Message), NEW v, NEW a, NEW h \in Seq(Nat), NEW k, NEW x,
         x # k, UpInv(k, x, <<>>, "running", u, v, a, h)
  PROVE  UpInv(k, x, <<>>, "done", u, v, a, h)
<1>1. Count(u) \in Nat /\ Len(h) \in Nat
  BY CountFacts
<1> QED BY <1>1, EmptyFacts DEF UpInv

LEMMA UpLost ==
  ASSUME NEW o, NEW w, NEW u \in Seq(Message), NEW a \in Nat,
         NEW h \in Seq(Nat), NEW k, NEW x,
         UpInv(k, x, o, w, u, "open", a, h)
  PROVE  UpInv(k, x, o, w, <<>>, "lost", a, h)
<1>1. Len(h) \in Nat /\ Len(h) <= a
  BY CountFacts DEF UpInv
<1> QED BY <1>1, EmptyFacts DEF UpInv

LEMMA UpReleased ==
  ASSUME NEW o, NEW w, NEW u, NEW a, NEW h, NEW k, NEW x,
         UpInv(k, x, o, w, u, "closed", a, h)
  PROVE  UpInv(k, x, o, w, u, "over", a, h)
BY DEF UpInv

LEMMA UpHeard ==
  ASSUME NEW o \in Seq(Message), NEW w, NEW u \in Seq(Message),
         NEW a \in Nat, NEW h \in Seq(Nat), NEW k, NEW x,
         u # <<>>, u[1] # Closing,
         UpInv(k, x, o, w, u, "open", a, h)
  PROVE  /\ u[1] = Encode(codec, Len(h) + 1)
         /\ UpInv(k, x, o, w, Tail(u), "open", a, Append(h, Len(h) + 1))
<1>1. /\ Tail(u) \in Seq(Message) /\ Len(h) \in Nat
      /\ Len(u) \in Nat \ {0} /\ Len(Tail(u)) = Len(u) - 1
      /\ Count(u) \in Nat /\ Count(o) \in Nat
  BY TailFacts, CountFacts
<1>2. /\ u[1] = Encode(codec, Len(h) + 1)
      /\ Numbered(Tail(u), Len(h) + 1)
      /\ Closed(Tail(u)) <=> Closed(u)
      /\ Count(Tail(u)) = Count(u) - 1
  BY <1>1, NumberedTail DEF UpInv
<1>3. PICK g : g = Append(h, Len(h) + 1)
  OBVIOUS
<1>4. /\ Len(g) = Len(h) + 1
      /\ \A i \in 1 .. Len(g) : g[i] = i
  BY <1>1, <1>3 DEF UpInv
<1>5. Len(g) + Len(Tail(u)) = Len(h) + Len(u)
      /\ Len(g) + Count(Tail(u)) = Len(h) + Count(u)
  BY <1>1, <1>2, <1>4
<1>6. UpInv(k, x, o, w, Tail(u), "open", a, g)
  BY <1>1, <1>2, <1>4, <1>5 DEF UpInv
<1> QED BY <1>2, <1>3, <1>6

LEMMA UpClosed ==
  ASSUME NEW o \in Seq(Message), NEW w, NEW u \in Seq(Message),
         NEW a \in Nat, NEW h \in Seq(Nat), NEW k, NEW x,
         u # <<>>, u[1] = Closing,
         UpInv(k, x, o, w, u, "open", a, h)
  PROVE  UpInv(k, x, o, w, Tail(u), "closed", a, h)
<1>1. /\ Tail(u) \in Seq(Message) /\ Len(h) \in Nat
      /\ Len(u) \in Nat \ {0} /\ Len(Tail(u)) = Len(u) - 1
  BY TailFacts
<1>2. Len(u) = 1
  <2>1. Len(h) + 1 \in Nat /\ Encode(codec, Len(h) + 1) # Closing
    BY <1>1, DataFacts
  <2>2. u[1] = Encode(codec, Len(h) + 1) \/ (u[1] = Closing /\ Len(u) = 1)
    BY <1>1, NumberedTail DEF UpInv
  <2> QED BY <2>1, <2>2
<1>3. Closed(u)
  BY <1>2 DEF Closed
<1>4. Tail(u) = <<>> /\ Count(u) = 0
  BY <1>2, <1>3, TailFacts DEF Count
<1>5. Len(h) = a /\ x # k /\ w # "none"
  BY <1>1, <1>3, <1>4 DEF UpInv
<1> QED BY <1>1, <1>4, <1>5, EmptyFacts DEF UpInv

-----------------------------------------------------------------------------
(* The way down                                                            *)

\* The messages m + 1 to n, behind c = 0 or 1 Pings.
Under(d, m, n, c) ==
  /\ m + Len(d) = n + c
  /\ c = 1 => d # <<>> /\ d[1] = Pinging
  /\ \A i \in 1 .. Len(d) : i > c => d[i] = Encode(codec, m + i - c)

\* For the frames d on their way to reader r, the server's end v, the count n
\* of messages it has sent and those, t, that the handler was called with; hs
\* are the connections that captured a handler.
DownInv(k, hs, d, r, v, n, t) ==
  /\ \A i \in 1 .. Len(t) : t[i] = i
  /\ Len(t) <= n
  /\ (k \in hs /\ r = "running") => \E c \in {0, 1} : Under(d, Len(t), n, c)
  /\ v = "none" => /\ r = "none" /\ k \notin hs
                   /\ d = <<>> /\ t = <<>> /\ n = 0
  /\ v # "none" => r # "none"
  /\ r = "done" => v \in {"over", "lost"}

LEMMA DownNone ==
  ASSUME NEW k, NEW hs, k \notin hs
  PROVE  DownInv(k, hs, <<>>, "none", "none", 0, <<>>)
BY DEF DownInv

LEMMA DownStart ==
  ASSUME NEW k, NEW hs
  PROVE  DownInv(k, hs, <<Pinging>>, "running", "open", 0, <<>>)
<1>1. Under(<<Pinging>>, 0, 0, 1)
  BY DEF Under
<1> QED BY <1>1 DEF DownInv

LEMMA DownSaid ==
  ASSUME NEW k, NEW hs, NEW d \in Seq(Message), NEW r,
         NEW n \in Nat, NEW t \in Seq(Nat),
         DownInv(k, hs, d, r, "open", n, t)
  PROVE  DownInv(k, hs, Append(d, Encode(codec, n + 1)), r, "open", n + 1, t)
<1>1. PICK msg : msg = Encode(codec, n + 1)
  OBVIOUS
<1>2. PICK q : q = Append(d, msg)
  OBVIOUS
<1>3. /\ Len(q) = Len(d) + 1 /\ q[Len(d) + 1] = msg /\ q # <<>>
      /\ \A i \in 1 .. Len(d) : q[i] = d[i]
      /\ Len(d) \in Nat /\ Len(t) \in Nat
  <2>1. msg \in Message
    BY <1>1, DataFacts
  <2> QED BY <1>2, <2>1, AppendFacts
<1>4. ASSUME NEW c \in {0, 1}, Under(d, Len(t), n, c)
      PROVE  Under(q, Len(t), n + 1, c)
  <2>1. Len(t) + Len(q) = (n + 1) + c
    BY <1>3, <1>4 DEF Under
  <2>2. c = 1 => q # <<>> /\ q[1] = Pinging
    <3>1. CASE c = 1
      <4>1. d # <<>> /\ d[1] = Pinging /\ 1 \in 1 .. Len(d)
        BY <1>4, <3>1 DEF Under
      <4> QED BY <1>3, <4>1
    <3> QED BY <3>1
  <2>3. ASSUME NEW i \in 1 .. Len(q), i > c
        PROVE  q[i] = Encode(codec, Len(t) + i - c)
    <3>1. CASE i \in 1 .. Len(d)
      BY <1>3, <1>4, <2>3, <3>1 DEF Under
    <3>2. CASE i = Len(d) + 1
      <4>1. Len(t) + i - c = n + 1
        BY <1>3, <1>4, <3>2 DEF Under
      <4> QED BY <1>1, <1>3, <3>2, <4>1
    <3> QED BY <1>3, <3>1, <3>2
  <2> QED BY <2>1, <2>2, <2>3 DEF Under
<1>5. Len(t) <= n + 1
  BY <1>3 DEF DownInv
<1>6. DownInv(k, hs, q, r, "open", n + 1, t)
  BY <1>4, <1>5 DEF DownInv
<1> QED BY <1>1, <1>2, <1>6

\* What the handler has been called with after the reader has read msg.
Told(k, hs, msg, t) ==
  IF k \in hs /\ Decodes(codec, TungToAxum(msg))
    THEN Append(t, Decode(codec, TungToAxum(msg))) ELSE t

LEMMA DownTold ==
  ASSUME NEW k, NEW hs, NEW d \in Seq(Message), NEW v,
         NEW n \in Nat, NEW t \in Seq(Nat), d # <<>>,
         DownInv(k, hs, d, "running", v, n, t)
  PROVE  DownInv(k, hs, Tail(d), "running", v, n, Told(k, hs, Head(d), t))
<1>1. PICK q : q = Tail(d)
  OBVIOUS
<1>2. /\ Head(d) = d[1] /\ Len(d) \in Nat \ {0} /\ Len(q) = Len(d) - 1
      /\ \A i \in 1 .. Len(d) - 1 : q[i] = d[i + 1]
      /\ Len(t) \in Nat
  BY <1>1, TailFacts
<1>4. CASE k \notin hs
  BY <1>1, <1>4 DEF DownInv, Told
<1>5. CASE k \in hs
  <2>1. PICK c \in {0, 1} : Under(d, Len(t), n, c)
    BY <1>5 DEF DownInv
  <2>2. CASE c = 1
    <3>1. Told(k, hs, Head(d), t) = t
      BY <1>2, <2>1, <2>2, ControlFacts DEF Told, Under
    <3>2. Under(q, Len(t), n, 0)
      <4>1. Len(t) + Len(q) = n + 0
        BY <1>2, <2>1, <2>2 DEF Under
      <4>2. ASSUME NEW i \in 1 .. Len(q)
            PROVE  q[i] = Encode(codec, Len(t) + i - 0)
        <5>1. i + 1 \in 1 .. Len(d) /\ i + 1 > c /\ q[i] = d[i + 1]
          BY <1>2, <2>2
        <5>2. d[i + 1] = Encode(codec, Len(t) + (i + 1) - c)
          BY <2>1, <5>1 DEF Under
        <5>3. Len(t) + (i + 1) - c = Len(t) + i - 0
          BY <1>2, <2>2
        <5> QED BY <5>1, <5>2, <5>3
      <4> QED BY <4>1, <4>2 DEF Under
    <3> QED BY <1>1, <3>1, <3>2 DEF DownInv
  <2>3. CASE c = 0
    <3>1. d[1] = Encode(codec, Len(t) + 1)
      <4>1. d[1] = Encode(codec, Len(t) + 1 - c)
        BY <1>2, <2>1, <2>3 DEF Under
      <4>2. Len(t) + 1 - c = Len(t) + 1
        BY <1>2, <2>3
      <4> QED BY <4>1, <4>2
    <3>2. PICK g : g = Append(t, Len(t) + 1)
      OBVIOUS
    <3>3. Told(k, hs, Head(d), t) = g
      <4>1. Len(t) + 1 \in Nat /\ codec \in Codecs
        BY <1>2, ClientAssumption
      <4>2. /\ TungToAxum(d[1]) = d[1] /\ Decodes(codec, d[1])
            /\ Decode(codec, d[1]) = Len(t) + 1
        BY <3>1, <4>1, CodecRoundTrip
      <4> QED BY <1>2, <1>5, <3>2, <4>2 DEF Told
    <3>4. Len(g) = Len(t) + 1 /\ \A i \in 1 .. Len(g) : g[i] = i
      BY <1>2, <3>2 DEF DownInv
    <3>5. Under(q, Len(g), n, 0)
      <4>1. Len(g) + Len(q) = n + 0
        <5>1. Len(t) + Len(d) = n
          <6>1. Len(t) + Len(d) = n + c
            BY <2>1 DEF Under
          <6> QED BY <1>2, <2>3, <6>1
        <5>2. Len(g) = Len(t) + 1 /\ Len(q) = Len(d) - 1
          BY <1>2, <3>4
        <5>3. Len(d) \in Nat /\ Len(t) \in Nat
          BY <1>2
        <5> QED BY <5>1, <5>2, <5>3
      <4>2. ASSUME NEW i \in 1 .. Len(q)
            PROVE  q[i] = Encode(codec, Len(g) + i - 0)
        <5>1. i + 1 \in 1 .. Len(d) /\ i + 1 > c /\ q[i] = d[i + 1]
          BY <1>2, <2>3
        <5>2. d[i + 1] = Encode(codec, Len(t) + (i + 1) - c)
          BY <2>1, <5>1 DEF Under
        <5>3. Len(t) + (i + 1) - c = Len(g) + i - 0
          BY <1>2, <2>3, <3>4
        <5> QED BY <5>1, <5>2, <5>3
      <4> QED BY <4>1, <4>2 DEF Under
    <3>6. Len(g) <= n
      BY <1>2, <2>1, <2>3, <3>4 DEF Under
    <3> QED BY <1>1, <1>2, <1>5, <3>3, <3>4, <3>5, <3>6 DEF DownInv
  <2> QED BY <2>1, <2>2, <2>3
<1> QED BY <1>4, <1>5

LEMMA DownEnds ==
  ASSUME NEW k, NEW hs, NEW d, NEW r, NEW v, NEW n, NEW t,
         v \in {"over", "lost"}, r # "none", DownInv(k, hs, d, r, v, n, t)
  PROVE  DownInv(k, hs, <<>>, "done", v, n, t)
BY DEF DownInv

LEMMA DownServer ==
  ASSUME NEW k, NEW hs, NEW d, NEW r, NEW n, NEW t, NEW v, NEW x,
         \/ v = "open" /\ x \in {"closed", "lost"}
         \/ v = "closed" /\ x = "over",
         DownInv(k, hs, d, r, v, n, t)
  PROVE  DownInv(k, hs, d, r, x, n, t)
BY DEF DownInv

-----------------------------------------------------------------------------
(* Types                                                                   *)

LEMMA LinkFacts == NoLink \notin Link /\ Link \subseteq Nat
BY ClientAssumption DEF Link, NoLink

\* What Queue does to the channels.
LEMMA QueueTypes ==
  ASSUME NEW k, NEW msg \in Message, TypeOK, Queue(k, msg)
  PROVE  out' \in [Link -> Seq(Message)]
<1>1. CASE k # NoLink /\ writer[k] = "running"
  BY <1>1, AppendFacts DEF TypeOK, Queue
<1>2. CASE ~(k # NoLink /\ writer[k] = "running")
  BY <1>2 DEF TypeOK, Queue
<1> QED BY <1>1, <1>2

LEMMA ConversionFacts ==
  \A n \in Nat : /\ AxumToTung(Encode(codec, n)) = Encode(codec, n)
                 /\ Decode(codec, Encode(codec, n)) = n
BY CodecRoundTrip, ClientAssumption

LEMMA DecodeTypes ==
  \A msg \in Message : /\ Decode(codec, msg) \in Nat
                       /\ Decode(codec, TungToAxum(msg)) \in Nat
BY DEF Message, Decode, TungToAxum, NoMessage

LEMMA NatAppend ==
  ASSUME NEW t \in Seq(Nat), NEW n \in Nat
  PROVE  Append(t, n) \in Seq(Nat)
OBVIOUS

LEMMA TypeInit == Init => TypeOK
<1>1. <<>> \in Seq(Message) /\ <<>> \in Seq(Nat)
  OBVIOUS
<1> SUFFICES ASSUME Init PROVE TypeOK
  OBVIOUS
<1>2. /\ api = "idle" /\ tx \in Link \cup {NoLink} /\ handle \in Link \cup {NoLink}
      /\ handler \in BOOLEAN /\ orphans \subseteq Link /\ hears \subseteq Link
  BY DEF Init
<1>3. /\ out \in [Link -> Seq(Message)] /\ up \in [Link -> Seq(Message)]
      /\ down \in [Link -> Seq(Message)]
  BY <1>1 DEF Init
<1>4. heard \in [Link -> Seq(Nat)] /\ told \in [Link -> Seq(Nat)]
  BY <1>1 DEF Init
<1>5. accepted \in [Link -> Nat] /\ said \in [Link -> Nat]
  BY DEF Init
<1>6. /\ writer \in [Link -> TaskStates] /\ reader \in [Link -> TaskStates]
      /\ server \in [Link -> {"none", "open", "closed", "over", "lost"}]
  BY DEF Init, TaskStates
<1> QED BY <1>2, <1>3, <1>4, <1>5, <1>6 DEF TypeOK

LEMMA TypeStep == TypeOK /\ [Next]_vars => TypeOK'
<1> SUFFICES ASSUME TypeOK, [Next]_vars PROVE TypeOK'
  OBVIOUS
<1> USE DEF owner, sending, receiving, serving, TaskStates
<1>1. CASE OnMessage
  BY <1>1 DEF OnMessage, TypeOK
<1>2. CASE Send
  <2>1. tx \in Link /\ accepted[tx] + 1 \in Nat
    BY <1>2 DEF Send, TypeOK
  <2>2. out' \in [Link -> Seq(Message)]
    <3>1. AxumToTung(Encode(codec, accepted[tx] + 1)) \in Message
      BY <2>1, ConversionFacts, DataFacts
    <3> QED BY <1>2, <3>1, QueueTypes DEF Send
  <2> QED BY <1>2, <2>1, <2>2 DEF Send, TypeOK
<1>3. CASE Disconnect
  <2>1. out' \in [Link -> Seq(Message)]
    BY <1>3, ControlFacts, QueueTypes DEF Disconnect, Closing
  <2> QED BY <1>3, <2>1 DEF Disconnect, TypeOK
<1>4. CASE JoinWriter
  BY <1>4 DEF JoinWriter, TypeOK
<1>5. CASE JoinReader
  BY <1>5 DEF JoinReader, TypeOK
<1>6. CASE Drop
  <2>1. out' \in [Link -> Seq(Message)]
    BY <1>6, ControlFacts, QueueTypes DEF Drop, Closing
  <2> QED BY <1>6, <2>1 DEF Drop, TypeOK
<1>7. ASSUME NEW k \in Link, Connect(k) PROVE TypeOK'
  <2>1. Control("Ping") \in Message
    BY ControlFacts DEF Pinging
  <2>2. <<Control("Ping")>> \in Seq(Message)
    BY <2>1
  <2>3. down' \in [Link -> Seq(Message)]
    BY <1>7, <2>2 DEF Connect, TypeOK
  <2>4. /\ hears' \subseteq Link /\ tx' \in Link /\ handle' \in Link
        /\ orphans' \subseteq Link
    BY <1>7 DEF Connect, TypeOK
  <2>5. /\ writer' \in [Link -> TaskStates] /\ reader' \in [Link -> TaskStates]
        /\ server' \in [Link -> {"none", "open", "closed", "over", "lost"}]
    BY <1>7 DEF Connect, TypeOK
  <2> QED BY <1>7, <2>3, <2>4, <2>5 DEF Connect, TypeOK
<1>8. ASSUME NEW k \in Link, WriterSends(k) PROVE TypeOK'
  <2>1. /\ Head(out[k]) \in Message /\ Tail(out[k]) \in Seq(Message)
        /\ up[k] \in Seq(Message)
    BY <1>8, TailFacts DEF WriterSends, TypeOK
  <2>2. Append(up[k], Head(out[k])) \in Seq(Message)
    BY <2>1, AppendFacts
  <2> QED BY <1>8, <2>1, <2>2 DEF WriterSends, TypeOK
<1>9. ASSUME NEW k \in Link, WriterFails(k) PROVE TypeOK'
  <2>1. Tail(out[k]) \in Seq(Message) /\ <<>> \in Seq(Message)
    BY <1>9, TailFacts DEF WriterFails, TypeOK
  <2>2. out' \in [Link -> Seq(Message)]
    <3>1. \/ out' = [out EXCEPT ![k] = <<>>]
          \/ out' = [out EXCEPT ![k] = Tail(out[k])]
      BY <1>9 DEF WriterFails
    <3> QED BY <2>1, <3>1 DEF TypeOK
  <2>3. writer' \in [Link -> TaskStates]
    <3>1. writer' = [writer EXCEPT ![k] = "done"] \/ writer' = writer
      BY <1>9 DEF WriterFails
    <3> QED BY <3>1 DEF TypeOK
  <2> QED BY <1>9, <2>2, <2>3 DEF WriterFails, TypeOK
<1>10. ASSUME NEW k \in Link, WriterEnds(k) PROVE TypeOK'
  BY <1>10 DEF WriterEnds, TypeOK
<1>11. ASSUME NEW k \in Link, ReaderReads(k) PROVE TypeOK'
  <2>1. Head(down[k]) \in Message /\ Tail(down[k]) \in Seq(Message)
    BY <1>11, TailFacts DEF ReaderReads, TypeOK
  <2>2. Append(told[k], Decode(codec, TungToAxum(Head(down[k])))) \in Seq(Nat)
    BY <2>1, DecodeTypes, NatAppend DEF TypeOK
  <2>3. told' \in [Link -> Seq(Nat)]
    BY <1>11, <2>2 DEF ReaderReads, TypeOK
  <2>4. down' \in [Link -> Seq(Message)]
    BY <1>11, <2>1 DEF ReaderReads, TypeOK
  <2> QED BY <1>11, <2>3, <2>4 DEF ReaderReads, TypeOK
<1>12. ASSUME NEW k \in Link, ReaderEnds(k) PROVE TypeOK'
  <2>1. <<>> \in Seq(Message)
    OBVIOUS
  <2> QED BY <1>12, <2>1 DEF ReaderEnds, TypeOK
<1>13. ASSUME NEW k \in Link, ServerReads(k) PROVE TypeOK'
  <2>1. Head(up[k]) \in Message /\ Tail(up[k]) \in Seq(Message)
    BY <1>13, TailFacts DEF ServerReads, TypeOK
  <2>2. Append(heard[k], Decode(codec, Head(up[k]))) \in Seq(Nat)
    BY <2>1, DecodeTypes, NatAppend DEF TypeOK
  <2>3. heard' \in [Link -> Seq(Nat)]
    BY <1>13, <2>2 DEF ServerReads, TypeOK
  <2>4. /\ up' \in [Link -> Seq(Message)]
        /\ server' \in [Link -> {"none", "open", "closed", "over", "lost"}]
    BY <1>13, <2>1 DEF ServerReads, TypeOK
  <2> QED BY <1>13, <2>3, <2>4 DEF ServerReads, TypeOK
<1>14. ASSUME NEW k \in Link, ServerSends(k) PROVE TypeOK'
  <2>1. said[k] + 1 \in Nat
    <3>1. said[k] \in Nat
      BY DEF TypeOK
    <3> QED BY <3>1
  <2>2. Append(down[k], Encode(codec, said[k] + 1)) \in Seq(Message)
    BY <2>1, DataFacts, AppendFacts DEF TypeOK
  <2> QED BY <1>14, <2>1, <2>2 DEF ServerSends, TypeOK
<1>15. ASSUME NEW k \in Link, ServerLost(k) PROVE TypeOK'
  <2>1. <<>> \in Seq(Message)
    OBVIOUS
  <2> QED BY <1>15, <2>1 DEF ServerLost, TypeOK
<1>16. ASSUME NEW k \in Link, ServerReleases(k) PROVE TypeOK'
  BY <1>16 DEF ServerReleases, TypeOK
<1>17. CASE UNCHANGED vars
  BY <1>17 DEF vars, TypeOK
<1> QED
  BY <1>1, <1>2, <1>3, <1>4, <1>5, <1>6, <1>7, <1>8, <1>9, <1>10, <1>11,
     <1>12, <1>13, <1>14, <1>15, <1>16, <1>17 DEF Next, Writer

\* The types of the client hold for any number of connections and messages
\* (hub_client.rs:60-235).
THEOREM ClientTypeCorrect == Spec => []TypeOK
BY TypeInit, TypeStep, PTL DEF Spec

-----------------------------------------------------------------------------
(* The inductive invariant                                                 *)

Up(k) == UpInv(k, tx, out[k], writer[k], up[k], server[k], accepted[k], heard[k])

Down(k) == DownInv(k, hears, down[k], reader[k], server[k], said[k], told[k])

OwnerInv ==
  /\ tx \in {NoLink, handle}
  /\ api # "idle" => tx = NoLink
  /\ handle # NoLink => server[handle] # "none"
  /\ (api = "joinReader" /\ handle # NoLink) => writer[handle] = "done"
  /\ Quiet

IInv == TypeOK /\ OwnerInv /\ \A k \in Link : Up(k) /\ Down(k)

\* A step leaves alone what it does not touch, also when it drops the sender.
LEMMA UpFrame ==
  ASSUME NEW j, Up(j), tx' = tx \/ tx' # j,
         out'[j] = out[j], writer'[j] = writer[j], up'[j] = up[j],
         server'[j] = server[j], accepted'[j] = accepted[j], heard'[j] = heard[j]
  PROVE  Up(j)'
<1>1. CASE tx' = tx
  BY <1>1 DEF Up
<1>2. CASE tx' # j
  BY <1>2, UpUnfed DEF Up
<1> QED BY <1>1, <1>2

LEMMA DownFrame ==
  ASSUME NEW j, Down(j), j \in hears' <=> j \in hears,
         down'[j] = down[j], reader'[j] = reader[j],
         server'[j] = server[j], said'[j] = said[j], told'[j] = told[j]
  PROVE  Down(j)'
BY DEF Down, DownInv

\* Disconnect and Drop queue a Close and drop the sender.
LEMMA UpClosing ==
  ASSUME TypeOK, NEW j \in Link, Up(j), tx' = NoLink,
         Queue(tx, Control("Close")),
         UNCHANGED <<writer, up, accepted, server, heard>>
  PROVE  Up(j)'
<1>1. NoLink # j
  BY LinkFacts
<1>2. CASE tx = j /\ writer[j] = "running"
  <2>1. out'[j] = Append(out[j], Closing)
    BY <1>1, <1>2 DEF Queue, Closing, TypeOK
  <2>2. UpInv(j, j, out[j], "running", up[j], server[j], accepted[j], heard[j])
    BY <1>2 DEF Up
  <2>3. UpInv(j, NoLink, Append(out[j], Closing), "running", up[j], server[j],
              accepted[j], heard[j])
    BY <1>1, <2>2, UpClose DEF TypeOK
  <2> QED BY <1>2, <2>1, <2>3 DEF Up
<1>3. CASE ~(tx = j /\ writer[j] = "running")
  <2>1. out'[j] = out[j]
    BY <1>3 DEF Queue, TypeOK
  <2> QED BY <1>1, <2>1, UpFrame
<1> QED BY <1>2, <1>3

LEMMA UpStep ==
  ASSUME TypeOK, [Next]_vars, NEW j \in Link, Up(j)
  PROVE  Up(j)'
<1> USE DEF owner, sending, receiving, serving
<1>1. CASE UNCHANGED <<tx, out, writer, up, accepted, server, heard>>
  BY <1>1, UpFrame
<1>2. CASE Send
  <2>1. CASE j = tx
    <3>1. /\ writer[j] = "running" /\ writer'[j] = "running" /\ tx' = j
          /\ out'[j] = Append(out[j], Encode(codec, accepted[j] + 1))
          /\ accepted'[j] = accepted[j] + 1
      <4>1. accepted[j] + 1 \in Nat
        <5>1. accepted[j] \in Nat
          BY DEF TypeOK
        <5> QED BY <5>1
      <4>2. AxumToTung(Encode(codec, accepted[j] + 1)) = Encode(codec, accepted[j] + 1)
        BY <4>1, ConversionFacts
      <4> QED BY <1>2, <2>1, <4>2 DEF Send, Queue, TypeOK
    <3>2. UpInv(j, j, out[j], "running", up[j], server[j], accepted[j], heard[j])
      BY <2>1, <3>1 DEF Up
    <3>3. UpInv(j, j, out'[j], "running", up[j], server[j], accepted'[j], heard[j])
      BY <3>1, <3>2, UpSend DEF TypeOK
    <3> QED BY <1>2, <3>1, <3>3 DEF Send, Up
  <2>2. CASE j # tx
    BY <1>2, <2>2, UpFrame DEF Send, Queue, TypeOK
  <2> QED BY <2>1, <2>2
<1>3. CASE Disconnect
  BY <1>3, UpClosing DEF Disconnect
<1>4. CASE Drop
  BY <1>4, UpClosing DEF Drop
<1>5. ASSUME NEW k \in Link, Connect(k) PROVE Up(j)'
  <2>1. CASE j = k
    <3>1. /\ out[k] = <<>> /\ up[k] = <<>> /\ accepted[k] = 0 /\ heard[k] = <<>>
      BY <1>5, <2>1 DEF Connect, Up, UpInv
    <3>2. /\ out'[k] = <<>> /\ up'[k] = <<>> /\ accepted'[k] = 0 /\ heard'[k] = <<>>
          /\ writer'[k] = "running" /\ server'[k] = "open" /\ tx' = k
      BY <1>5, <3>1 DEF Connect, TypeOK
    <3> QED BY <2>1, <3>2, UpStart DEF Up
  <2>2. CASE j # k
    BY <1>5, <2>2, UpFrame DEF Connect, TypeOK
  <2> QED BY <2>1, <2>2
<1>6. ASSUME NEW k \in Link, WriterSends(k) PROVE Up(j)'
  <2>1. CASE j = k
    <3>1. UpInv(k, tx, out[k], "running", up[k], "open", accepted[k], heard[k])
      BY <1>6, <2>1 DEF WriterSends, Up
    <3>2. UpInv(k, tx, Tail(out[k]), "running", Append(up[k], Head(out[k])), "open",
                accepted[k], heard[k])
      BY <1>6, <3>1, UpWriterSends DEF WriterSends, TypeOK
    <3>3. /\ up'[k] = Append(up[k], Head(out[k])) /\ out'[k] = Tail(out[k])
          /\ writer'[k] = "running" /\ server'[k] = "open" /\ tx' = tx
          /\ accepted' = accepted /\ heard' = heard
      BY <1>6 DEF WriterSends, TypeOK
    <3> QED BY <2>1, <3>2, <3>3 DEF Up
  <2>2. CASE j # k
    BY <1>6, <2>2, UpFrame DEF WriterSends, TypeOK
  <2> QED BY <2>1, <2>2
<1>7. ASSUME NEW k \in Link, WriterFails(k) PROVE Up(j)'
  <2>1. CASE j = k
    <3>1. /\ server[k] # "open" /\ writer[k] # "none" /\ writer'[k] # "none"
          /\ up' = up /\ server' = server /\ accepted' = accepted
          /\ heard' = heard /\ tx' = tx
      <4>1. writer' = [writer EXCEPT ![k] = "done"] \/ writer' = writer
        BY <1>7 DEF WriterFails
      <4>2. writer[k] = "running"
        BY <1>7 DEF WriterFails
      <4>3. writer'[k] # "none"
        BY <4>1, <4>2 DEF TypeOK
      <4> QED BY <1>7, <4>2, <4>3 DEF WriterFails
    <3>2. UpInv(k, tx, out[k], writer[k], up[k], server[k], accepted[k], heard[k])
      BY <2>1 DEF Up
    <3>3. UpInv(k, tx, out'[k], writer'[k], up[k], server[k], accepted[k], heard[k])
      BY <3>1, <3>2, UpWriterFails
    <3> QED BY <2>1, <3>1, <3>3 DEF Up
  <2>2. CASE j # k
    <3>1. out'[j] = out[j] /\ writer'[j] = writer[j]
      BY <1>7, <2>2 DEF WriterFails, TypeOK
    <3> QED BY <1>7, <3>1, UpFrame DEF WriterFails
  <2> QED BY <2>1, <2>2
<1>8. ASSUME NEW k \in Link, WriterEnds(k) PROVE Up(j)'
  <2>1. CASE j = k
    <3>1. UpInv(k, tx, <<>>, "running", up[k], server[k], accepted[k], heard[k])
      BY <1>8, <2>1 DEF WriterEnds, Up
    <3>2. UpInv(k, tx, <<>>, "done", up[k], server[k], accepted[k], heard[k])
      BY <1>8, <3>1, UpWriterEnds DEF WriterEnds, TypeOK
    <3>3. writer'[k] = "done" /\ out[k] = <<>> /\ UNCHANGED <<tx, out, up, server, accepted, heard>>
      BY <1>8 DEF WriterEnds, TypeOK
    <3> QED BY <2>1, <3>2, <3>3 DEF Up
  <2>2. CASE j # k
    BY <1>8, <2>2, UpFrame DEF WriterEnds, TypeOK
  <2> QED BY <2>1, <2>2
<1>9. ASSUME NEW k \in Link, ServerReads(k) PROVE Up(j)'
  <2>1. CASE j # k
    <3>1. heard'[j] = heard[j] /\ server'[j] = server[j] /\ up'[j] = up[j]
      BY <1>9, <2>1 DEF ServerReads, TypeOK
    <3> QED BY <1>9, <3>1, UpFrame DEF ServerReads
  <2>2. CASE j = k
    <3>1. UpInv(k, tx, out[k], writer[k], up[k], "open", accepted[k], heard[k])
      BY <1>9, <2>2 DEF ServerReads, Up
    <3>2. /\ up[k] \in Seq(Message) /\ up[k] # <<>> /\ Head(up[k]) = up[k][1]
          /\ up'[k] = Tail(up[k]) /\ UNCHANGED <<tx, out, writer, accepted>>
      BY <1>9, TailFacts DEF ServerReads, TypeOK
    <3>3. CASE up[k][1] = Closing
      <4>1. UpInv(k, tx, out[k], writer[k], Tail(up[k]), "closed", accepted[k], heard[k])
        BY <3>1, <3>2, <3>3, UpClosed DEF TypeOK
      <4>2. server'[k] = "closed" /\ heard'[k] = heard[k]
        BY <1>9, <3>2, <3>3, ControlFacts DEF ServerReads, TypeOK
      <4> QED BY <2>2, <3>2, <4>1, <4>2 DEF Up
    <3>4. CASE up[k][1] # Closing
      <4>1. /\ up[k][1] = Encode(codec, Len(heard[k]) + 1)
            /\ UpInv(k, tx, out[k], writer[k], Tail(up[k]), "open", accepted[k],
                     Append(heard[k], Len(heard[k]) + 1))
        BY <3>1, <3>2, <3>4, UpHeard DEF TypeOK
      <4>2. Len(heard[k]) + 1 \in Nat /\ codec \in Codecs
        BY ClientAssumption DEF TypeOK
      <4>3. /\ up[k][1].variant # "Close" /\ Decodes(codec, up[k][1])
            /\ Decode(codec, up[k][1]) = Len(heard[k]) + 1
        BY <4>1, <4>2, DataFacts, CodecRoundTrip
      <4>4. server'[k] = "open" /\ heard'[k] = Append(heard[k], Len(heard[k]) + 1)
        BY <1>9, <3>2, <4>3 DEF ServerReads, TypeOK
      <4> QED BY <2>2, <3>2, <4>1, <4>4 DEF Up
    <3> QED BY <3>3, <3>4
  <2> QED BY <2>1, <2>2
<1>10. ASSUME NEW k \in Link, ServerLost(k) PROVE Up(j)'
  <2>1. CASE j = k
    <3>1. UpInv(k, tx, out[k], writer[k], up[k], "open", accepted[k], heard[k])
      BY <1>10, <2>1 DEF ServerLost, Up
    <3>2. UpInv(k, tx, out[k], writer[k], <<>>, "lost", accepted[k], heard[k])
      BY <3>1, UpLost DEF TypeOK
    <3>3. /\ up'[k] = <<>> /\ server'[k] = "lost"
          /\ UNCHANGED <<tx, out, writer, accepted, heard>>
      BY <1>10 DEF ServerLost, TypeOK
    <3> QED BY <2>1, <3>2, <3>3 DEF Up
  <2>2. CASE j # k
    BY <1>10, <2>2, UpFrame DEF ServerLost, TypeOK
  <2> QED BY <2>1, <2>2
<1>11. ASSUME NEW k \in Link, ServerReleases(k) PROVE Up(j)'
  <2>1. CASE j = k
    <3>1. UpInv(k, tx, out[k], writer[k], up[k], "closed", accepted[k], heard[k])
      BY <1>11, <2>1 DEF ServerReleases, Up
    <3>2. /\ server'[k] = "over"
          /\ UNCHANGED <<tx, out, writer, up, accepted, heard>>
      BY <1>11 DEF ServerReleases, TypeOK
    <3> QED BY <2>1, <3>1, <3>2, UpReleased DEF Up
  <2>2. CASE j # k
    BY <1>11, <2>2, UpFrame DEF ServerReleases, TypeOK
  <2> QED BY <2>1, <2>2
<1>12. ASSUME \/ OnMessage \/ JoinWriter \/ JoinReader \/ UNCHANGED vars
              \/ \E k \in Link : ReaderReads(k) \/ ReaderEnds(k) \/ ServerSends(k)
       PROVE  UNCHANGED <<tx, out, writer, up, accepted, server, heard>>
  BY <1>12 DEF OnMessage, JoinWriter, JoinReader, vars, ReaderReads, ReaderEnds,
               ServerSends
<1> QED
  BY <1>1, <1>2, <1>3, <1>4, <1>5, <1>6, <1>7, <1>8, <1>9, <1>10, <1>11, <1>12
  DEF Next, Writer

LEMMA DownStep ==
  ASSUME TypeOK, [Next]_vars, NEW j \in Link, Down(j)
  PROVE  Down(j)'
<1> USE DEF owner, sending, receiving, serving
<1>1. CASE UNCHANGED <<hears, down, reader, server, said, told>>
  BY <1>1, DownFrame
<1>2. ASSUME NEW k \in Link, Connect(k) PROVE Down(j)'
  <2>1. CASE j = k
    <3>1. said[k] = 0 /\ told[k] = <<>>
      BY <1>2, <2>1 DEF Connect, Down, DownInv
    <3>2. /\ down'[k] = <<Pinging>> /\ reader'[k] = "running"
          /\ server'[k] = "open" /\ said'[k] = 0 /\ told'[k] = <<>>
      BY <1>2, <3>1 DEF Connect, Pinging, TypeOK
    <3> QED BY <2>1, <3>2, DownStart DEF Down
  <2>2. CASE j # k
    BY <1>2, <2>2, DownFrame DEF Connect, TypeOK
  <2> QED BY <2>1, <2>2
<1>3. ASSUME NEW k \in Link, ReaderReads(k) PROVE Down(j)'
  <2>1. CASE j = k
    <3>1. DownInv(k, hears, down[k], "running", server[k], said[k], told[k])
      BY <1>3, <2>1 DEF ReaderReads, Down
    <3>2. DownInv(k, hears, Tail(down[k]), "running", server[k], said[k],
                  Told(k, hears, Head(down[k]), told[k]))
      BY <1>3, <3>1, DownTold DEF ReaderReads, TypeOK
    <3>3. /\ down'[k] = Tail(down[k]) /\ reader'[k] = "running"
          /\ told'[k] = Told(k, hears, Head(down[k]), told[k])
          /\ UNCHANGED <<hears, server, said>>
      BY <1>3 DEF ReaderReads, Told, TypeOK
    <3> QED BY <2>1, <3>2, <3>3 DEF Down
  <2>2. CASE j # k
    BY <1>3, <2>2, DownFrame DEF ReaderReads, TypeOK
  <2> QED BY <2>1, <2>2
<1>4. ASSUME NEW k \in Link, ReaderEnds(k) PROVE Down(j)'
  <2>1. CASE j = k
    <3>1. /\ DownInv(k, hears, down[k], "running", server[k], said[k], told[k])
          /\ server[k] \in {"over", "lost"}
      BY <1>4, <2>1 DEF ReaderEnds, Down
    <3>2. DownInv(k, hears, <<>>, "done", server[k], said[k], told[k])
      BY <3>1, DownEnds
    <3>3. /\ down'[k] = <<>> /\ reader'[k] = "done"
          /\ UNCHANGED <<hears, server, said, told>>
      BY <1>4 DEF ReaderEnds, TypeOK
    <3> QED BY <2>1, <3>2, <3>3 DEF Down
  <2>2. CASE j # k
    BY <1>4, <2>2, DownFrame DEF ReaderEnds, TypeOK
  <2> QED BY <2>1, <2>2
<1>5. ASSUME NEW k \in Link, ServerSends(k) PROVE Down(j)'
  <2>1. CASE j = k
    <3>1. DownInv(k, hears, down[k], reader[k], "open", said[k], told[k])
      BY <1>5, <2>1 DEF ServerSends, Down
    <3>2. DownInv(k, hears, Append(down[k], Encode(codec, said[k] + 1)), reader[k],
                  "open", said[k] + 1, told[k])
      BY <3>1, DownSaid DEF TypeOK
    <3>3. /\ down'[k] = Append(down[k], Encode(codec, said[k] + 1))
          /\ said'[k] = said[k] + 1 /\ server'[k] = "open"
          /\ UNCHANGED <<hears, reader, told>>
      BY <1>5 DEF ServerSends, TypeOK
    <3> QED BY <2>1, <3>2, <3>3 DEF Down
  <2>2. CASE j # k
    BY <1>5, <2>2, DownFrame DEF ServerSends, TypeOK
  <2> QED BY <2>1, <2>2
<1>6. ASSUME NEW k \in Link,
             ServerReads(k) \/ ServerReleases(k) \/ ServerLost(k)
      PROVE  Down(j)'
  <2>1. UNCHANGED <<hears, down, reader, said, told>>
    BY <1>6 DEF ServerReads, ServerReleases, ServerLost
  <2>2. CASE server'[j] = server[j]
    BY <2>1, <2>2, DownFrame
  <2>3. CASE server'[j] # server[j]
    <3>1. \/ server[j] = "open" /\ server'[j] \in {"closed", "lost"}
          \/ server[j] = "closed" /\ server'[j] = "over"
      <4>1. \/ server[k] = "open" /\ server' = [server EXCEPT ![k] = "closed"]
            \/ server[k] = "open" /\ server' = [server EXCEPT ![k] = "lost"]
            \/ server[k] = "closed" /\ server' = [server EXCEPT ![k] = "over"]
        BY <1>6, <2>3 DEF ServerReads, ServerReleases, ServerLost
      <4>2. \A x : server' = [server EXCEPT ![k] = x] => j = k /\ server'[j] = x
        BY <2>3 DEF TypeOK
      <4> QED BY <4>1, <4>2
    <3>2. DownInv(j, hears, down[j], reader[j], server[j], said[j], told[j])
      BY DEF Down
    <3>3. DownInv(j, hears, down[j], reader[j], server'[j], said[j], told[j])
      BY <3>1, <3>2, DownServer
    <3> QED BY <2>1, <3>3 DEF Down
  <2> QED BY <2>2, <2>3
<1>7. ASSUME \/ OnMessage \/ Send \/ Disconnect \/ JoinWriter \/ JoinReader
             \/ Drop \/ UNCHANGED vars
             \/ \E k \in Link : WriterSends(k) \/ WriterFails(k) \/ WriterEnds(k)
      PROVE  UNCHANGED <<hears, down, reader, server, said, told>>
  BY <1>7 DEF OnMessage, Send, Disconnect, JoinWriter, JoinReader, Drop, vars,
              WriterSends, WriterFails, WriterEnds
<1> QED
  BY <1>1, <1>2, <1>3, <1>4, <1>5, <1>6, <1>7 DEF Next, Writer

LEMMA OwnerStep ==
  ASSUME TypeOK, OwnerInv, [Next]_vars
  PROVE  OwnerInv'
<1> USE DEF owner, sending, receiving, serving
<1>1. CASE UNCHANGED <<tx, api, handle, orphans, server, writer, reader>>
  BY <1>1 DEF OwnerInv, Quiet
<1>2. CASE Disconnect \/ Drop
  BY <1>2 DEF Disconnect, Drop, OwnerInv, Quiet
<1>3. CASE JoinWriter
  BY <1>3 DEF JoinWriter, OwnerInv, Quiet
<1>4. CASE JoinReader
  <2>1. /\ tx' = tx /\ tx = NoLink /\ api' = "idle" /\ handle' = NoLink
        /\ UNCHANGED <<orphans, writer, reader>>
        /\ handle # NoLink => writer[handle] = "done" /\ reader[handle] = "done"
    BY <1>4 DEF JoinReader, OwnerInv
  <2>2. Quiet'
    BY <2>1, LinkFacts DEF OwnerInv, Quiet
  <2> QED BY <2>1, <2>2 DEF OwnerInv
<1>5. ASSUME NEW k \in Link, Connect(k) PROVE OwnerInv'
  <2>1. /\ tx' = k /\ handle' = k /\ api' = "idle" /\ server'[k] # "none"
        /\ orphans' = orphans \cup ({handle} \ {NoLink})
    BY <1>5 DEF Connect, TypeOK
  <2>2. ASSUME NEW j \in Link, "running" \in {writer[j], reader[j]}', j # k
        PROVE  j \in orphans'
    <3>1. writer'[j] = writer[j] /\ reader'[j] = reader[j]
      BY <1>5, <2>2 DEF Connect, TypeOK
    <3>2. j \in orphans \cup {handle} /\ j # NoLink
      BY <2>2, <3>1, LinkFacts DEF OwnerInv, Quiet
    <3> QED BY <2>1, <3>2
  <2> QED BY <2>1, <2>2 DEF OwnerInv, Quiet
<1>6. ASSUME NEW k \in Link,
             \/ WriterFails(k) \/ WriterEnds(k) \/ ReaderEnds(k)
             \/ ServerReads(k) \/ ServerReleases(k) \/ ServerLost(k)
      PROVE  OwnerInv'
  <2>1. UNCHANGED <<tx, api, handle, orphans>>
    BY <1>6 DEF WriterFails, WriterEnds, ReaderEnds, ServerReads, ServerReleases,
                ServerLost
  <2>2. \A j \in Link : /\ writer'[j] \in {writer[j], "done"}
                        /\ reader'[j] \in {reader[j], "done"}
                        /\ server'[j] = "none" => server[j] = "none"
    BY <1>6 DEF WriterFails, WriterEnds, ReaderEnds, ServerReads, ServerReleases,
                ServerLost, TypeOK
  <2>3. handle # NoLink => handle \in Link
    BY DEF TypeOK
  <2>4. Quiet'
    <3> SUFFICES ASSUME NEW j \in Link, "running" \in {writer'[j], reader'[j]}
                 PROVE  j \in orphans \cup {handle}
      BY <2>1 DEF Quiet
    <3>1. "running" \in {writer[j], reader[j]}
      BY <2>2
    <3> QED BY <3>1 DEF OwnerInv, Quiet
  <2>5. handle # NoLink => server'[handle] # "none"
    BY <2>2, <2>3 DEF OwnerInv
  <2>6. (api = "joinReader" /\ handle # NoLink) => writer'[handle] = "done"
    BY <2>2, <2>3 DEF OwnerInv
  <2> QED BY <2>1, <2>4, <2>5, <2>6 DEF OwnerInv
<1>7. ASSUME \/ OnMessage \/ Send \/ UNCHANGED vars
             \/ \E k \in Link : WriterSends(k) \/ ReaderReads(k) \/ ServerSends(k)
      PROVE  UNCHANGED <<tx, api, handle, orphans, server, writer, reader>>
  BY <1>7 DEF OnMessage, Send, vars, WriterSends, ReaderReads, ServerSends
<1> QED
  BY <1>1, <1>2, <1>3, <1>4, <1>5, <1>6, <1>7 DEF Next, Writer

LEMMA IInit == Init => IInv
<1> SUFFICES ASSUME Init PROVE IInv
  OBVIOUS
<1>1. TypeOK
  BY TypeInit
<1>2. OwnerInv
  BY DEF Init, OwnerInv, Quiet
<1>3. ASSUME NEW k \in Link PROVE Up(k) /\ Down(k)
  <2>1. tx # k /\ k \notin hears
    BY LinkFacts DEF Init
  <2>2. Up(k)
    BY <2>1, UpNone DEF Init, Up
  <2>3. Down(k)
    BY <2>1, DownNone DEF Init, Down
  <2> QED BY <2>2, <2>3
<1> QED BY <1>1, <1>2, <1>3 DEF IInv

LEMMA IStep == IInv /\ [Next]_vars => IInv'
<1> SUFFICES ASSUME IInv, [Next]_vars PROVE IInv'
  OBVIOUS
<1>1. TypeOK'
  BY TypeStep DEF IInv
<1>2. OwnerInv'
  BY OwnerStep DEF IInv
<1>3. \A k \in Link : Up(k)' /\ Down(k)'
  BY UpStep, DownStep DEF IInv
<1> QED BY <1>1, <1>2, <1>3 DEF IInv

LEMMA Inductive == Spec => []IInv
BY IInit, IStep, PTL DEF Spec

\* In both directions messages are decoded in the order in which they were
\* accepted, without gaps or repetitions, over any number of connections and
\* with every codec (hub_client.rs:191-206, 239-247).
THEOREM InOrderHolds == Spec => []InOrder
<1>1. IInv => InOrder
  <2> SUFFICES ASSUME IInv, NEW k \in Link
               PROVE  /\ \A i \in 1 .. Len(heard[k]) : heard[k][i] = i
                      /\ \A i \in 1 .. Len(told[k]) : told[k][i] = i
                      /\ Len(heard[k]) <= accepted[k]
                      /\ Len(told[k]) <= said[k]
    BY DEF InOrder
  <2>1. Up(k) /\ Down(k) /\ TypeOK
    BY DEF IInv
  <2>2. \A i \in 1 .. Len(heard[k]) : heard[k][i] = i
    BY <2>1 DEF Up, UpInv
  <2>3. Len(heard[k]) <= accepted[k]
    <3>1. Len(heard[k]) + Count(up[k]) <= accepted[k]
      BY <2>1 DEF Up, UpInv
    <3>2. Count(up[k]) \in Nat /\ Len(heard[k]) \in Nat /\ accepted[k] \in Nat
      BY <2>1, CountFacts DEF TypeOK
    <3> QED BY <3>1, <3>2
  <2>4. (\A i \in 1 .. Len(told[k]) : told[k][i] = i) /\ Len(told[k]) <= said[k]
    BY <2>1 DEF Down, DownInv
  <2> QED BY <2>2, <2>3, <2>4
<1> QED BY <1>1, Inductive, PTL

\* No task outlives the disconnect that waits for it (hub_client.rs:229-234).
THEOREM QuietHolds == Spec => []Quiet
<1>1. IInv => Quiet
  BY DEF IInv, OwnerInv
<1> QED BY <1>1, Inductive, PTL

\* When disconnect returns, the server has decoded everything accepted before
\* and dropped its end, unless it was lost on its own (hub_client.rs:221-235).
THEOREM FlushedHolds == Spec => Flushed
<1> DEFINE Returns == api = "joinReader" /\ api' = "idle" /\ handle # NoLink
           Done == \/ server[handle] = "lost"
                   \/ server[handle] = "over" /\ Len(heard[handle]) = accepted[handle]
<1>1. IInv /\ [Next]_vars => [Returns => Done]_vars
  <2> SUFFICES ASSUME IInv, Next, Returns PROVE Done
    OBVIOUS
  <2>1. JoinReader
    BY DEF Next, Writer, OnMessage, Send, Disconnect, JoinWriter, JoinReader, Drop,
           Connect, WriterSends, WriterFails, WriterEnds, ReaderReads, ReaderEnds,
           ServerReads, ServerSends, ServerReleases, ServerLost, owner
  <2>2. handle \in Link /\ reader[handle] = "done"
    BY <2>1 DEF JoinReader, IInv, TypeOK
  <2>3. server[handle] \in {"over", "lost"}
    BY <2>2 DEF IInv, Down, DownInv
  <2>4. server[handle] = "over" => Len(heard[handle]) = accepted[handle]
    BY <2>2 DEF IInv, Up, UpInv
  <2> QED BY <2>3, <2>4
<1> QED BY <1>1, Inductive, PTL DEF Spec, Flushed

-----------------------------------------------------------------------------
(* What is under way                                                       *)

\* No accepted message is lost while the server's end is open, whichever of
\* its connections the client owns (hub_client.rs:191-197, 239-247).
THEOREM NothingLostHolds == Spec => []NothingLost
<1>1. IInv => NothingLost
  <2> SUFFICES ASSUME IInv, NEW k \in Link, server[k] = "open"
               PROVE  /\ Len(heard[k]) + Count(up[k]) + Count(out[k]) = accepted[k]
                      /\ out[k] # <<>> => writer[k] = "running"
    BY DEF NothingLost
  <2>1. UpInv(k, tx, out[k], writer[k], up[k], "open", accepted[k], heard[k])
    BY DEF IInv, Up
  <2>2. writer[k] = "running" \/ writer[k] = "done"
    BY <2>1 DEF UpInv, IInv, TypeOK, TaskStates
  <2>3. CASE writer[k] = "running"
    BY <2>1, <2>3 DEF UpInv
  <2>4. CASE writer[k] = "done"
    <3>1. out[k] = <<>> /\ Len(heard[k]) + Count(up[k]) = accepted[k]
      BY <2>1, <2>4 DEF UpInv
    <3>2. Count(out[k]) = 0
      BY <3>1, EmptyFacts
    <3>3. Len(heard[k]) + Count(up[k]) \in Nat
      BY <3>1 DEF IInv, TypeOK
    <3> QED BY <3>1, <3>2, <3>3
  <2> QED BY <2>2, <2>3, <2>4
<1> QED BY <1>1, Inductive, PTL

\* A Close at the end of a channel stays there until it is taken.
LEMMA ClosedTail ==
  ASSUME NEW s \in Seq(Message), s # <<>>, Closed(s)
  PROVE  Head(s) = Closing \/ Closed(Tail(s))
<1>1. /\ Head(s) = s[1] /\ Tail(s) \in Seq(Message)
      /\ Len(s) \in Nat \ {0} /\ Len(Tail(s)) = Len(s) - 1
      /\ \A i \in 1 .. Len(s) - 1 : Tail(s)[i] = s[i + 1]
  BY TailFacts
<1>2. CASE Len(s) = 1
  BY <1>1, <1>2 DEF Closed
<1>3. CASE Len(s) # 1
  <2>1. Tail(s)[Len(s) - 1] = s[Len(s)] /\ Len(s) - 1 # 0
    BY <1>1, <1>3
  <2> QED BY <1>1, <2>1 DEF Closed
<1> QED BY <1>2, <1>3

LEMMA ClosedAppend ==
  ASSUME NEW s \in Seq(Message)
  PROVE  Closed(Append(s, Closing))
BY AppendFacts, ControlFacts DEF Closed

\* CloseUnderway, for one connection.
Given(k) ==
  (server[k] = "open" /\ tx # k /\ k \notin orphans) =>
    Closed(up[k]) \/ (Closed(out[k]) /\ writer[k] = "running")

LEMMA GivenFrame ==
  ASSUME NEW j, Given(j), tx' = tx, orphans' = orphans, up'[j] = up[j],
         out'[j] = out[j], writer'[j] = writer[j], server'[j] = server[j]
  PROVE  Given(j)'
BY DEF Given

\* Disconnect and Drop: the writer of an open connection still runs, so that
\* the Close goes into its channel.
LEMMA GivenUp ==
  ASSUME TypeOK, NEW j \in Link, Up(j), Given(j),
         Queue(tx, Control("Close")),
         UNCHANGED <<orphans, writer, up, server>>
  PROVE  Given(j)'
<1>1. CASE tx = j /\ server[j] = "open"
  <2>1. writer[j] = "running"
    BY <1>1 DEF Up, UpInv
  <2>2. out'[j] = Append(out[j], Closing)
    BY <1>1, <2>1, LinkFacts DEF Queue, Closing, TypeOK
  <2>3. Closed(out'[j])
    BY <2>2, ClosedAppend DEF TypeOK
  <2> QED BY <2>1, <2>3 DEF Given
<1>2. CASE tx # j
  BY <1>2 DEF Queue, Given, TypeOK
<1> QED BY <1>1, <1>2 DEF Given

LEMMA GivenStep ==
  ASSUME IInv, [Next]_vars, NEW j \in Link, Given(j)
  PROVE  Given(j)'
<1> USE DEF owner, sending, receiving, serving
<1>1. TypeOK /\ Up(j)
  BY DEF IInv
<1>2. CASE Disconnect
  BY <1>1, <1>2, GivenUp DEF Disconnect
<1>3. CASE Drop
  BY <1>1, <1>3, GivenUp DEF Drop
<1>4. ASSUME NEW k \in Link, Connect(k) PROVE Given(j)'
  <2>1. CASE j = k
    BY <1>4, <2>1 DEF Connect, Given
  <2>2. CASE j # k /\ tx = j
    BY <1>4, <2>2, LinkFacts DEF Connect, Given, IInv, OwnerInv
  <2>3. CASE j # k /\ tx # j
    BY <1>1, <1>4, <2>3 DEF Connect, Given, TypeOK
  <2> QED BY <2>1, <2>2, <2>3
<1>5. ASSUME NEW k \in Link, WriterSends(k) PROVE Given(j)'
  <2>1. CASE j # k
    BY <1>1, <1>5, <2>1, GivenFrame DEF WriterSends, TypeOK
  <2>2. CASE j = k /\ Closed(out[j])
    <3>1. /\ out'[j] = Tail(out[j]) /\ up'[j] = Append(up[j], Head(out[j]))
          /\ writer'[j] = "running"
      BY <1>1, <1>5, <2>2 DEF WriterSends, TypeOK
    <3>2. Closed(out'[j]) \/ up'[j] = Append(up[j], Closing)
      BY <1>1, <1>5, <2>2, <3>1, ClosedTail DEF WriterSends, TypeOK
    <3> QED BY <1>1, <3>1, <3>2, ClosedAppend DEF Given, TypeOK
  <2>3. CASE j = k /\ ~Closed(out[j])
    BY <1>1, <1>5, <2>3 DEF WriterSends, Given, Up, UpInv
  <2> QED BY <2>1, <2>2, <2>3
<1>6. ASSUME NEW k \in Link, WriterFails(k) PROVE Given(j)'
  <2>1. CASE j = k
    BY <1>6, <2>1 DEF WriterFails, Given
  <2>2. CASE j # k
    <3>1. out'[j] = out[j] /\ writer'[j] = writer[j]
      BY <1>1, <1>6, <2>2 DEF WriterFails, TypeOK
    <3> QED BY <1>6, <3>1, GivenFrame DEF WriterFails
  <2> QED BY <2>1, <2>2
<1>7. ASSUME NEW k \in Link, WriterEnds(k) PROVE Given(j)'
  <2>1. CASE j = k
    <3>1. ~Closed(out[j])
      BY <1>7, <2>1 DEF WriterEnds, Closed
    <3> QED BY <1>7, <2>1, <3>1 DEF WriterEnds, Given
  <2>2. CASE j # k
    BY <1>1, <1>7, <2>2, GivenFrame DEF WriterEnds, TypeOK
  <2> QED BY <2>1, <2>2
<1>8. ASSUME NEW k \in Link, ServerReads(k) PROVE Given(j)'
  <2>1. CASE j # k
    <3>1. server'[j] = server[j] /\ up'[j] = up[j]
      BY <1>1, <1>8, <2>1 DEF ServerReads, TypeOK
    <3> QED BY <1>8, <3>1, GivenFrame DEF ServerReads
  <2>2. CASE j = k /\ Closed(up[j])
    <3>1. Head(up[j]) = Closing \/ Closed(Tail(up[j]))
      BY <1>1, <1>8, <2>2, ClosedTail DEF ServerReads, TypeOK
    <3>2. Head(up[j]) = Closing => server'[j] = "closed"
      BY <1>1, <1>8, <2>2, ControlFacts DEF ServerReads, TypeOK
    <3>3. up'[j] = Tail(up[j])
      BY <1>1, <1>8, <2>2 DEF ServerReads, TypeOK
    <3> QED BY <3>1, <3>2, <3>3 DEF Given
  <2>3. CASE j = k /\ ~Closed(up[j])
    BY <1>8, <2>3 DEF ServerReads, Given
  <2> QED BY <2>1, <2>2, <2>3
<1>9. ASSUME NEW k \in Link, ServerReleases(k) \/ ServerLost(k) PROVE Given(j)'
  <2>1. CASE j # k
    BY <1>1, <1>9, <2>1, GivenFrame DEF ServerReleases, ServerLost, TypeOK
  <2>2. CASE j = k
    BY <1>1, <1>9, <2>2 DEF ServerReleases, ServerLost, Given, TypeOK
  <2> QED BY <2>1, <2>2
<1>10. ASSUME \/ OnMessage \/ JoinWriter \/ JoinReader \/ UNCHANGED vars
              \/ \E k \in Link : ReaderReads(k) \/ ReaderEnds(k) \/ ServerSends(k)
       PROVE  Given(j)'
  BY <1>10, GivenFrame DEF OnMessage, JoinWriter, JoinReader, vars,
     ReaderReads, ReaderEnds, ServerSends
<1>11. CASE Send
  <2>1. CASE tx = j
    BY <1>11, <2>1 DEF Send, Given
  <2>2. CASE tx # j
    BY <1>1, <1>11, <2>2, GivenFrame DEF Send, Queue, TypeOK
  <2> QED BY <2>1, <2>2
<1> QED
  BY <1>2, <1>3, <1>4, <1>5, <1>6, <1>7, <1>8, <1>9, <1>10, <1>11
  DEF Next, Writer

\* A connection that its owner has given up has its Close under way, until the
\* server's end is no longer open: no writer stops before it, and no message
\* gets behind it (hub_client.rs:147-154, 224-228).
THEOREM CloseUnderwayHolds == Spec => []CloseUnderway
<1>1. CloseUnderway <=> \A k \in Link : Given(k)
  BY DEF CloseUnderway, Given
<1>2. Init => CloseUnderway
  BY DEF Init, CloseUnderway
<1>3. IInv /\ CloseUnderway /\ [Next]_vars => CloseUnderway'
  <2> SUFFICES ASSUME IInv, CloseUnderway, [Next]_vars, NEW j \in Link
               PROVE  Given(j)'
    BY DEF CloseUnderway, Given
  <2> QED BY <1>1, GivenStep
<1> QED BY <1>2, <1>3, Inductive, PTL DEF Spec

-----------------------------------------------------------------------------
(* Why disconnect returns                                                  *)

\* What must hold for a step of the writer, of the reader's end, and of the
\* server that takes a message or that has read the Close.
WriterMoves(k) ==
  /\ writer[k] = "running"
  /\ IF out[k] = <<>> THEN tx # k ELSE server[k] # "open" \/ Len(up[k]) < Wire

ReaderStops(k) == reader[k] = "running" /\ server[k] \in {"over", "lost"}

ServerTakes(k) == server[k] = "open" /\ up[k] # <<>>

ServerCloses(k) == server[k] = "closed"

LEMMA MovesAreGuards ==
  ASSUME NEW k \in Link
  PROVE  /\ Writer(k) => WriterMoves(k)
         /\ ReaderEnds(k) => ReaderStops(k)
         /\ ServerReads(k) => ServerTakes(k)
         /\ ServerReleases(k) => ServerCloses(k)
BY DEF Writer, WriterSends, WriterFails, WriterEnds, ReaderEnds, ServerReads,
       ServerReleases, WriterMoves, ReaderStops, ServerTakes, ServerCloses

\* A replaced connection has been opened, and is not the current one.
Replaced == handle \notin orphans /\ \A k \in orphans : server[k] # "none"

LEMMA ReplacedStep ==
  ASSUME IInv, Replaced, [Next]_vars
  PROVE  Replaced'
<1> USE DEF owner, sending, receiving, serving
<1>1. TypeOK /\ NoLink \notin Link /\ OwnerInv
  BY LinkFacts DEF IInv
<1>2. CASE UNCHANGED <<handle, orphans, server>>
  BY <1>2 DEF Replaced
<1>3. CASE JoinReader
  BY <1>1, <1>3 DEF JoinReader, Replaced, TypeOK
<1>4. ASSUME NEW k \in Link, Connect(k) PROVE Replaced'
  <2>1. /\ server[k] = "none" /\ handle' = k
        /\ orphans' = orphans \cup ({handle} \ {NoLink})
        /\ \A j \in Link : server[j] # "none" => server'[j] # "none"
    BY <1>1, <1>4 DEF Connect, TypeOK
  <2>2. handle # NoLink => handle \in Link /\ server[handle] # "none"
    BY <1>1 DEF TypeOK, OwnerInv
  <2>3. orphans \subseteq Link
    BY <1>1 DEF TypeOK
  <2> QED BY <2>1, <2>2, <2>3 DEF Replaced
<1>5. ASSUME NEW k \in Link,
             ServerReads(k) \/ ServerReleases(k) \/ ServerLost(k)
      PROVE  Replaced'
  <2>1. /\ UNCHANGED <<handle, orphans>>
        /\ \A j \in Link : server[j] # "none" => server'[j] # "none"
    BY <1>1, <1>5 DEF ServerReads, ServerReleases, ServerLost, TypeOK
  <2> QED BY <1>1, <2>1 DEF Replaced, TypeOK
<1>6. ASSUME \/ OnMessage \/ Send \/ Disconnect \/ JoinWriter \/ Drop \/ UNCHANGED vars
             \/ \E k \in Link : \/ WriterSends(k) \/ WriterFails(k) \/ WriterEnds(k)
                              \/ ReaderReads(k) \/ ReaderEnds(k) \/ ServerSends(k)
      PROVE  UNCHANGED <<handle, orphans, server>>
  BY <1>6 DEF OnMessage, Send, Disconnect, JoinWriter, Drop, vars, WriterSends,
              WriterFails, WriterEnds, ReaderReads, ReaderEnds, ServerSends
<1> QED BY <1>2, <1>3, <1>4, <1>5, <1>6 DEF Next, Writer

\* A disconnect that has not returned waits for a task that can go on, or for a
\* server that has a message to take or that has read the Close and tears the
\* connection down.  It never waits for a task that waits for disconnect itself,
\* or for a server that has not been told: the Close is on its way to it
\* (hub_client.rs:221-235).  Nothing bounds how long the server takes
\* (serve.rs:125-132).
DisconnectGoesOn ==
  handle # NoLink =>
    /\ api = "joinWriter" =>
         writer[handle] = "done" \/ WriterMoves(handle) \/ ServerTakes(handle)
    /\ api = "joinReader" =>
         \/ reader[handle] = "done" \/ ReaderStops(handle)
         \/ ServerTakes(handle) \/ ServerCloses(handle)

THEOREM DisconnectGoesOnHolds == Spec => []DisconnectGoesOn
<1>1. Init => Replaced
  BY DEF Init, Replaced
<1>2. IInv /\ Replaced /\ [Next]_vars => Replaced'
  BY ReplacedStep
<1>3. IInv /\ Replaced /\ CloseUnderway => DisconnectGoesOn
  <2> SUFFICES ASSUME IInv, Replaced, CloseUnderway, handle # NoLink,
                      api \in {"joinWriter", "joinReader"}
               PROVE  /\ api = "joinWriter" =>
                           \/ writer[handle] = "done"
                           \/ WriterMoves(handle) \/ ServerTakes(handle)
                      /\ api = "joinReader" =>
                           \/ reader[handle] = "done" \/ ReaderStops(handle)
                           \/ ServerTakes(handle) \/ ServerCloses(handle)
    BY DEF DisconnectGoesOn
  <2>1. /\ handle \in Link /\ tx # handle /\ server[handle] # "none"
        /\ handle \notin orphans
        /\ api = "joinReader" => writer[handle] = "done"
    BY DEF IInv, TypeOK, OwnerInv, Replaced
  <2>2. /\ writer[handle] \in {"running", "done"}
        /\ reader[handle] \in {"running", "done"}
    BY <2>1 DEF IInv, TypeOK, TaskStates, Up, UpInv, Down, DownInv
  <2>3. Len(up[handle]) < Wire \/ up[handle] # <<>>
    BY <2>1, ClientAssumption DEF IInv, TypeOK
  <2>4. CASE api = "joinWriter"
    BY <2>1, <2>2, <2>3, <2>4 DEF WriterMoves, ServerTakes
  <2>5. CASE api = "joinReader"
    <3>1. server[handle] = "open" => Closed(up[handle])
      BY <2>1, <2>5 DEF CloseUnderway
    <3>2. server[handle] \in {"open", "closed", "over", "lost"}
      BY <2>1 DEF IInv, TypeOK
    <3> QED BY <2>2, <2>5, <3>1, <3>2
            DEF ReaderStops, ServerTakes, ServerCloses, Closed
  <2> QED BY <2>4, <2>5
<1> QED BY <1>1, <1>2, <1>3, Inductive, CloseUnderwayHolds, PTL DEF Spec

\* How many steps of its writer and of the server a connection has left that is
\* not fed any more: two for each message in the channel, one for each message
\* under way, and one for the end of the writer.
Pending(k) ==
  2 * Len(out[k]) + Len(up[k]) + (IF writer[k] = "running" THEN 1 ELSE 0)

\* A connection that its owner has given up, by disconnect, drop or a further
\* connect, runs dry: each step at its channel, its writer or its messages under
\* way brings it nearer the end, whatever other connections do.  With
\* DisconnectGoesOn: disconnect returns when its tasks and the server have had
\* so many steps, and the server has torn the connection down.
RunsDry ==
  [][\A k \in Link : tx # k /\ server[k] # "none" =>
       \/ UNCHANGED <<out[k], up[k], writer[k]>>
       \/ Pending(k)' < Pending(k)]_vars

\* Pending in numbers.
Weight(o, u, w) == 2 * o + u + (IF w = "running" THEN 1 ELSE 0)

LEMMA WeightFacts ==
  ASSUME NEW o \in Nat, NEW u \in Nat, NEW w
  PROVE  /\ Weight(o, u, w) \in Nat
         /\ \A v \in Nat : v < u => Weight(o, v, w) < Weight(o, u, w)
         /\ o > 0 => /\ Weight(o - 1, u + 1, w) < Weight(o, u, w)
                     /\ Weight(o - 1, u, w) < Weight(o, u, w)
         /\ w = "running" => /\ Weight(o, u, "done") < Weight(o, u, w)
                             /\ Weight(0, u, "done") < Weight(o, u, w)
BY DEF Weight

LEMMA PendingFacts ==
  ASSUME NEW s \in Seq(Message)
  PROVE  /\ Len(s) \in Nat /\ Len(<<>>) = 0
         /\ \A m \in Message : Len(Append(s, m)) = Len(s) + 1
         /\ s # <<>> => /\ Len(s) > 0 /\ Head(s) \in Message
                        /\ Len(Tail(s)) = Len(s) - 1 /\ Len(Tail(s)) \in Nat
BY TailFacts, AppendFacts, EmptyFacts

LEMMA RunsDryStep ==
  ASSUME TypeOK, Next, NEW k \in Link, tx # k, server[k] # "none"
  PROVE  \/ UNCHANGED <<out[k], up[k], writer[k]>>
         \/ Pending(k)' < Pending(k)
<1> USE DEF owner, sending, receiving, serving
<1>1. out[k] \in Seq(Message) /\ up[k] \in Seq(Message)
  BY DEF TypeOK
<1>o. Len(out[k]) \in Nat /\ Len(up[k]) \in Nat
  BY <1>1, PendingFacts
<1>p. /\ Pending(k) = Weight(Len(out[k]), Len(up[k]), writer[k])
      /\ Pending(k)' = Weight(Len(out'[k]), Len(up'[k]), writer'[k])
  BY DEF Pending, Weight
<1>2. CASE WriterSends(k)
  <2>1. /\ out[k] # <<>> /\ out'[k] = Tail(out[k])
        /\ up'[k] = Append(up[k], Head(out[k])) /\ writer'[k] = writer[k]
    BY <1>2 DEF WriterSends, TypeOK
  <2>2. /\ Len(out[k]) > 0
        /\ Len(out'[k]) = Len(out[k]) - 1 /\ Len(up'[k]) = Len(up[k]) + 1
    BY <1>1, <2>1, PendingFacts
  <2> QED BY <1>o, <1>p, <2>1, <2>2, WeightFacts
<1>3. CASE WriterFails(k)
  <2>1. /\ out[k] # <<>> /\ up'[k] = up[k] /\ writer[k] = "running"
        /\ \/ writer'[k] = "done" /\ out'[k] = <<>>
           \/ writer'[k] = writer[k] /\ out'[k] = Tail(out[k])
    BY <1>3 DEF WriterFails, TypeOK
  <2>2. /\ Len(out[k]) > 0
        /\ \/ writer'[k] = "done" /\ Len(out'[k]) = 0
           \/ writer'[k] = writer[k] /\ Len(out'[k]) = Len(out[k]) - 1
    BY <1>1, <2>1, PendingFacts
  <2> QED BY <1>o, <1>p, <2>1, <2>2, WeightFacts
<1>4. CASE WriterEnds(k)
  <2>1. /\ out'[k] = out[k] /\ up'[k] = up[k]
        /\ writer[k] = "running" /\ writer'[k] = "done"
    BY <1>4 DEF WriterEnds, TypeOK
  <2> QED BY <1>o, <1>p, <2>1, WeightFacts
<1>5. CASE ServerReads(k) \/ ServerLost(k)
  <2>1. /\ out'[k] = out[k] /\ writer'[k] = writer[k]
        /\ \/ up'[k] = <<>>
           \/ up[k] # <<>> /\ up'[k] = Tail(up[k])
    BY <1>5 DEF ServerReads, ServerLost, TypeOK
  <2>2. CASE up[k] = <<>>
    BY <2>1, <2>2
  <2>3. CASE up[k] # <<>>
    <3>1. Len(up'[k]) \in Nat /\ Len(up'[k]) < Len(up[k])
      <4>1. Len(up[k]) > 0 /\ Len(Tail(up[k])) = Len(up[k]) - 1 /\ Len(<<>>) = 0
        BY <1>1, <2>3, PendingFacts
      <4>2. Len(up'[k]) = 0 \/ Len(up'[k]) = Len(up[k]) - 1
        BY <2>1, <4>1
      <4> QED BY <1>o, <4>1, <4>2
    <3> QED BY <1>o, <1>p, <2>1, <3>1, WeightFacts
  <2> QED BY <2>2, <2>3
<1>6. ASSUME NEW j \in Link, j # k,
             \/ WriterSends(j) \/ WriterFails(j) \/ WriterEnds(j)
             \/ ServerReads(j) \/ ServerLost(j)
      PROVE  UNCHANGED <<out[k], up[k], writer[k]>>
  BY <1>6 DEF WriterSends, WriterFails, WriterEnds, ServerReads, ServerLost, TypeOK
<1>7. CASE Send \/ Disconnect \/ Drop
  <2>1. UNCHANGED <<up, writer>> /\ \E msg : Queue(tx, msg)
    BY <1>7 DEF Send, Disconnect, Drop
  <2> QED BY <2>1 DEF Queue, TypeOK
<1>8. ASSUME NEW j \in Link, Connect(j)
      PROVE  UNCHANGED <<out[k], up[k], writer[k]>>
  BY <1>8 DEF Connect, TypeOK
<1>9. ASSUME \/ OnMessage \/ JoinWriter \/ JoinReader
             \/ \E j \in Link : \/ ReaderReads(j) \/ ReaderEnds(j)
                              \/ ServerSends(j) \/ ServerReleases(j)
      PROVE  UNCHANGED <<out[k], up[k], writer[k]>>
  BY <1>9 DEF OnMessage, JoinWriter, JoinReader, ReaderReads, ReaderEnds,
              ServerSends, ServerReleases
<1> QED
  BY <1>2, <1>3, <1>4, <1>5, <1>6, <1>7, <1>8, <1>9 DEF Next, Writer

THEOREM RunsDryHolds == Spec => RunsDry
<1> DEFINE Dry ==
      \A k \in Link : tx # k /\ server[k] # "none" =>
        \/ UNCHANGED <<out[k], up[k], writer[k]>>
        \/ Pending(k)' < Pending(k)
<1>1. IInv /\ [Next]_vars => [Dry]_vars
  BY RunsDryStep DEF IInv
<1> QED BY <1>1, Inductive, PTL DEF Spec, RunsDry
=============================================================================
