-------------------------- MODULE ReadLoopProofs --------------------------
(***************************************************************************)
(* Theorems about ReadLoop, for every configuration and every bound.       *)
(***************************************************************************)
EXTENDS ReadLoop, SequenceTheorems, TLAPS

-----------------------------------------------------------------------------
(* Types                                                                   *)

LEMMA ZeroAge == 0 \in Age
  BY ReadLoopAssumption DEF Age

LEMMA OlderAge ==
  ASSUME NEW age \in Age
  PROVE  Older(age) \in Age /\ Older(age) >= age
  BY ReadLoopAssumption DEF Age, Older

\* The queue of ages keeps its type when a Ping is added, ...
LEMMA FlightGrows ==
  ASSUME TypeOK
  PROVE  /\ NewPing \in Seq(Age) /\ Len(NewPing) <= MaxFlight
         /\ \A i \in DOMAIN NewPing : NewPing[i] \in Age
         /\ NewPing # <<>> /\ NewPing[Len(NewPing)] = 0
<1> DEFINE rest == IF Len(flight) = MaxFlight THEN Tail(flight) ELSE flight
<1>1. rest \in Seq(Age) /\ Len(rest) + 1 <= MaxFlight
  BY ReadLoopAssumption DEF TypeOK
<1> HIDE DEF rest
<1>2. /\ Append(rest, 0) \in Seq(Age) /\ Len(Append(rest, 0)) = Len(rest) + 1
      /\ Append(rest, 0)[Len(rest) + 1] = 0 /\ Append(rest, 0) # <<>>
  BY <1>1, ZeroAge, AppendProperties
<1>3. NewPing = Append(rest, 0)
  BY DEF NewPing, rest
<1> HIDE DEF NewPing
<1>4. /\ NewPing \in Seq(Age) /\ Len(NewPing) <= MaxFlight
      /\ NewPing # <<>> /\ NewPing[Len(NewPing)] = 0
  BY <1>1, <1>2, <1>3
<1> QED
  BY <1>4

\* ... when a Pong answers one, ...
LEMMA FlightAnswered ==
  ASSUME TypeOK, NEW i \in DOMAIN flight
  PROVE  LET rest == SubSeq(flight, i + 1, Len(flight))
         IN  /\ rest \in Seq(Age) /\ Len(rest) <= MaxFlight
             /\ \A k \in DOMAIN rest :
                  \E j \in DOMAIN flight : rest[k] = flight[j]
             /\ rest = <<>> <=> i = Len(flight)
             /\ rest # <<>> => rest[Len(rest)] = flight[Len(flight)]
<1>1. i \in 1 .. Len(flight) /\ Len(flight) \in Nat
  BY DEF TypeOK
<1> DEFINE rest == SubSeq(flight, i + 1, Len(flight))
<1>2. /\ rest \in Seq(Age)
      /\ Len(rest) = Len(flight) - i
      /\ \A k \in 1 .. Len(flight) - i : rest[k] = flight[i + k]
  <2>1. /\ rest \in Seq(Age)
        /\ Len(rest) = IF i + 1 <= Len(flight)
                       THEN Len(flight) - (i + 1) + 1 ELSE 0
        /\ \A k \in 1 .. Len(flight) - (i + 1) + 1 :
             rest[k] = flight[(i + 1) + k - 1]
    BY <1>1, SubSeqProperties DEF TypeOK
  <2> QED
    BY <1>1, <2>1
<1> HIDE DEF rest
<1>3. \A k \in DOMAIN rest : k \in 1 .. Len(flight) - i
  BY <1>2
<1>4. ASSUME NEW k \in DOMAIN rest
      PROVE  \E j \in DOMAIN flight : rest[k] = flight[j]
  <2>1. k \in 1 .. Len(flight) - i
    BY <1>3
  <2>2. i + k \in 1 .. Len(flight)
    BY <1>1, <2>1
  <2>3. i + k \in DOMAIN flight
    BY <2>2 DEF TypeOK
  <2> QED
    BY <1>2, <2>1, <2>3
<1>5. Len(rest) <= MaxFlight
  BY <1>1, <1>2, ReadLoopAssumption DEF TypeOK
<1>6. rest = <<>> <=> i = Len(flight)
  <2>1. Len(rest) = 0 <=> rest = <<>>
    BY <1>2, EmptySeq
  <2> QED
    BY <1>1, <1>2, <2>1
<1>7. ASSUME rest # <<>> PROVE rest[Len(rest)] = flight[Len(flight)]
  <2>1. i # Len(flight)
    BY <1>6, <1>7
  <2>2. \A n \in Nat : i \in 1 .. n /\ i # n => n - i \in 1 .. n - i /\ i + (n - i) = n
    OBVIOUS
  <2>3. Len(flight) - i \in 1 .. Len(flight) - i /\ i + (Len(flight) - i) = Len(flight)
    BY <1>1, <2>1, <2>2
  <2> QED
    BY <1>2, <2>3
<1> QED
  BY <1>2, <1>4, <1>5, <1>6, <1>7 DEF rest

\* ... and when time passes.
LEMMA FlightAges ==
  ASSUME TypeOK
  PROVE  LET aged == [i \in DOMAIN flight |-> Older(flight[i])]
         IN  aged \in Seq(Age) /\ Len(aged) = Len(flight)
<1> DEFINE aged == [i \in 1 .. Len(flight) |-> Older(flight[i])]
<1>1. Len(flight) \in Nat /\ DOMAIN flight = 1 .. Len(flight)
  BY DEF TypeOK
<1>2. \A i \in 1 .. Len(flight) : Older(flight[i]) \in Age
  BY OlderAge DEF TypeOK
<1>3. aged \in [1 .. Len(flight) -> Age]
  BY <1>2
<1>4. aged \in Seq(Age) /\ Len(aged) = Len(flight)
  BY <1>1, <1>3
<1> QED
  BY <1>1, <1>4

\* The window of samples never outgrows rtt_samples.
LEMMA WindowBounded ==
  ASSUME TypeOK, NEW sample \in Age, Record(sample)
  PROVE  samples' \in Seq(Age) /\ Len(samples') <= RttSamples
  BY ReadLoopAssumption DEF TypeOK, Record

LEMMA ConfigNat ==
  ASSUME TypeOK
  PROVE  /\ idle \in Nat /\ heartbeat \in Nat
         /\ idleIn \in Int /\ tickIn \in Int /\ silence \in Nat
  BY ReadLoopAssumption DEF TypeOK

\* What every frame resets keeps its type.
LEMMA FrameRead ==
  ASSUME TypeOK, NEW kind, ReadFrame(kind)
  PROVE  /\ inbox' = "none" /\ answered' \in Age /\ lagged' \in BOOLEAN
         /\ tickIn' \in Int /\ tickIn' <= heartbeat
         /\ silence' \in 0 .. MaxSilence
<1>1. 0 \in 0 .. MaxSilence
  BY ReadLoopAssumption
<1>2. inbox' = "none" /\ answered' = 0 /\ lagged' = FALSE
      /\ tickIn' = heartbeat /\ silence' = 0
  BY DEF ReadFrame
<1>3. tickIn' \in Int /\ tickIn' <= heartbeat
  BY <1>2, ConfigNat
<1> QED
  BY <1>1, <1>2, <1>3, ZeroAge

LEMMA TypeInit == Init => TypeOK
<1> SUFFICES ASSUME Init PROVE TypeOK
  OBVIOUS
<1>1. idle \in Nat /\ heartbeat \in Nat
  BY ReadLoopAssumption DEF Init
<1>2. idleIn \in 0 .. idle /\ tickIn \in Int /\ tickIn <= heartbeat
  BY <1>1 DEF Init
<1>3. flight \in Seq(Age) /\ Len(flight) <= MaxFlight
  BY ReadLoopAssumption DEF Init
<1>4. samples \in Seq(Age) /\ Len(samples) <= RttSamples
  BY ReadLoopAssumption DEF Init
<1>5. silence \in 0 .. MaxSilence
  BY ReadLoopAssumption DEF Init
<1> QED
  BY <1>1, <1>2, <1>3, <1>4, <1>5, ZeroAge DEF Init, TypeOK

LEMMA TypeStep == TypeOK /\ [Next]_vars => TypeOK'
<1> SUFFICES ASSUME TypeOK, [Next]_vars PROVE TypeOK'
  OBVIOUS
<1> USE ReadLoopAssumption
    DEF config, history, Select
<1>1. CASE HandleData
  BY <1>1, FrameRead, ConfigNat DEF HandleData, TypeOK
<1>2. CASE HandlePing
  BY <1>2, FrameRead, ConfigNat DEF HandlePing, TypeOK
<1>3. CASE HandlePong
  <2>1. samples' \in Seq(Age) /\ Len(samples') <= RttSamples
    BY <1>3, WindowBounded DEF HandlePong, TypeOK
  <2> QED
    BY <1>3, <2>1, FrameRead, ConfigNat DEF HandlePong, TypeOK
<1>4. CASE Tick
  BY <1>4, ZeroAge, FlightGrows DEF Tick, TypeOK
<1>5. CASE SendPing
  BY <1>5 DEF SendPing, TypeOK
<1>6. CASE SendPong
  BY <1>6 DEF SendPong, TypeOK
<1>7. CASE IdleTimeout
  BY <1>7 DEF IdleTimeout, TypeOK
<1>8. CASE End
  BY <1>8 DEF End, TypeOK
<1>9. CASE Arrive("data") \/ Arrive("ping")
  BY <1>9 DEF Arrive, TypeOK
<1>10. CASE \E i \in DOMAIN flight : ArrivePong(i)
  <2> PICK i \in DOMAIN flight : ArrivePong(i)
    BY <1>10
  <2>1. flight' \in Seq(Age) /\ Len(flight') <= MaxFlight
    BY FlightAnswered DEF ArrivePong
  <2>2. flight[i] \in Age
    BY DEF TypeOK
  <2> QED
    BY <2>1, <2>2 DEF ArrivePong, TypeOK
<1>11. CASE Pass
  <2>1. flight' \in Seq(Age) /\ Len(flight') <= MaxFlight
    BY <1>11, FlightAges DEF Pass, TypeOK
  <2>2. pingAge' \in Age \cup {NoPing}
    BY <1>11, OlderAge DEF Pass, TypeOK, Age
  <2>3. answered' \in Age
    BY <1>11, OlderAge DEF Pass, TypeOK
  <2>4. /\ idleIn' \in 0 .. idle /\ tickIn' \in Int /\ tickIn' <= heartbeat
        /\ silence' \in 0 .. MaxSilence
    BY <1>11, ConfigNat DEF Pass, TypeOK
  <2>5. /\ UNCHANGED <<idle, heartbeat, at, inbox, samples>>
        /\ lagged' \in BOOLEAN
    BY <1>11 DEF Pass, TypeOK
  <2> QED
    BY <2>1, <2>2, <2>3, <2>4, <2>5 DEF TypeOK
<1>12. CASE UNCHANGED vars
  BY <1>12 DEF vars, TypeOK
<1> QED
  BY <1>1, <1>2, <1>3, <1>4, <1>5, <1>6, <1>7, <1>8, <1>9, <1>10, <1>11, <1>12
  DEF Next

\* The timers, ages and the window keep their types; in particular the window
\* of RTT samples is never longer than rtt_samples.
THEOREM ReadLoopTypeCorrect == Spec => []TypeOK
  BY TypeInit, TypeStep, PTL DEF Spec

-----------------------------------------------------------------------------
(* The idle timer against the heartbeat                                    *)

\* What is left of the idle timer exceeds what is left to the next tick by at
\* least the difference of the two periods.
TickFirst ==
  /\ at = "select" => idleIn - tickIn >= idle - heartbeat
  /\ IdleYieldsToHeartbeat

LEMMA TickFirstStep == TypeOK /\ TickFirst /\ [Next]_vars => TickFirst'
<1> SUFFICES ASSUME TypeOK, TickFirst, [Next]_vars PROVE TickFirst'
  OBVIOUS
<1> USE ReadLoopAssumption
    DEF TypeOK, TickFirst, IdleYieldsToHeartbeat, config, Select,
        ReadFrame
<1>1. CASE HandleData \/ HandlePing \/ HandlePong
  BY <1>1 DEF HandleData, HandlePing, HandlePong
<1>2. CASE Tick \/ SendPing \/ SendPong \/ IdleTimeout \/ End
  BY <1>2 DEF Tick, SendPing, SendPong, IdleTimeout, End
<1>3. CASE Arrive("data") \/ Arrive("ping")
  BY <1>3 DEF Arrive
<1>4. CASE \E i \in DOMAIN flight : ArrivePong(i)
  BY <1>4 DEF ArrivePong
<1>5. CASE Pass
  BY <1>5 DEF Pass
<1>6. CASE UNCHANGED vars
  BY <1>6 DEF vars
<1> QED
  BY <1>1, <1>2, <1>3, <1>4, <1>5, <1>6 DEF Next

\* An idle timeout above the heartbeat interval never expires, for any values
\* of the two.
THEOREM IdleYieldsToHeartbeatHolds == Spec => []IdleYieldsToHeartbeat
<1>1. Init => TickFirst
  BY ReadLoopAssumption DEF Init, TickFirst, IdleYieldsToHeartbeat
<1> QED
  BY <1>1, TickFirstStep, ReadLoopTypeCorrect, PTL DEF Spec, TickFirst

-----------------------------------------------------------------------------
(* A silent peer                                                           *)

\* While the loop has not lagged since the last frame, the next tick is no
\* nearer than that frame allows, and the idle timer accounts for the silence;
\* before the first frame the first tick, due at once, comes before both.
Accounted ==
  (idle < heartbeat /\ ~lagged) =>
    /\ silence <= idle
    /\ at = "select" => silence + idleIn <= idle
    /\ at = "select" => \/ tickIn + silence >= heartbeat
                        \/ tickIn = 0 /\ silence = 0
    /\ at \in {"pinging", "ponging"} => silence = 0 /\ tickIn = heartbeat

LEMMA AccountedStep == TypeOK /\ Accounted /\ [Next]_vars => Accounted'
<1> SUFFICES ASSUME TypeOK, Accounted, [Next]_vars PROVE Accounted'
  OBVIOUS
<1> USE ReadLoopAssumption
    DEF TypeOK, Accounted, config, history, Select, ReadFrame
<1>1. CASE HandleData \/ HandlePing \/ HandlePong
  BY <1>1 DEF HandleData, HandlePing, HandlePong
<1>2. CASE Tick
  BY <1>2 DEF Tick
<1>3. CASE SendPing \/ SendPong \/ IdleTimeout \/ End
  BY <1>3 DEF SendPing, SendPong, IdleTimeout, End
<1>4. CASE Arrive("data") \/ Arrive("ping")
  BY <1>4 DEF Arrive
<1>5. CASE \E i \in DOMAIN flight : ArrivePong(i)
  BY <1>5 DEF ArrivePong
<1>6. CASE Pass
  BY <1>6 DEF Pass
<1>7. CASE UNCHANGED vars
  BY <1>7 DEF vars
<1> QED
  BY <1>1, <1>2, <1>3, <1>4, <1>5, <1>6, <1>7 DEF Next

\* An idle timeout below the heartbeat interval drops a silent peer in time,
\* unless a control frame has been held up.
THEOREM SilentIsDroppedHolds == Spec => []SilentIsDropped
<1>1. Init => Accounted
  BY ReadLoopAssumption DEF Init, Accounted
<1>2. TypeOK /\ Accounted => SilentIsDropped
  BY DEF TypeOK, Accounted, SilentIsDropped
<1> QED
  BY <1>1, <1>2, AccountedStep, ReadLoopTypeCorrect, PTL DEF Spec

-----------------------------------------------------------------------------
(* RTT samples                                                             *)

\* ping_sent_at belongs to the newest Ping, which is the last one in flight or
\* the one that the Pong in the inbox answers.
Newest ==
  pingAge # NoPing =>
    /\ flight # <<>> => pingAge = flight[Len(flight)]
    /\ \A i \in DOMAIN flight : pingAge <= flight[i]
    /\ inbox = "pong" => pingAge <= answered
    /\ (inbox = "pong" /\ flight = <<>>) => pingAge = answered

LEMMA OlderOrdered ==
  ASSUME NEW a \in Age, NEW b \in Age, a <= b
  PROVE  Older(a) <= Older(b)
  BY ReadLoopAssumption DEF Age, Older

LEMMA NewestStep == TypeOK /\ Newest /\ [Next]_vars => Newest'
<1> SUFFICES ASSUME TypeOK, Newest, [Next]_vars PROVE Newest'
  OBVIOUS
<1> USE ReadLoopAssumption
    DEF Newest, config, Select, ReadFrame
<1>1. CASE HandleData \/ HandlePing \/ HandlePong
  BY <1>1 DEF HandleData, HandlePing, HandlePong
<1>2. CASE Tick
  <2>1. pingAge' = 0 /\ UNCHANGED <<inbox, answered>>
    BY <1>2 DEF Tick
  <2>2. /\ \A i \in DOMAIN flight' : flight'[i] \in Age
        /\ flight' # <<>> /\ flight'[Len(flight')] = 0
    BY <1>2, FlightGrows DEF Tick
  <2> QED
    BY <2>1, <2>2 DEF TypeOK, Age
<1>3. CASE SendPing
  BY <1>3 DEF SendPing
<1>4. CASE SendPong \/ IdleTimeout \/ End
  BY <1>4 DEF SendPong, IdleTimeout, End
<1>5. CASE Arrive("data") \/ Arrive("ping")
  BY <1>5 DEF Arrive
<1>6. CASE \E i \in DOMAIN flight : ArrivePong(i)
  <2> PICK i \in DOMAIN flight : ArrivePong(i)
    BY <1>6
  <2>1. \A k \in DOMAIN flight' :
          \E j \in DOMAIN flight : flight'[k] = flight[j]
    BY FlightAnswered DEF ArrivePong
  <2>2. /\ flight' = <<>> <=> i = Len(flight)
        /\ flight' # <<>> => flight'[Len(flight')] = flight[Len(flight)]
    BY FlightAnswered DEF ArrivePong
  <2>3. /\ flight # <<>> /\ UNCHANGED pingAge
        /\ inbox' = "pong" /\ answered' = flight[i]
    BY DEF ArrivePong
  <2> QED
    BY <2>1, <2>2, <2>3
<1>7. CASE Pass
  <2> SUFFICES ASSUME pingAge' # NoPing
               PROVE  /\ flight' # <<>> => pingAge' = flight'[Len(flight')]
                      /\ \A i \in DOMAIN flight' : pingAge' <= flight'[i]
                      /\ inbox' = "pong" => pingAge' <= answered'
                      /\ (inbox' = "pong" /\ flight' = <<>>) =>
                           pingAge' = answered'
    OBVIOUS
  <2>1. pingAge \in Age /\ pingAge' = Older(pingAge) /\ pingAge # NoPing
    BY <1>7 DEF Pass, TypeOK
  <2>2. \A i \in DOMAIN flight : Older(pingAge) <= Older(flight[i])
    BY <2>1, OlderOrdered, ReadLoopAssumption DEF TypeOK, Age
  <2>3. inbox = "pong" => Older(pingAge) <= Older(answered)
    BY <2>1, OlderOrdered, ReadLoopAssumption DEF TypeOK, Age
  <2>4. flight' # <<>> => flight # <<>> /\ flight'[Len(flight')] = Older(pingAge)
    <3>1. /\ flight' = [i \in DOMAIN flight |-> Older(flight[i])]
          /\ flight' \in Seq(Age) /\ Len(flight') = Len(flight)
      BY <1>7, FlightAges DEF Pass
    <3>2. flight' # <<>> => Len(flight) \in DOMAIN flight
      BY <3>1 DEF TypeOK
    <3>3. flight = <<>> => flight' = <<>>
      BY <3>1
    <3> QED
      BY <2>1, <3>1, <3>2, <3>3 DEF Pass
  <2>5. (inbox = "pong" /\ flight' = <<>>) => Older(pingAge) = Older(answered)
    <3>1. flight' = <<>> => flight = <<>>
      <4>1. flight' \in Seq(Age) /\ Len(flight') = Len(flight)
        BY <1>7, FlightAges DEF Pass
      <4>2. flight' = <<>> => Len(flight) = 0
        BY <4>1
      <4> QED
        BY <4>2, EmptySeq DEF TypeOK
    <3> QED
      BY <2>1, <3>1
  <2> QED
    BY <1>7, <2>1, <2>2, <2>3, <2>4, <2>5 DEF Pass
<1>8. CASE UNCHANGED vars
  BY <1>8 DEF vars
<1> QED
  BY <1>1, <1>2, <1>3, <1>4, <1>5, <1>6, <1>7, <1>8 DEF Next

\* An RTT sample is the age of the Ping that the Pong answers or, if a later Ping
\* has been sent meanwhile, the smaller age of that one (serve.rs:216, 255-262).
THEOREM RttMatchesUnlessCrossedHolds == Spec => []RttMatchesUnlessCrossed
<1>1. Init => Newest
  BY DEF Init, Newest
<1>2. Newest => RttMatchesUnlessCrossed
  BY DEF Newest, RttMatchesUnlessCrossed
<1> QED
  BY <1>1, <1>2, NewestStep, ReadLoopTypeCorrect, PTL DEF Spec
=============================================================================
