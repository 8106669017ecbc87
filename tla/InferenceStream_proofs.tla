----------------------- MODULE InferenceStream_proofs -----------------------
(***************************************************************************)
(* Proofs about InferenceStream, for every token limit, with and without   *)
(* somebody who sets the cancel flag.                                      *)
(*                                                                         *)
(* The properties are about a filter of the channel (its tokens), which is *)
(* defined by recursion.  The first section proves by induction what the   *)
(* filter does to an event that is appended or received.                   *)
(***************************************************************************)
EXTENDS InferenceStream, DataLemmas

StreamEvent ==
  [type : {"Started", "Completed", "Cancelled", "Error"}]
    \cup [type : {"Token"}, token : Nat]

\* What TypeOK leaves open, and the room left when a token is sampled.
Types ==
  /\ TypeOK
  /\ channel \in Seq(StreamEvent)
  /\ full_text \in Seq(Nat)
  /\ pieces \in Seq(Nat)
  /\ late \in Nat
  /\ thread = "sample" => sampled < MaxTokens

\* The channel of a loop that listens: a last event is in it as soon as the
\* thread has exited, and is the last of it.
ChannelTellsTheEnd ==
  /\ \A i \in DOMAIN channel :
       IsTerminal(channel[i]) => i = Len(channel) /\ thread = "exited"
  /\ Receiving /\ thread = "exited" =>
       channel # <<>> /\ IsTerminal(channel[Len(channel)])
  /\ ~Receiving => channel = <<>>

\* A loop that has left on a last event has the whole text of a thread that
\* makes no more of it.
LeftWithTheText ==
  /\ receiver \in {"completed", "cancelled", "error"} =>
       thread = "exited" /\ full_text = pieces
  /\ receiver # "disconnected"

\* Where the thread is after a piece that nobody wanted: on its way to the
\* cancel flag, or out.
LatePieceIsLast ==
  \/ late = 0
  \/ /\ late = 1
     /\ thread = "exited" \/ (cancel /\ thread \in {"decode", "stop", "check"})

\* The inductive invariant.
StreamInv ==
  Types /\ ChannelTellsTheEnd /\ LeftWithTheText /\ NoPieceLost /\ LatePieceIsLast

----------------------------------------------------------------------------
LEMMA AppendToConcat ==
  ASSUME NEW s \in Seq(Nat), NEW t \in Seq(Nat), NEW e \in Nat
  PROVE  Append(s \o t, e) = s \o Append(t, e)
<1>1. s \o t \in Seq(Nat) /\ Append(t, e) \in Seq(Nat)
  OBVIOUS
<1>2. Append(s \o t, e) = (s \o t) \o <<e>>
  BY <1>1, AppendIsConcat
<1>3. Append(t, e) = t \o <<e>>
  BY AppendIsConcat
<1>4. <<e>> \in Seq(Nat)
  OBVIOUS
<1>5. (s \o t) \o <<e>> = s \o (t \o <<e>>)
  BY <1>4, ConcatAssociative
<1> QED
  BY <1>2, <1>3, <1>5

\* The recursive definition of Collecting defines a function.
LEMMA CollectingStep ==
  ASSUME NEW events, Len(events) \in Nat
  PROVE  Collecting(events) =
           [n \in 0..Len(events) |->
              IF n = 0 THEN <<>>
              ELSE IF events[n].type = "Token"
                   THEN Append(Collecting(events)[n - 1], events[n].token)
              ELSE Collecting(events)[n - 1]]
<1> DEFINE Step(g, n) == IF n = 0 THEN <<>>
                         ELSE IF events[n].type = "Token"
                              THEN Append(g[n - 1], events[n].token)
                         ELSE g[n - 1]
           Defined == {m \in Nat : m <= Len(events) =>
                                     \E g : g = [n \in 0..m |-> Step(g, n)]}
<1>1. 0 \in Defined
  <2>1. [n \in 0..0 |-> <<>>] = [n \in 0..0 |-> Step([k \in 0..0 |-> <<>>], n)]
    OBVIOUS
  <2> QED
    BY <2>1
<1>2. ASSUME NEW m \in Nat, m \in Defined PROVE m + 1 \in Defined
  <2> SUFFICES ASSUME m + 1 <= Len(events)
               PROVE  \E g : g = [n \in 0..(m + 1) |-> Step(g, n)]
    <3> HIDE DEF Step
    <3> QED
      OBVIOUS
  <2>1. PICK g : g = [n \in 0..m |-> Step(g, n)]
    <3>1. m <= Len(events)
      <4> HIDE DEF Step, Defined
      <4> QED
        OBVIOUS
    <3>2. m <= Len(events) => \E g : g = [n \in 0..m |-> Step(g, n)]
      BY <1>2, Zenon
    <3> HIDE DEF Step, Defined
    <3> QED
      BY <3>1, <3>2
  <2> DEFINE h == [n \in 0..(m + 1) |-> IF n = m + 1 THEN Step(g, m + 1) ELSE g[n]]
  <2> HIDE DEF Step
  <2>2. \A n \in 0..(m + 1) : Step(h, n) = Step(g, n)
    BY DEF Step
  <2>3. \A n \in 0..m : g[n] = Step(g, n)
    BY <2>1
  <2>4. h = [n \in 0..(m + 1) |-> Step(h, n)]
    BY <2>2, <2>3
  <2> QED
    BY <2>4
<1>3. Len(events) \in Defined
  <2> HIDE DEF Defined
  <2> QED
    BY <1>1, <1>2, NatInductionOnSet
<1>4. \E g : g = [n \in 0..Len(events) |-> Step(g, n)]
  <2> HIDE DEF Step
  <2> QED
    BY <1>3
<1> QED
  BY <1>4 DEF Collecting

\* What Collecting is for each number of events, and its type.
LEMMA CollectingValues ==
  ASSUME NEW events \in Seq(StreamEvent)
  PROVE  /\ Collecting(events)[0] = <<>>
         /\ \A n \in 1..Len(events) :
              Collecting(events)[n] =
                IF events[n].type = "Token"
                THEN Append(Collecting(events)[n - 1], events[n].token)
                ELSE Collecting(events)[n - 1]
         /\ \A n \in 0..Len(events) : Collecting(events)[n] \in Seq(Nat)
<1> DEFINE C == Collecting(events)
           Typed == {n \in Nat : n <= Len(events) => C[n] \in Seq(Nat)}
<1>1. C[0] = <<>>
  BY CollectingStep
<1>2. \A n \in 1..Len(events) :
        C[n] = IF events[n].type = "Token" THEN Append(C[n - 1], events[n].token)
               ELSE C[n - 1]
  BY CollectingStep
<1> HIDE DEF C
<1>3. 0 \in Typed
  BY <1>1, EmptySeq
<1>4. ASSUME NEW n \in Nat, n \in Typed PROVE n + 1 \in Typed
  <2> SUFFICES ASSUME n + 1 <= Len(events) PROVE C[n + 1] \in Seq(Nat)
    OBVIOUS
  <2>1. C[n] \in Seq(Nat) /\ n + 1 \in 1..Len(events) /\ (n + 1) - 1 = n
    BY <1>4
  <2>2. events[n + 1] \in StreamEvent
    BY <2>1
  <2>3. events[n + 1].type = "Token" => events[n + 1].token \in Nat
    BY <2>2 DEF StreamEvent
  <2>4. \A t \in Nat : Append(C[n], t) \in Seq(Nat)
    BY <2>1, AppendProperties
  <2> QED
    BY <1>2, <2>1, <2>3, <2>4
<1>5. Nat \subseteq Typed
  <2> HIDE DEF Typed
  <2> QED
    BY <1>3, <1>4, NatInductionOnSet
<1> QED
  BY <1>1, <1>2, <1>5 DEF C

\* An event sent is the last of what is collected.
LEMMA CollectedAppend ==
  ASSUME NEW events \in Seq(StreamEvent), NEW event \in StreamEvent
  PROVE  Collected(Append(events, event)) =
           IF event.type = "Token" THEN Append(Collected(events), event.token)
           ELSE Collected(events)
<1> DEFINE longer == Append(events, event)
           C == Collecting(events)
           D == Collecting(longer)
           Same == {n \in Nat : n <= Len(events) => D[n] = C[n]}
<1>1. /\ longer \in Seq(StreamEvent)
      /\ Len(longer) = Len(events) + 1 /\ Len(events) \in Nat
      /\ longer[Len(events) + 1] = event
      /\ \A i \in 1..Len(events) : longer[i] = events[i]
  OBVIOUS
<1>2. C[0] = D[0]
  BY <1>1, CollectingValues
<1>3. \A n \in 1..Len(events) :
        C[n] = IF events[n].type = "Token" THEN Append(C[n - 1], events[n].token)
               ELSE C[n - 1]
  BY CollectingValues
<1>4. \A n \in 1..Len(longer) :
        D[n] = IF longer[n].type = "Token" THEN Append(D[n - 1], longer[n].token)
               ELSE D[n - 1]
  BY <1>1, CollectingValues
<1> HIDE DEF C, D, longer
<1>5. ASSUME NEW n \in Nat, n \in Same PROVE n + 1 \in Same
  BY <1>1, <1>3, <1>4, <1>5
<1>6. Nat \subseteq Same
  <2>1. 0 \in Same
    BY <1>2
  <2> HIDE DEF Same
  <2> QED
    BY <1>5, <2>1, NatInductionOnSet
<1>7. D[Len(events)] = C[Len(events)]
  BY <1>1, <1>6
<1> QED
  BY <1>1, <1>4, <1>7 DEF Collected, C, D, longer

\* The head of the channel is the first of what is collected.
LEMMA CollectedTail ==
  ASSUME NEW events \in Seq(StreamEvent), events # <<>>
  PROVE  /\ Collected(events) =
              IF Head(events).type = "Token"
              THEN <<Head(events).token>> \o Collected(Tail(events))
              ELSE Collected(Tail(events))
         /\ Collected(Tail(events)) \in Seq(Nat)
         /\ Head(events).type = "Token" => Head(events).token \in Nat
<1> DEFINE rest == Tail(events)
           first == IF Head(events).type = "Token" THEN <<Head(events).token>> ELSE <<>>
           C == Collecting(events)
           D == Collecting(rest)
           Same == {n \in Nat : n <= Len(rest) => C[n + 1] = first \o D[n]}
<1>1. /\ rest \in Seq(StreamEvent) /\ Len(rest) \in Nat
      /\ Len(events) = Len(rest) + 1
      /\ \A i \in 1..Len(rest) : rest[i] = events[i + 1] /\ rest[i] \in StreamEvent
      /\ Head(events) = events[1] /\ events[1] \in StreamEvent
  OBVIOUS
<1>2. C[0] = <<>> /\ D[0] = <<>>
  BY <1>1, CollectingValues
<1>3. \A n \in 1..Len(events) :
        C[n] = IF events[n].type = "Token" THEN Append(C[n - 1], events[n].token)
               ELSE C[n - 1]
  BY CollectingValues
<1>4. /\ \A n \in 1..Len(rest) :
           D[n] = IF rest[n].type = "Token" THEN Append(D[n - 1], rest[n].token)
                  ELSE D[n - 1]
      /\ \A n \in 0..Len(rest) : D[n] \in Seq(Nat)
  BY <1>1, CollectingValues
<1>5. \A e \in StreamEvent : e.type = "Token" => e.token \in Nat
  BY DEF StreamEvent
<1>6. first \in Seq(Nat)
  BY <1>1, <1>5
<1>7. C[1] = first
  <2>1. 1 \in 1..Len(events) /\ 1 - 1 = 0
    BY <1>1
  <2>2. C[1] = IF events[1].type = "Token" THEN Append(<<>>, events[1].token) ELSE <<>>
    BY <1>2, <1>3, <2>1
  <2> QED
    BY <1>1, <2>2
<1> HIDE DEF C, D, rest, first
<1>8. 0 \in Same
  <2>1. first \o <<>> = first
    BY <1>6
  <2>2. C[0 + 1] = first \o D[0]
    BY <1>2, <1>7, <2>1
  <2> QED
    BY <2>2
<1>9. ASSUME NEW n \in Nat, n \in Same PROVE n + 1 \in Same
  <2> SUFFICES ASSUME n + 1 <= Len(rest) PROVE C[(n + 1) + 1] = first \o D[n + 1]
    OBVIOUS
  <2>1. /\ n + 1 \in 1..Len(rest) /\ n \in 0..Len(rest) /\ (n + 1) - 1 = n
        /\ (n + 1) + 1 \in 1..Len(events) /\ ((n + 1) + 1) - 1 = n + 1
    BY <1>1
  <2>2. C[n + 1] = first \o D[n] /\ D[n] \in Seq(Nat)
    BY <1>4, <1>9, <2>1
  <2>3. rest[n + 1] = events[(n + 1) + 1] /\ rest[n + 1] \in StreamEvent
    BY <1>1, <2>1
  <2>4. CASE rest[n + 1].type = "Token"
    <3> DEFINE token == rest[n + 1].token
    <3>1. token \in Nat
      BY <1>5, <2>3, <2>4
    <3>2. D[n + 1] = Append(D[n], token) /\ C[(n + 1) + 1] = Append(C[n + 1], token)
      BY <1>3, <1>4, <2>1, <2>3, <2>4
    <3> HIDE DEF token
    <3>3. Append(first \o D[n], token) = first \o Append(D[n], token)
      BY <1>6, <2>2, <3>1, AppendToConcat
    <3> QED
      BY <2>2, <3>2, <3>3
  <2>5. CASE rest[n + 1].type # "Token"
    BY <1>3, <1>4, <2>1, <2>2, <2>3, <2>5
  <2> QED
    BY <2>4, <2>5
<1>10. Nat \subseteq Same
  <2> HIDE DEF Same
  <2> QED
    BY <1>8, <1>9, NatInductionOnSet
<1>11. C[Len(events)] = first \o D[Len(rest)] /\ D[Len(rest)] \in Seq(Nat)
  BY <1>1, <1>4, <1>10
<1>12. Collected(events) = first \o Collected(rest) /\ Collected(rest) \in Seq(Nat)
  BY <1>11 DEF Collected, C, D
<1>13. Head(events).type # "Token" => Collected(events) = Collected(rest)
  BY <1>12, ConcatEmptySeq DEF first
<1> QED
  BY <1>1, <1>5, <1>12, <1>13 DEF rest, first

----------------------------------------------------------------------------
\* What a send does to the channel of a loop that listens.
LEMMA SentEvent ==
  ASSUME Types, NEW event \in StreamEvent
  PROVE  /\ Sent(event) \in Seq(StreamEvent)
         /\ ~Receiving => Sent(event) = channel
         /\ Receiving =>
              /\ Sent(event) = Append(channel, event)
              /\ Len(Sent(event)) = Len(channel) + 1
              /\ Sent(event)[Len(channel) + 1] = event
              /\ \A i \in 1..Len(channel) : Sent(event)[i] = channel[i]
BY AppendProperties DEF Types, Sent

LEMMA ChannelFacts ==
  ASSUME Types
  PROVE  /\ Len(channel) \in Nat
         /\ DOMAIN channel = 1..Len(channel)
         /\ \A i \in 1..Len(channel) : channel[i] \in StreamEvent
BY DEF Types

\* A thread that exits with its last event, whatever the event.
LEMMA LastEventSent ==
  ASSUME StreamInv, NEW event \in StreamEvent, IsTerminal(event),
         thread # "exited", thread' = "exited", channel' = Sent(event),
         UNCHANGED <<sampled, pieces, late, consumerVars>>
  PROVE  StreamInv'
<1> USE DEF StreamInv, consumerVars
<1>1. Types'
  BY SentEvent, StreamAssumption DEF Types, TypeOK, Ends
<1>2. ChannelTellsTheEnd'
  <2>1. CASE Receiving
    <3>1. Len(channel') = Len(channel) + 1 /\ Len(channel) \in Nat
      BY <2>1, SentEvent, ChannelFacts
    <3>2. DOMAIN channel' = 1..Len(channel')
      BY <1>1 DEF Types
    <3>3. \A i \in 1..Len(channel) : ~IsTerminal(channel'[i])
      BY <2>1, SentEvent, ChannelFacts DEF ChannelTellsTheEnd
    <3>4. IsTerminal(channel'[Len(channel')]) /\ channel' # <<>>
      BY <2>1, <3>1, SentEvent
    <3> QED
      BY <3>1, <3>2, <3>3, <3>4, <2>1 DEF ChannelTellsTheEnd, Receiving
  <2>2. CASE ~Receiving
    BY <2>2, SentEvent DEF ChannelTellsTheEnd, Receiving
  <2> QED
    BY <2>1, <2>2
<1>3. LeftWithTheText'
  BY DEF LeftWithTheText
<1>4. NoPieceLost'
  <2>1. event.type # "Token"
    BY DEF IsTerminal
  <2>2. Receiving => Collected(Sent(event)) = Collected(channel)
    <3>1. Receiving => Sent(event) = Append(channel, event)
      BY SentEvent
    <3>2. channel \in Seq(StreamEvent)
      BY DEF Types
    <3>3. Collected(Append(channel, event)) = Collected(channel)
      BY <2>1, <3>2, CollectedAppend
    <3> QED
      BY <3>1, <3>3
  <2> QED
    BY <2>2 DEF NoPieceLost, Receiving
<1>5. LatePieceIsLast'
  BY DEF LatePieceIsLast
<1> QED
  BY <1>1, <1>2, <1>3, <1>4, <1>5

\* An event in the middle of an answer.
LEMMA EarlierEventSent ==
  ASSUME StreamInv, NEW event \in StreamEvent, ~IsTerminal(event),
         thread # "exited", channel' = Sent(event), UNCHANGED receiver,
         thread' = "exited" => ~Receiving
  PROVE  ChannelTellsTheEnd'
<1> USE DEF StreamInv
<1>1. CASE Receiving
  <2>1. /\ Len(channel') = Len(channel) + 1 /\ Len(channel) \in Nat
        /\ DOMAIN channel' = 1..Len(channel')
    BY <1>1, SentEvent, ChannelFacts
  <2>2. \A i \in 1..Len(channel') : ~IsTerminal(channel'[i])
    <3> TAKE i \in 1..Len(channel')
    <3>1. CASE i = Len(channel) + 1
      BY <1>1, <3>1, SentEvent
    <3>2. CASE i \in 1..Len(channel)
      BY <1>1, <3>2, SentEvent, ChannelFacts DEF ChannelTellsTheEnd
    <3> QED
      BY <2>1, <3>1, <3>2
  <2> QED
    BY <1>1, <2>1, <2>2 DEF ChannelTellsTheEnd, Receiving
<1>2. CASE ~Receiving
  BY <1>2, SentEvent DEF ChannelTellsTheEnd, Receiving
<1> QED
  BY <1>1, <1>2

----------------------------------------------------------------------------
LEMMA StreamInit == Init => StreamInv
<1> SUFFICES ASSUME Init PROVE StreamInv
  OBVIOUS
<1> USE DEF Init
<1>1. Types
  <2>1. channel \in Seq(StreamEvent) /\ full_text \in Seq(Nat) /\ pieces \in Seq(Nat)
    BY EmptySeq
  <2>2. TypeOK
    <3>1. cancel \in BOOLEAN
      OBVIOUS
    <3>2. sampled \in 0..MaxTokens
      BY StreamAssumption
    <3> QED
      BY <3>1, <3>2 DEF TypeOK
  <2> QED
    BY <2>1, <2>2 DEF Types
<1>2. ChannelTellsTheEnd
  BY DEF ChannelTellsTheEnd, Receiving
<1>3. NoPieceLost
  <2>1. Collected(<<>>) = <<>>
    BY CollectingValues, EmptySeq DEF Collected
  <2> QED
    BY <2>1 DEF NoPieceLost
<1> QED
  BY <1>1, <1>2, <1>3 DEF StreamInv, LeftWithTheText, LatePieceIsLast

\* Every step of the thread, of the loop and of the holder of the flag.
LEMMA StreamStep == StreamInv /\ [Next]_vars => StreamInv'
<1> SUFFICES ASSUME StreamInv, [Next]_vars PROVE StreamInv'
  OBVIOUS
<1> USE DEF StreamInv
<1>1. CASE Fail
  <2>1. Event("Error") \in StreamEvent /\ IsTerminal(Event("Error"))
    BY DEF StreamEvent, Event, IsTerminal
  <2> QED
    BY <1>1, <2>1, LastEventSent DEF Fail
<1>2. CASE NewContext
  <2> USE <1>2 DEF NewContext, consumerVars
  <2>1. Types'
    BY DEF Types, TypeOK
  <2>2. ChannelTellsTheEnd'
    BY DEF ChannelTellsTheEnd, Receiving
  <2> QED
    BY <2>1, <2>2 DEF LeftWithTheText, NoPieceLost, Receiving, LatePieceIsLast
<1>3. CASE DecodePrompt
  <2> USE <1>3 DEF DecodePrompt, consumerVars
  <2>1. Event("Started") \in StreamEvent /\ ~IsTerminal(Event("Started"))
    BY DEF StreamEvent, Event, IsTerminal
  <2>2. Types'
    BY <2>1, SentEvent DEF Types, TypeOK
  <2>3. ChannelTellsTheEnd'
    BY <2>1, EarlierEventSent
  <2>4. NoPieceLost'
    <3>1. channel \in Seq(StreamEvent) /\ Event("Started").type # "Token"
      BY DEF Types, Event
    <3>2. Collected(Append(channel, Event("Started"))) = Collected(channel)
      BY <2>1, <3>1, CollectedAppend
    <3>3. Receiving => Sent(Event("Started")) = Append(channel, Event("Started"))
      BY <2>1, SentEvent
    <3> QED
      BY <3>2, <3>3 DEF NoPieceLost, Receiving
  <2> QED
    BY <2>2, <2>3, <2>4 DEF LeftWithTheText, LatePieceIsLast
<1>4. CASE CheckCancel
  <2>1. CASE cancel
    <3>1. Event("Cancelled") \in StreamEvent /\ IsTerminal(Event("Cancelled"))
      BY DEF StreamEvent, Event, IsTerminal
    <3> QED
      BY <1>4, <2>1, <3>1, LastEventSent DEF CheckCancel
  <2>2. CASE ~cancel
    <3> USE <1>4, <2>2 DEF CheckCancel, consumerVars
    <3>1. Types'
      BY DEF Types, TypeOK
    <3>2. ChannelTellsTheEnd'
      BY DEF ChannelTellsTheEnd, Receiving
    <3> QED
      BY <3>1, <3>2 DEF LeftWithTheText, NoPieceLost, Receiving, LatePieceIsLast
  <2> QED
    BY <2>1, <2>2
<1>5. CASE Complete
  <2>1. Event("Completed") \in StreamEvent /\ IsTerminal(Event("Completed"))
    BY DEF StreamEvent, Event, IsTerminal
  <2> QED
    BY <1>5, <2>1, LastEventSent DEF Complete
<1>6. CASE SampleEmpty
  <2> USE <1>6 DEF SampleEmpty, consumerVars
  <2>1. Types'
    BY StreamAssumption DEF Types, TypeOK
  <2>2. ChannelTellsTheEnd'
    BY DEF ChannelTellsTheEnd, Receiving
  <2> QED
    BY <2>1, <2>2 DEF LeftWithTheText, NoPieceLost, Receiving, LatePieceIsLast
<1>7. CASE SamplePiece
  <2> USE <1>7 DEF SamplePiece, consumerVars
  <2>1. sampled' \in 0..MaxTokens /\ sampled' \in Nat
    BY StreamAssumption DEF Types, TypeOK
  <2>2. /\ Token(sampled') \in StreamEvent /\ ~IsTerminal(Token(sampled'))
        /\ Token(sampled').type = "Token" /\ Token(sampled').token = sampled'
    BY <2>1 DEF StreamEvent, Token, IsTerminal
  <2>3. thread' \in {"decode", "stop", "exited"} /\ (thread' = "exited" <=> ~Receiving)
    BY DEF AfterPiece
  <2>4. Types'
    BY <2>1, <2>2, <2>3, SentEvent, AppendProperties DEF Types, TypeOK
  <2>5. ChannelTellsTheEnd'
    BY <2>2, <2>3, EarlierEventSent
  <2>6. LeftWithTheText'
    BY DEF LeftWithTheText
  <2>7. NoPieceLost'
    <3> SUFFICES ASSUME Receiving PROVE full_text \o Collected(channel') = pieces'
      BY DEF NoPieceLost, Receiving
    <3>1. Collected(channel') = Append(Collected(channel), sampled')
      <4>1. channel \in Seq(StreamEvent)
        BY DEF Types
      <4>2. Collected(Append(channel, Token(sampled')))
              = Append(Collected(channel), sampled')
        BY <2>2, <4>1, CollectedAppend
      <4>3. channel' = Append(channel, Token(sampled'))
        BY <2>2, SentEvent
      <4> QED
        BY <4>2, <4>3
    <3>2. Collected(channel) \in Seq(Nat) /\ full_text \in Seq(Nat)
      BY CollectingValues DEF Types, Collected
    <3>3. Append(full_text \o Collected(channel), sampled')
            = full_text \o Append(Collected(channel), sampled')
      BY <2>1, <3>2, AppendToConcat
    <3> QED
      BY <3>1, <3>3 DEF NoPieceLost
  <2>8. LatePieceIsLast'
    <3>1. late = 0
      BY DEF LatePieceIsLast
    <3> QED
      BY <2>3, <3>1 DEF LatePieceIsLast
  <2> QED
    BY <2>4, <2>5, <2>6, <2>7, <2>8
<1>8. CASE StopString
  <2>1. Event("Completed") \in StreamEvent /\ IsTerminal(Event("Completed"))
    BY DEF StreamEvent, Event, IsTerminal
  <2> QED
    BY <1>8, <2>1, LastEventSent DEF StopString
<1>9. CASE Decode
  <2> USE <1>9 DEF Decode, consumerVars
  <2>1. Types'
    BY DEF Types, TypeOK
  <2>2. ChannelTellsTheEnd'
    BY DEF ChannelTellsTheEnd, Receiving
  <2> QED
    BY <2>1, <2>2 DEF LeftWithTheText, NoPieceLost, Receiving, LatePieceIsLast
<1>10. CASE Receive
  <2> USE <1>10 DEF Receive, threadVars
  <2> DEFINE event == Head(channel)
  <2>1. /\ event \in StreamEvent /\ event = channel[1]
        /\ Tail(channel) \in Seq(StreamEvent)
        /\ Len(Tail(channel)) = Len(channel) - 1 /\ Len(channel) \in Nat \ {0}
        /\ \A i \in 1..Len(Tail(channel)) : Tail(channel)[i] = channel[i + 1]
    BY HeadTailProperties DEF Types
  <2>2. /\ Collected(channel) =
             IF event.type = "Token" THEN <<event.token>> \o Collected(Tail(channel))
             ELSE Collected(Tail(channel))
        /\ Collected(Tail(channel)) \in Seq(Nat)
        /\ event.type = "Token" => event.token \in Nat
    BY CollectedTail DEF Types
  <2>3. DOMAIN channel = 1..Len(channel) /\ DOMAIN Tail(channel) = 1..Len(Tail(channel))
    BY <2>1 DEF Types
  <2>4. CASE ~IsTerminal(event)
    <3> USE <2>4 DEF IsTerminal
    <3>1. UNCHANGED receiver /\ channel' = Tail(channel) /\ event.type \in {"Started", "Token"}
      BY <2>1 DEF StreamEvent
    <3>2. full_text' = IF event.type = "Token" THEN Append(full_text, event.token)
                       ELSE full_text
      BY <3>1
    <3>3. Types'
      BY <2>1, <2>2, <3>1, <3>2, AppendProperties DEF Types, TypeOK
    <3>4. ChannelTellsTheEnd'
      <4>1. \A i \in DOMAIN channel' :
              IsTerminal(channel'[i]) => i = Len(channel') /\ thread' = "exited"
        BY <2>1, <2>3, <3>1 DEF ChannelTellsTheEnd
      <4>2. thread' = "exited" =>
              channel' # <<>> /\ IsTerminal(channel'[Len(channel')])
        <5> SUFFICES ASSUME thread = "exited"
                     PROVE  channel' # <<>> /\ IsTerminal(channel'[Len(channel')])
          OBVIOUS
        <5>1. IsTerminal(channel[Len(channel)])
          BY DEF ChannelTellsTheEnd
        <5>2. Len(channel) # 1
          BY <2>1, <5>1
        <5>3. Len(channel') \in Nat \ {0} /\ Len(channel') + 1 = Len(channel)
          BY <2>1, <3>1, <5>2
        <5>4. channel'[Len(channel')] = channel[Len(channel)]
          BY <2>1, <3>1, <5>3
        <5> QED
          BY <5>1, <5>3, <5>4
      <4> QED
        BY <3>1, <4>1, <4>2 DEF ChannelTellsTheEnd, Receiving
    <3>5. LeftWithTheText'
      BY <3>1 DEF LeftWithTheText, Receiving
    <3>6. NoPieceLost'
      <4>1. CASE event.type = "Token"
        <5>1. full_text' \o Collected(channel')
                = Append(full_text, event.token) \o Collected(Tail(channel))
          BY <3>1, <3>2, <4>1
        <5>2. pieces' = full_text \o (<<event.token>> \o Collected(Tail(channel)))
          BY <2>2, <4>1 DEF NoPieceLost
        <5>3. /\ full_text \in Seq(Nat) /\ <<event.token>> \in Seq(Nat)
              /\ Append(full_text, event.token) = full_text \o <<event.token>>
          <6>1. full_text \in Seq(Nat) /\ event.token \in Nat
            BY <2>2, <4>1 DEF Types
          <6> HIDE DEF event
          <6> QED
            BY <6>1, AppendIsConcat
        <5>4. (full_text \o <<event.token>>) \o Collected(Tail(channel))
                = full_text \o (<<event.token>> \o Collected(Tail(channel)))
          BY <2>2, <5>3, ConcatAssociative
        <5> QED
          BY <5>1, <5>2, <5>3, <5>4 DEF NoPieceLost
      <4>2. CASE event.type = "Started"
        BY <2>2, <3>1, <3>2, <4>2 DEF NoPieceLost, Receiving
      <4> QED
        BY <3>1, <4>1, <4>2
    <3> QED
      BY <3>1, <3>3, <3>4, <3>5, <3>6 DEF LatePieceIsLast
  <2>5. CASE IsTerminal(event)
    <3>1. Len(channel) = 1 /\ thread = "exited"
      BY <2>1, <2>3, <2>5 DEF ChannelTellsTheEnd
    <3>2. receiver' \in {"completed", "cancelled", "error"} /\ channel' = <<>>
          /\ UNCHANGED full_text
      BY <2>5 DEF IsTerminal, Leave
    <3>3. full_text = pieces
      <4>1. Tail(channel) = <<>>
        <5>1. Len(Tail(channel)) = 0
          BY <2>1, <3>1
        <5> QED
          BY <2>1, <5>1, EmptySeq
      <4>2. Collected(<<>>) = <<>>
        BY CollectingValues, EmptySeq DEF Collected
      <4>3. full_text \o <<>> = full_text
        BY ConcatEmptySeq DEF Types
      <4> QED
        BY <2>2, <2>5, <4>1, <4>2, <4>3 DEF NoPieceLost, IsTerminal
    <3>4. Types'
      BY <3>2, EmptySeq DEF Types, TypeOK, Ends
    <3>5. ChannelTellsTheEnd'
      BY <3>2 DEF ChannelTellsTheEnd, Receiving
    <3>6. LeftWithTheText'
      BY <3>1, <3>2, <3>3 DEF LeftWithTheText
    <3> QED
      BY <3>2, <3>4, <3>5, <3>6 DEF NoPieceLost, Receiving, LatePieceIsLast
  <2> QED
    BY <2>4, <2>5
<1>11. CASE RecvTimeoutError
  <2> USE <1>11 DEF RecvTimeoutError, Leave, threadVars
  <2>1. thread # "exited"
    BY DEF ChannelTellsTheEnd
  <2>2. receiver' = "timeout" /\ channel' = <<>>
    BY <2>1
  <2>3. Types'
    BY <2>2, EmptySeq DEF Types, TypeOK, Ends
  <2>4. ChannelTellsTheEnd'
    BY <2>2 DEF ChannelTellsTheEnd, Receiving
  <2> QED
    BY <2>2, <2>3, <2>4 DEF LeftWithTheText, NoPieceLost, Receiving, LatePieceIsLast
<1>12. CASE Cancel
  <2> USE <1>12 DEF Cancel, threadVars
  <2>1. Types'
    BY DEF Types, TypeOK
  <2>2. ChannelTellsTheEnd'
    BY DEF ChannelTellsTheEnd, Receiving
  <2> QED
    BY <2>1, <2>2 DEF LeftWithTheText, NoPieceLost, Receiving, LatePieceIsLast
<1>13. CASE UNCHANGED vars
  <2> USE <1>13 DEF vars
  <2>1. Types'
    BY DEF Types, TypeOK
  <2>2. ChannelTellsTheEnd'
    BY DEF ChannelTellsTheEnd, Receiving
  <2> QED
    BY <2>1, <2>2 DEF LeftWithTheText, NoPieceLost, Receiving, LatePieceIsLast
<1> QED
  BY <1>1, <1>2, <1>3, <1>4, <1>5, <1>6, <1>7, <1>8, <1>9, <1>10, <1>11, <1>12,
     <1>13 DEF Next, Thread, Loop, Done

LEMMA StreamInvariant == Spec => []StreamInv
<1> QED
  BY StreamInit, StreamStep, PTL DEF Spec

\* While the loop listens, what it has collected and what is on the way are the
\* pieces the thread made: no event of infer_stream's channel is lost, doubled or
\* reordered, whatever fails or is cancelled meanwhile.
THEOREM StreamLosesNoPiece == Spec => []NoPieceLost
<1>1. StreamInv => NoPieceLost
  BY DEF StreamInv
<1> QED
  BY <1>1, StreamInvariant, PTL

\* Every stream has one end: a last event is sent on every way out of the thread,
\* nothing follows it, and the loop that saw it has the whole text.
THEOREM StreamHasOneEnd == Spec => []OneEnd
<1>1. StreamInv => OneEnd
  BY DEF StreamInv, ChannelTellsTheEnd, LeftWithTheText, OneEnd, EndIsFinal,
         NeverDisconnected
<1> QED
  BY <1>1, StreamInvariant, PTL

\* After the cancel flag is set or the receiver is gone, at most one more piece is
\* made, however long the answer could still have been.
THEOREM StreamStopsAfterOnePiece == Spec => []OneMorePiece
<1>1. StreamInv => OneMorePiece
  BY DEF StreamInv, Types, LatePieceIsLast, OneMorePiece
<1> QED
  BY <1>1, StreamInvariant, PTL
=============================================================================
