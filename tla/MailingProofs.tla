--------------------------- MODULE MailingProofs ---------------------------
(***************************************************************************)
(* Theorems about Mailing, for any mails, any number of attempts, messages *)
(* and stops.                                                              *)
(*                                                                         *)
(* What keeps the promises of the consumer is where its offsets lie: the   *)
(* committed one is never past the one read, the mail in hand is the last  *)
(* one read, and what lies beyond Position was sent at most once for each  *)
(* end without a last commit.                                              *)
(***************************************************************************)
EXTENDS Mailing, FiniteSetTheorems, TLAPS

Up == consumer.mode # "down"

OffsetsFit ==
    /\ committed =< Len(topic)
    /\ consumer.read =< Len(topic)
    /\ consumer.hand \in {0, consumer.read}
    /\ Up => committed =< consumer.read
    /\ ~Up => consumer = Down
    /\ consumer.mode = "closing" => committed = consumer.read /\ stops < MaxStops
    /\ kills =< stops

BeyondIsFew == \A o \in Offsets : o > Position => sent[o] =< kills

ConsumerInv ==
    /\ ConsumerTypeOK /\ TopicType /\ OffsetsFit
    /\ BeyondIsFew /\ RepeatsNeedKills /\ OneLostPerStop

AttemptsLeft == \A m \in Mails :
    /\ batch[m] = "writing" => attempts[m] < MaxAttempts
    /\ told[m] = "unasked" => batch[m] = "none" /\ attempts[m] = 0
WrittenIsPublished == \A m \in Mails : batch[m] = "written" => Published(m)

ProducerInv ==
    /\ TopicType /\ ProducerTypeOK /\ AttemptsLeft /\ WrittenIsPublished /\ OkIsPublished

-----------------------------------------------------------------------------
(* The topic only grows.                                                   *)

TopicGrows == TopicType' /\ \E m \in Mails : topic' = Append(topic, m)

LEMMA PublishGrows == TopicType /\ (\E m \in Mails : Publish(m)) => TopicGrows
<1> SUFFICES ASSUME TopicType, NEW m \in Mails, Publish(m) PROVE TopicGrows
  OBVIOUS
<1>1. topic' = Append(topic, m) /\ Len(topic) < MaxTopic
  BY DEF Publish
<1>2. topic' \in Seq(Mails) /\ Len(topic') = Len(topic) + 1
  BY <1>1 DEF TopicType
<1> QED BY <1>1, <1>2, TopicAssumption DEF TopicGrows, TopicType

LEMMA PublishedStays ==
    ASSUME TopicType, NEW m \in Mails, NEW n \in Mails, topic' = Append(topic, n)
    PROVE  /\ Published(m) => Published(m)'
           /\ Published(n)'
<1>1. Len(topic') = Len(topic) + 1 /\ DOMAIN topic' = 1 .. Len(topic) + 1
      /\ DOMAIN topic = 1 .. Len(topic) /\ Len(topic) \in Nat
  BY DEF TopicType
<1>2. \A o \in 1 .. Len(topic) : topic'[o] = topic[o]
  BY DEF TopicType
<1>3. topic'[Len(topic) + 1] = n
  BY DEF TopicType
<1>4. Published(m) => Published(m)'
  BY <1>1, <1>2 DEF Published
<1>5. Published(n)'
  BY <1>1, <1>3 DEF Published
<1> QED BY <1>4, <1>5

-----------------------------------------------------------------------------
(* The producer.                                                           *)

LEMMA ProducerInitFits == MailingInit => ProducerInv
<1> SUFFICES ASSUME MailingInit PROVE ProducerInv
  OBVIOUS
<1>1. topic = <<>> /\ ProducerInit
  BY DEF MailingInit
<1>2. TopicType
  BY <1>1, TopicAssumption DEF TopicType
<1>3. ProducerTypeOK /\ AttemptsLeft /\ WrittenIsPublished /\ OkIsPublished
  BY <1>1, ProducerAssumption
  DEF ProducerInit, ProducerTypeOK, AttemptsLeft, WrittenIsPublished, OkIsPublished
<1> QED BY <1>2, <1>3 DEF ProducerInv

LEMMA ProduceFits == ProducerInv /\ Produce => ProducerInv'
<1> SUFFICES ASSUME ProducerInv, Produce PROVE ProducerInv'
  OBVIOUS
<1> USE ProducerAssumption DEF ProducerInv
<1>1. ASSUME NEW m \in Mails, SendEmail(m) PROVE ProducerInv'
  <2>1. TopicType'
    BY <1>1 DEF SendEmail, TopicType
  <2>2. ProducerTypeOK' /\ AttemptsLeft' /\ WrittenIsPublished' /\ OkIsPublished'
    BY <1>1 DEF SendEmail, ProducerTypeOK, AttemptsLeft, WrittenIsPublished,
                OkIsPublished, Published
  <2> QED BY <2>1, <2>2
<1>2. ASSUME NEW m \in Mails, Attempt(m) PROVE ProducerInv'
  <2>1. attempts[m] < MaxAttempts /\ attempts[m] \in Nat
    BY <1>2 DEF Attempt, AttemptsLeft, ProducerTypeOK
  <2>2. GivenUp(m) \in {"writing", "failed"}
        /\ (GivenUp(m) = "writing" => attempts[m] + 1 < MaxAttempts)
    BY DEF GivenUp
  <2>3. PICK b \in {"written", GivenUp(m)} : batch' = [batch EXCEPT ![m] = b]
    BY <1>2 DEF Attempt
  <2>4. ProducerTypeOK' /\ AttemptsLeft'
    BY <1>2, <2>1, <2>2, <2>3 DEF Attempt, ProducerTypeOK, AttemptsLeft
  <2>5. CASE topic' = Append(topic, m) /\ Len(topic) < MaxTopic
    <3>1. TopicType'
      BY <2>5, PublishGrows DEF Publish, TopicGrows
    <3>2. \A n \in Mails : (Published(n) => Published(n)') /\ Published(m)'
      BY <2>5, PublishedStays
    <3>3. WrittenIsPublished'
      BY <2>3, <3>2 DEF WrittenIsPublished, ProducerTypeOK
    <3>4. OkIsPublished'
      BY <1>2, <3>2 DEF OkIsPublished, Attempt
    <3> QED BY <2>4, <3>1, <3>3, <3>4
  <2>6. CASE topic' = topic /\ batch' = [batch EXCEPT ![m] = GivenUp(m)]
    <3>1. TopicType'
      BY <2>6 DEF TopicType
    <3>2. WrittenIsPublished' /\ OkIsPublished'
      BY <1>2, <2>2, <2>6 DEF WrittenIsPublished, OkIsPublished, Attempt, Published, ProducerTypeOK
    <3> QED BY <2>4, <3>1, <3>2
  <2> QED BY <1>2, <2>5, <2>6 DEF Attempt, Publish
<1>3. ASSUME NEW m \in Mails, Answer(m) \/ TimeOut(m) PROVE ProducerInv'
  <2>1. topic' = topic /\ batch' = batch /\ attempts' = attempts
    BY <1>3 DEF Answer, TimeOut
  <2>2. PICK a \in {"ok", "error"} :
           /\ told' = [told EXCEPT ![m] = a]
           /\ a = "ok" => batch[m] = "written" \/ m \notin Resets
    BY <1>3 DEF Answer, TimeOut, OnError
  <2>3. TopicType' /\ ProducerTypeOK' /\ AttemptsLeft' /\ WrittenIsPublished'
    BY <2>1, <2>2 DEF TopicType, ProducerTypeOK, AttemptsLeft, WrittenIsPublished, Published
  <2>4. OkIsPublished'
    BY <2>1, <2>2 DEF OkIsPublished, WrittenIsPublished, Published, ProducerTypeOK
  <2> QED BY <2>3, <2>4
<1>4. ASSUME ProducerDies PROVE ProducerInv'
  BY <1>4 DEF ProducerDies, TopicType, ProducerTypeOK, AttemptsLeft, WrittenIsPublished,
              OkIsPublished, Published
<1> QED BY <1>1, <1>2, <1>3, <1>4 DEF Produce

LEMMA ProducerInvStays == ProducerInv /\ UNCHANGED <<topic, producerVars>> => ProducerInv'
BY DEF ProducerInv, producerVars, TopicType, ProducerTypeOK, AttemptsLeft,
       WrittenIsPublished, OkIsPublished, Published

-----------------------------------------------------------------------------
(* The consumer.                                                           *)

Fit == ConsumerTypeOK /\ TopicType /\ OffsetsFit

LEMMA PositionIsThere ==
    ASSUME Fit
    PROVE  /\ Position \in 0 .. MaxTopic /\ Position =< Len(topic)
           /\ Len(topic) \in 0 .. MaxTopic
           /\ consumer.hand # 0 => consumer.hand = Position + 1
<1>1. Len(topic) \in 0 .. MaxTopic
  BY TopicAssumption DEF Fit, TopicType
<1>2. /\ consumer.read \in 0 .. Len(topic) /\ committed \in 0 .. Len(topic)
      /\ consumer.hand \in {0, consumer.read}
  BY <1>1, TopicAssumption DEF Fit, ConsumerTypeOK, Consumer, OffsetsFit
<1>3. consumer.mode = "down" => consumer.hand = 0
  BY DEF Fit, OffsetsFit, Up, Down
<1> QED BY <1>1, <1>2, <1>3, TopicAssumption DEF Position

LEMMA PositionIsThereNext ==
    ASSUME Fit' PROVE Position' \in 0 .. MaxTopic
<1>1. Len(topic') \in 0 .. MaxTopic
  BY TopicAssumption DEF Fit, TopicType
<1>2. /\ consumer'.read \in 0 .. Len(topic') /\ committed' \in 0 .. Len(topic')
      /\ consumer'.hand \in {0, consumer'.read}
  BY <1>1, TopicAssumption DEF Fit, ConsumerTypeOK, Consumer, OffsetsFit
<1> QED BY <1>1, <1>2, TopicAssumption DEF Position

LEMMA LostIsFinite == ASSUME Fit PROVE IsFiniteSet(Lost)
<1>1. IsFiniteSet(1 .. Position) /\ Lost \subseteq 1 .. Position
  BY PositionIsThere, FS_Interval DEF Lost
<1> QED BY <1>1, FS_Subset

(* One mail may get lost with each end.                                    *)
LEMMA FewAreLost ==
    ASSUME Fit, OneLostPerStop,
           stops' = stops + 1, NEW o, Lost' \subseteq Lost \cup {o}
    PROVE  OneLostPerStop'
<1>1. IsFiniteSet(Lost)
  BY LostIsFinite
<1>2. /\ IsFiniteSet(Lost \cup {o})
      /\ Cardinality(Lost \cup {o}) \in {Cardinality(Lost), Cardinality(Lost) + 1}
  BY <1>1, FS_AddElement
<1>4. Cardinality(Lost) \in Nat
  BY <1>1, FS_CardinalityType
<1>3. IsFiniteSet(Lost') /\ Cardinality(Lost') =< Cardinality(Lost \cup {o})
      /\ Cardinality(Lost') \in Nat /\ Cardinality(Lost \cup {o}) \in Nat
  BY <1>2, FS_Subset, FS_CardinalityType
<1> QED BY <1>2, <1>3, <1>4, ConsumerAssumption DEF OneLostPerStop, Fit, ConsumerTypeOK

LEMMA NoMoreAreLost ==
    ASSUME Fit, OneLostPerStop,
           stops' = stops, Lost' \subseteq Lost
    PROVE  OneLostPerStop'
<1>1. IsFiniteSet(Lost)
  BY LostIsFinite
<1>2. Cardinality(Lost') =< Cardinality(Lost) /\ Cardinality(Lost') \in Nat
      /\ Cardinality(Lost) \in Nat
  BY <1>1, FS_Subset, FS_CardinalityType
<1> QED BY <1>2 DEF OneLostPerStop, Fit, ConsumerTypeOK

LEMMA ConsumerInitFits == MailingInit => ConsumerInv
<1> SUFFICES ASSUME MailingInit PROVE ConsumerInv
  OBVIOUS
<1> USE TopicAssumption, ConsumerAssumption
<1>1. topic = <<>> /\ ConsumerInit
  BY DEF MailingInit
<1>2. TopicType /\ ConsumerTypeOK
  BY <1>1 DEF TopicType, ConsumerInit, ConsumerTypeOK, Consumer, Started, Offsets
<1>3. Position = 0
  BY <1>1 DEF Position, ConsumerInit, Started
<1>4. OffsetsFit /\ BeyondIsFew /\ RepeatsNeedKills
  BY <1>1 DEF OffsetsFit, BeyondIsFew, RepeatsNeedKills, ConsumerInit, Started, Up
<1>5. OneLostPerStop
  <2>1. Lost = {}
    BY <1>3 DEF Lost
  <2> QED BY <1>1, <2>1, FS_EmptySet DEF OneLostPerStop, ConsumerInit
<1> QED BY <1>2, <1>4, <1>5 DEF ConsumerInv

(* What a step of the consumer does to its position.                       *)
Handled(o) ==
    \/ sent' = [sent EXCEPT ![o] = @ + 1] /\ refused' = refused
    \/ refused' = refused \cup {o} /\ sent' = sent

Moves ==
    \/ Position' = Position /\ UNCHANGED <<sent, refused, stops, kills>>
    \/ Position' = Position + 1 /\ Handled(Position + 1) /\ UNCHANGED <<stops, kills>>
    \/ /\ Position' \in {Position, Position + 1}
       /\ stops' = stops + 1
       /\ UNCHANGED <<sent, refused, kills>>
    \/ /\ Position' \in 0 .. Position + 1
       /\ stops' = stops + 1 /\ kills' = kills + 1
       /\ UNCHANGED <<sent, refused>>

LEMMA ConsumeMoves ==
    ConsumerInv /\ Consume => ConsumerTypeOK' /\ TopicType' /\ OffsetsFit' /\ Moves
<1> SUFFICES ASSUME ConsumerInv, Consume
             PROVE  ConsumerTypeOK' /\ TopicType' /\ OffsetsFit' /\ Moves
  OBVIOUS
<1> USE TopicAssumption, ConsumerAssumption DEF ConsumerInv
<1>1. Len(topic) \in 0 .. MaxTopic /\ topic' = topic /\ Len(topic)' = Len(topic)
  BY PositionIsThere DEF Consume, Fit
<1>2. TopicType'
  BY <1>1 DEF TopicType
<1>3. CASE Read
  <2>1. /\ consumer.mode = "running" /\ consumer.hand = 0
        /\ consumer.read \in 0 .. MaxTopic /\ consumer.read < Len(topic)
        /\ consumer' = [consumer EXCEPT !.read = consumer.read + 1, !.hand = consumer.read + 1]
        /\ UNCHANGED <<committed, sent, refused, stops, kills>>
    BY <1>3 DEF Read, ConsumerTypeOK, Consumer
  <2>2. ConsumerTypeOK' /\ OffsetsFit'
    <3>1. consumer.read + 1 \in 0 .. MaxTopic
      BY <1>1, <2>1
    <3>2. /\ consumer' \in Consumer
          /\ consumer'.mode = "running" /\ consumer'.read = consumer.read + 1
          /\ consumer'.hand = consumer.read + 1
      BY <2>1, <3>1 DEF ConsumerTypeOK, Consumer
    <3>3. ConsumerTypeOK'
      BY <2>1, <3>2 DEF ConsumerTypeOK
    <3>4. committed =< consumer.read /\ committed \in 0 .. MaxTopic
      BY <2>1 DEF OffsetsFit, Up, ConsumerTypeOK
    <3>5. OffsetsFit'
      BY <1>1, <2>1, <3>2, <3>4 DEF OffsetsFit, Up
    <3> QED BY <3>3, <3>5
  <2>3. Position = consumer.read /\ Position' = consumer.read
    BY <2>1 DEF Position, ConsumerTypeOK, Consumer
  <2> QED BY <1>2, <2>1, <2>2, <2>3 DEF Moves
<1>4. CASE Send
  <2>1. consumer.hand \in Offsets
    BY <1>4 DEF Send, ConsumerTypeOK, Consumer, Offsets
  <2>2. ConsumerTypeOK' /\ OffsetsFit'
    BY <1>1, <1>4, <2>1 DEF Send, Done, ConsumerTypeOK, Consumer, OffsetsFit, Up, Alive
  <2>3. Moves
    <3>1. Position = consumer.hand - 1 /\ Position' = consumer.hand
      BY <1>4 DEF Send, Done, ConsumerTypeOK, Consumer, OffsetsFit, Position, Alive
    <3>2. Position + 1 = consumer.hand
      BY <2>1, <3>1 DEF Offsets
    <3> QED BY <1>4, <3>1, <3>2 DEF Send, Moves, Handled
  <2> QED BY <1>2, <2>2, <2>3
<1>5. CASE Refuse
  <2>1. consumer.hand \in Offsets
    BY <1>5 DEF Refuse, ConsumerTypeOK, Consumer, Offsets
  <2>2. ConsumerTypeOK' /\ OffsetsFit'
    BY <1>1, <1>5, <2>1 DEF Refuse, Done, ConsumerTypeOK, Consumer, OffsetsFit, Up, Alive
  <2>3. Moves
    <3>1. Position = consumer.hand - 1 /\ Position' = consumer.hand
      BY <1>5 DEF Refuse, Done, ConsumerTypeOK, Consumer, OffsetsFit, Position, Alive
    <3>2. Position + 1 = consumer.hand
      BY <2>1, <3>1 DEF Offsets
    <3> QED BY <1>5, <3>1, <3>2 DEF Refuse, Moves, Handled
  <2> QED BY <1>2, <2>2, <2>3
<1>6. CASE Flush \/ Stop
  BY <1>1, <1>2, <1>6
  DEF Flush, Stop, Marked, ConsumerTypeOK, Consumer, OffsetsFit, Moves, Position, Up, Alive
<1>7. CASE Exit
  BY <1>1, <1>2, <1>7
  DEF Exit, ConsumerTypeOK, Consumer, OffsetsFit, Moves, Position, Up, Down
<1>8. CASE Kill
  BY <1>1, <1>2, <1>8
  DEF Kill, ConsumerTypeOK, Consumer, OffsetsFit, Moves, Position, Up, Down
<1>9. CASE Start
  BY <1>1, <1>2, <1>9
  DEF Start, Started, ConsumerTypeOK, Consumer, OffsetsFit, Moves, Position, Up, Down
<1> QED BY <1>3, <1>4, <1>5, <1>6, <1>7, <1>8, <1>9 DEF Consume

LEMMA ConsumeFits == ConsumerInv /\ Consume => ConsumerInv'
<1> SUFFICES ASSUME ConsumerInv, Consume PROVE ConsumerInv'
  OBVIOUS
<1>1. /\ ConsumerTypeOK' /\ TopicType' /\ OffsetsFit' /\ Moves
      /\ ConsumerTypeOK /\ TopicType /\ OffsetsFit
      /\ BeyondIsFew /\ RepeatsNeedKills /\ OneLostPerStop
  BY ConsumeMoves DEF ConsumerInv
<1>2. Fit /\ Position \in 0 .. MaxTopic /\ Position' \in 0 .. MaxTopic
  BY <1>1, PositionIsThere, PositionIsThereNext DEF Fit
<1>3. stops \in Nat /\ kills \in Nat /\ sent \in [Offsets -> Nat]
  BY <1>1, ConsumerAssumption DEF ConsumerTypeOK
<1>4. CASE Position' = Position /\ UNCHANGED <<sent, refused, stops, kills>>
  <2>1. BeyondIsFew' /\ RepeatsNeedKills'
    BY <1>1, <1>4 DEF BeyondIsFew, RepeatsNeedKills
  <2>2. Lost' \subseteq Lost
    BY <1>4 DEF Lost
  <2> QED BY <1>1, <1>4, <2>1, <2>2, <1>2, NoMoreAreLost DEF ConsumerInv
<1>5. CASE Position' = Position + 1 /\ Handled(Position + 1) /\ UNCHANGED <<stops, kills>>
  <2>1. \A o \in Offsets : /\ sent'[o] =< sent[o] + 1
                           /\ o # Position + 1 => sent'[o] = sent[o]
                           /\ sent'[o] >= sent[o]
    BY <1>3, <1>5 DEF Handled
  <2>2. BeyondIsFew'
    BY <1>1, <1>2, <1>5, <2>1 DEF BeyondIsFew, Offsets
  <2>3. RepeatsNeedKills'
    <3>1. SUFFICES ASSUME NEW o \in Offsets PROVE sent'[o] =< 1 + kills
      BY <1>5 DEF RepeatsNeedKills
    <3>2. CASE o = Position + 1
      <4>1. sent[o] =< kills
        BY <1>1, <1>2, <3>2 DEF BeyondIsFew, Offsets
      <4>2. sent'[o] \in Nat /\ sent[o] \in Nat
        BY <1>1, <1>3 DEF ConsumerTypeOK
      <4> QED BY <1>3, <2>1, <4>1, <4>2
    <3>3. CASE o # Position + 1
      BY <1>1, <2>1, <3>3 DEF RepeatsNeedKills
    <3> QED BY <3>2, <3>3
  <2>4. Lost' \subseteq Lost
    <3>1. SUFFICES ASSUME NEW o \in Lost' PROVE o \in Lost
      OBVIOUS
    <3>2. o \in 1 .. Position + 1 /\ sent'[o] = 0 /\ o \notin refused'
      BY <1>2, <1>5, <3>1 DEF Lost
    <3>3. o \in Offsets
      BY <1>2, <1>5, <3>2, TopicAssumption DEF Offsets
    <3>4. o # Position + 1
      BY <1>3, <1>5, <3>2, <3>3 DEF Handled
    <3>5. sent[o] = 0 /\ o \notin refused
      BY <1>3, <1>5, <3>2, <3>3, <3>4 DEF Handled
    <3> QED BY <1>2, <3>2, <3>4, <3>5 DEF Lost
  <2> QED BY <1>1, <1>5, <2>2, <2>3, <2>4, <1>2, NoMoreAreLost DEF ConsumerInv
<1>6. CASE /\ Position' \in {Position, Position + 1}
           /\ stops' = stops + 1
           /\ UNCHANGED <<sent, refused, kills>>
  <2>1. BeyondIsFew' /\ RepeatsNeedKills'
    BY <1>1, <1>2, <1>6 DEF BeyondIsFew, RepeatsNeedKills, Offsets
  <2>2. Lost' \subseteq Lost \cup {Position + 1}
    BY <1>2, <1>6 DEF Lost
  <2> QED BY <1>1, <1>6, <2>1, <2>2, <1>2, FewAreLost DEF ConsumerInv
<1>7. CASE /\ Position' \in 0 .. Position + 1
           /\ stops' = stops + 1 /\ kills' = kills + 1
           /\ UNCHANGED <<sent, refused>>
  <2>1. BeyondIsFew' /\ RepeatsNeedKills'
    BY <1>1, <1>2, <1>3, <1>7 DEF BeyondIsFew, RepeatsNeedKills, Offsets
  <2>2. Lost' \subseteq Lost \cup {Position + 1}
    BY <1>2, <1>7 DEF Lost
  <2> QED BY <1>1, <1>7, <2>1, <2>2, <1>2, FewAreLost DEF ConsumerInv
<1> QED BY <1>1, <1>4, <1>5, <1>6, <1>7 DEF Moves

(* Whatever the producer does, the topic grows or stays.                   *)
LEMMA ConsumerInvStays ==
    ConsumerInv /\ (TopicGrows \/ UNCHANGED topic) /\ UNCHANGED consumerVars => ConsumerInv'
<1> SUFFICES ASSUME ConsumerInv, TopicGrows \/ UNCHANGED topic, UNCHANGED consumerVars
             PROVE  ConsumerInv'
  OBVIOUS
<1>1. TopicType' /\ Len(topic) =< Len(topic') /\ Len(topic) \in Nat /\ Len(topic') \in Nat
  BY DEF ConsumerInv, TopicGrows, TopicType
<1>2. Position' = Position /\ Lost' = Lost
  BY DEF Position, Lost, consumerVars
<1>3. ConsumerTypeOK' /\ OffsetsFit'
  BY <1>1, TopicAssumption
  DEF ConsumerInv, ConsumerTypeOK, Consumer, OffsetsFit, consumerVars, Up
<1>4. BeyondIsFew' /\ RepeatsNeedKills' /\ OneLostPerStop'
  BY <1>2 DEF ConsumerInv, BeyondIsFew, RepeatsNeedKills, OneLostPerStop, consumerVars
<1> QED BY <1>1, <1>3, <1>4 DEF ConsumerInv

LEMMA ProduceGrows == TopicType /\ Produce => TopicGrows \/ UNCHANGED topic
BY PublishGrows
DEF Produce, SendEmail, Attempt, Answer, TimeOut, ProducerDies

-----------------------------------------------------------------------------
(* Theorems.                                                               *)

IInv == ProducerInv /\ ConsumerInv

LEMMA Inductive == MailingSpec => []IInv
<1>1. MailingInit => IInv
  BY ProducerInitFits, ConsumerInitFits DEF IInv
<1>2. IInv /\ [MailingNext]_mailingVars => IInv'
  <2> SUFFICES ASSUME IInv, [MailingNext]_mailingVars PROVE IInv'
    OBVIOUS
  <2>1. CASE Produce /\ UNCHANGED consumerVars
    BY <2>1, ProduceFits, ProduceGrows, ConsumerInvStays DEF IInv, ConsumerInv
  <2>2. CASE Consume /\ UNCHANGED producerVars
    BY <2>2, ConsumeFits, ProducerInvStays DEF IInv, Consume
  <2>3. CASE UNCHANGED mailingVars
    BY <2>3, ProducerInvStays, ConsumerInvStays DEF IInv, mailingVars
  <2> QED BY <2>1, <2>2, <2>3 DEF MailingNext
<1> QED BY <1>1, <1>2, PTL DEF MailingSpec

(* Types, for any mails and bounds: in particular the writer stops after   *)
(* MaxAttempts.                                                            *)
THEOREM MailingTypeCorrect == MailingSpec => []MailingTypeOK
<1>1. IInv => MailingTypeOK
  BY DEF IInv, ProducerInv, ConsumerInv, MailingTypeOK
<1> QED BY <1>1, Inductive, PTL

(* RequestPasswordReset answers OK only when the mail is in the topic.     *)
THEOREM OkMeansPublished == MailingSpec => []OkIsPublished
<1>1. IInv => OkIsPublished
  BY DEF IInv, ProducerInv
<1> QED BY <1>1, Inductive, PTL

(* A mail is repeated at most once for each end without a last commit.     *)
THEOREM RepeatsAreFew == MailingSpec => []RepeatsNeedKills
<1>1. IInv => RepeatsNeedKills
  BY DEF IInv, ConsumerInv
<1> QED BY <1>1, Inductive, PTL

(* At most one mail is lost for each end of the service.                   *)
THEOREM LossesAreFew == MailingSpec => []OneLostPerStop
<1>1. IInv => OneLostPerStop
  BY DEF IInv, ConsumerInv
<1> QED BY <1>1, Inductive, PTL

(* Producer and consumer together implement MailDelivery.                  *)
LEMMA StepIsDelivery ==
    IInv /\ IInv' /\ [MailingNext]_mailingVars => [Delivery!Next]_(Delivery!vars)
<1> SUFFICES ASSUME IInv, IInv', [MailingNext]_mailingVars
             PROVE  Delivery!Next \/ UNCHANGED Delivery!vars
  OBVIOUS
<1> USE DEF Delivery!vars
<1>1. Fit /\ Fit' /\ ConsumerInv
  BY DEF IInv, ConsumerInv, Fit
<1>2. Position \in 0 .. MaxTopic /\ Position' =< Len(topic') /\ Position' \in 0 .. MaxTopic
      /\ Len(topic) \in 0 .. MaxTopic
  <2>1. Len(topic') \in 0 .. MaxTopic
    BY <1>1, TopicAssumption DEF Fit, TopicType
  <2>2. /\ consumer'.read \in 0 .. Len(topic') /\ committed' \in 0 .. Len(topic')
        /\ consumer'.hand \in {0, consumer'.read}
    BY <1>1, <2>1, TopicAssumption DEF Fit, ConsumerTypeOK, Consumer, OffsetsFit
  <2> QED BY <1>1, <2>1, <2>2, PositionIsThere, PositionIsThereNext DEF Position
<1>3. CASE Produce /\ UNCHANGED consumerVars
  <2>1. TopicGrows \/ UNCHANGED topic
    BY <1>1, <1>3, ProduceGrows DEF Fit
  <2>2. Position' = Position /\ UNCHANGED <<sent, refused, stops, kills>>
    BY <1>3 DEF Position, consumerVars
  <2>3. CASE TopicGrows
    <3>1. Len(topic') = Len(topic) + 1 /\ Len(topic') =< MaxTopic
      BY <1>1, <2>3 DEF TopicGrows, Fit, TopicType
    <3>2. Delivery!Enqueue
      BY <1>2, <2>2, <3>1, TopicAssumption DEF Delivery!Enqueue
    <3> QED BY <3>2 DEF Delivery!Next
  <2> QED BY <2>1, <2>2, <2>3
<1>4. CASE Consume /\ UNCHANGED producerVars
  <2>1. Moves /\ topic' = topic
    BY <1>1, <1>4, ConsumeMoves DEF Consume
  <2>2. CASE Position' = Position /\ UNCHANGED <<sent, refused, stops, kills>>
    BY <2>1, <2>2
  <2>3. CASE /\ Position' = Position + 1 /\ Handled(Position + 1)
             /\ UNCHANGED <<stops, kills>>
    BY <1>2, <2>1, <2>3 DEF Delivery!Next, Delivery!Handle, Handled
  <2>4. CASE /\ Position' \in {Position, Position + 1}
             /\ stops' = stops + 1
             /\ UNCHANGED <<sent, refused, kills>>
    BY <1>2, <2>1, <2>4 DEF Delivery!Next, Delivery!End
  <2>5. CASE /\ Position' \in 0 .. Position + 1
             /\ stops' = stops + 1 /\ kills' = kills + 1
             /\ UNCHANGED <<sent, refused>>
    BY <1>2, <2>1, <2>5 DEF Delivery!Next, Delivery!Crash
  <2> QED BY <2>1, <2>2, <2>3, <2>4, <2>5 DEF Moves
<1>5. CASE UNCHANGED mailingVars
  BY <1>5 DEF mailingVars, consumerVars, Position
<1> QED BY <1>3, <1>4, <1>5 DEF MailingNext

THEOREM MailingIsDelivery == MailingSpec => IsDelivery
<1>1. MailingInit => Delivery!Init
  BY DEF MailingInit, ConsumerInit, Started, Position, Delivery!Init, Offsets
<1>2. IInv /\ IInv' /\ [MailingNext]_mailingVars => [Delivery!Next]_(Delivery!vars)
  BY StepIsDelivery
<1> QED BY <1>1, <1>2, Inductive, PTL DEF MailingSpec, IsDelivery, Delivery!Spec
=============================================================================
