---------------------------- MODULE EmailConsumer ----------------------------
(***************************************************************************)
(* The notification service: one consumer of the topic of mails.  It reads *)
(* with a consumer group and automatic commits: ReadMessage hands out a    *)
(* message and only marks its offset, a background goroutine of the reader *)
(* commits the marks once a second, and the mail is sent meanwhile.  The   *)
(* process may stop gracefully, be killed, and start again.                *)
(***************************************************************************)
EXTENDS MailTopic, FiniteSets

CONSTANT
    MaxStops    \* bound: times the consumer stops or is killed

ASSUME ConsumerAssumption == MaxStops \in Nat

VARIABLES
    consumer,   \* the process: see Consumer
    committed,  \* offset of the group at the broker: messages up to it are done
    sent,       \* how often the mail of each offset was handed to SMTP
    refused,    \* offsets whose message was logged and dropped
    stops,      \* history: how often the process ended, in whatever way
    kills       \* history: ... without a last commit

consumerVars == <<consumer, committed, sent, refused, stops, kills>>

(* "read" is the offset ReadMessage returned last, which is also the       *)
(* reader's mark; "hand" the offset that is being sent, 0 for none.        *)
Consumer == [mode : {"running", "closing", "down"}, read : 0 .. MaxTopic,
             hand : 0 .. MaxTopic]
Started(offset) == [mode |-> "running", read |-> offset, hand |-> 0]
Down == [mode |-> "down", read |-> 0, hand |-> 0]

ConsumerInit ==
    /\ consumer = Started(0)
    /\ committed = 0
    /\ sent = [o \in Offsets |-> 0]
    /\ refused = {}
    /\ stops = 0
    /\ kills = 0

-----------------------------------------------------------------------------
(* Run.                                                                    *)

(* ReadMessage.  It blocks while the topic has nothing new, and fails once *)
(* the context is cancelled, which ends the loop.                          *)
Read ==
    /\ consumer.mode = "running"
    /\ consumer.hand = 0
    /\ consumer.read < Len(topic)
    /\ consumer' = [consumer EXCEPT !.read = @ + 1, !.hand = consumer.read + 1]
    /\ UNCHANGED <<committed, sent, refused, stops, kills>>

Alive == consumer.mode \in {"running", "closing"}
Done == consumer' = [consumer EXCEPT !.hand = 0]

(* DialAndSend succeeded.                                                  *)
Send ==
    /\ Alive
    /\ consumer.hand # 0
    /\ sent' = [sent EXCEPT ![consumer.hand] = @ + 1]
    /\ Done
    /\ UNCHANGED <<committed, refused, stops, kills>>

(* The message does not decode, has no addressee or template, its template *)
(* cannot be read or executed, or SMTP refuses it: the loop goes on.       *)
Refuse ==
    /\ Alive
    /\ consumer.hand # 0
    /\ refused' = refused \cup {consumer.hand}
    /\ Done
    /\ UNCHANGED <<committed, sent, stops, kills>>

-----------------------------------------------------------------------------
(* The reader's commits (CommitInterval) and the life of the process.      *)

(* Mutant: the mark runs one message ahead of what was read.               *)
MarkedAhead == IF consumer.read < Len(topic) THEN consumer.read + 1 ELSE consumer.read
Marked == consumer.read

(* Mutant: nothing is committed while the process runs.                    *)
FlushAtClose ==
    /\ consumer.mode = "closing"
    /\ committed < consumer.read
    /\ committed' = Marked
    /\ UNCHANGED <<consumer, sent, refused, stops, kills>>
Flush ==
    /\ Alive
    /\ committed < consumer.read
    /\ committed' = Marked
    /\ UNCHANGED <<consumer, sent, refused, stops, kills>>

(* SIGTERM: cancel, and Close, which commits the marks before it returns.  *)
(* Mutant: the process closes without a word to the broker.                *)
StopWithoutClose ==
    /\ consumer.mode = "running"
    /\ stops < MaxStops
    /\ consumer' = [consumer EXCEPT !.mode = "closing"]
    /\ UNCHANGED <<committed, sent, refused, stops, kills>>
Stop ==
    /\ consumer.mode = "running"
    /\ stops < MaxStops
    /\ consumer' = [consumer EXCEPT !.mode = "closing"]
    /\ committed' = Marked
    /\ UNCHANGED <<sent, refused, stops, kills>>

(* main returns 200 ms later, whether or not the mail in hand was sent.    *)
Exit ==
    /\ consumer.mode = "closing"
    /\ stops' = stops + 1
    /\ consumer' = Down
    /\ UNCHANGED <<committed, sent, refused, kills>>

(* The process is killed, or cannot commit when it closes.                 *)
Kill ==
    /\ consumer.mode = "running"
    /\ stops < MaxStops
    /\ stops' = stops + 1
    /\ kills' = kills + 1
    /\ consumer' = Down
    /\ UNCHANGED <<committed, sent, refused>>

(* The broker knows the position of the group.  Mutant: the reader starts  *)
(* behind the last message.                                                *)
StartAtEnd ==
    /\ consumer.mode = "down"
    /\ consumer' = Started(Len(topic))
    /\ UNCHANGED <<committed, sent, refused, stops, kills>>
Start ==
    /\ consumer.mode = "down"
    /\ consumer' = Started(committed)
    /\ UNCHANGED <<committed, sent, refused, stops, kills>>

Consume ==
    /\ Read \/ Send \/ Refuse \/ Flush \/ Stop \/ Exit \/ Kill \/ Start
    /\ UNCHANGED topic

-----------------------------------------------------------------------------
ConsumerTypeOK ==
    /\ consumer \in Consumer
    /\ committed \in 0 .. MaxTopic
    /\ sent \in [Offsets -> Nat]
    /\ refused \subseteq Offsets
    /\ stops \in 0 .. MaxStops /\ kills \in 0 .. MaxStops

(* A mail goes out twice only because the process ended without a last     *)
(* commit after sending it (kafka_consumer.go:36): never more often than   *)
(* that happened, plus once.  Graceful stops repeat nothing.               *)
RepeatsNeedKills == \A o \in Offsets : sent[o] =< 1 + kills

(* The mails up to which the service is through: what it will hand to SMTP *)
(* from now on lies beyond, unless it is killed.                           *)
Position ==
    IF consumer.mode = "down" THEN committed
    ELSE IF consumer.hand # 0 THEN consumer.hand - 1 ELSE consumer.read

(* Automatic commits lose mails (kafka_consumer.go:62, main.go:53), but    *)
(* only the one in hand when the process ends.                             *)
Lost == {o \in 1 .. Position : sent[o] = 0 /\ o \notin refused}
OneLostPerStop == Cardinality(Lost) =< stops
=============================================================================
