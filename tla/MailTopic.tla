------------------------------ MODULE MailTopic ------------------------------
(***************************************************************************)
(* The Kafka topic of mails: what the auth service writes and the          *)
(* notification service reads.  Partitions do not interact, so there is    *)
(* one.                                                                    *)
(***************************************************************************)
EXTENDS Integers, Sequences

CONSTANTS
    Mails,      \* what the calls of the auth service want mailed
    MaxTopic    \* bound: messages ever written

ASSUME TopicAssumption == MaxTopic \in Nat

Offsets == 1 .. MaxTopic

VARIABLE topic  \* the messages in order; offset o is topic[o]

TopicType == topic \in Seq(Mails) /\ Len(topic) =< MaxTopic

(* A broker appends a message.                                             *)
Publish(m) ==
    /\ Len(topic) < MaxTopic
    /\ topic' = Append(topic, m)

Published(m) == \E o \in DOMAIN topic : topic[o] = m
=============================================================================
