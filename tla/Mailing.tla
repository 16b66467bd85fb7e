------------------------------- MODULE Mailing -------------------------------
(***************************************************************************)
(* The way of a mail: EmailProducer and EmailConsumer on one topic.        *)
(***************************************************************************)
EXTENDS EmailProducer, EmailConsumer

mailingVars == <<topic, producerVars, consumerVars>>

MailingInit == topic = <<>> /\ ProducerInit /\ ConsumerInit

MailingNext ==
    \/ Produce /\ UNCHANGED consumerVars
    \/ Consume /\ UNCHANGED producerVars

MailingSpec == MailingInit /\ [][MailingNext]_mailingVars

(* The loop of a process that runs, its committing goroutine, and the end  *)
(* of a process that closes go on; sending a mail succeeds or fails.  That *)
(* somebody starts the service again is not assumed.                       *)
Take(A) == A /\ UNCHANGED <<topic, producerVars>>
Fairness ==
    /\ WF_mailingVars(Take(Read))
    /\ WF_mailingVars(Take(Send \/ Refuse))
    /\ WF_mailingVars(Take(Flush))
    /\ WF_mailingVars(Take(Exit))

FairMailingSpec == MailingSpec /\ Fairness

MailingTypeOK == TopicType /\ ProducerTypeOK /\ ConsumerTypeOK

(* The service is through with every mail in the topic some day, or its    *)
(* process ends: no mail that fails holds up those behind it               *)
(* (kafka_consumer.go:50-63).                                              *)
EveryMailIsTaken ==
    \A o \in Offsets :
        Len(topic) >= o ~> committed >= o \/ consumer.mode = "down"

(* The consumer does what MailDelivery promises.                           *)
Delivery == INSTANCE MailDelivery WITH published <- Len(topic), position <- Position
IsDelivery == Delivery!Spec
=============================================================================
