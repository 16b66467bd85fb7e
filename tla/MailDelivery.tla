---------------------------- MODULE MailDelivery ----------------------------
(***************************************************************************)
(* What the notification service promises about the mails in its topic,    *)
(* with no word of offsets that are marked, committed or in hand.  There   *)
(* is a position, and the mails beyond it are still to be handled, in      *)
(* order.  Each end of the service may pass over one mail, and an end      *)
(* without a last commit may set the position back.                        *)
(***************************************************************************)
EXTENDS Integers

CONSTANT MaxTopic

VARIABLES
    published,  \* mails in the topic
    position,   \* mails the service is through with
    sent,       \* how often each was handed to SMTP
    refused,    \* mails that were logged and dropped
    stops,      \* ends of the service
    kills       \* ... without a last commit

vars == <<published, position, sent, refused, stops, kills>>

Init ==
    /\ published = 0 /\ position = 0
    /\ sent = [o \in 1 .. MaxTopic |-> 0]
    /\ refused = {}
    /\ stops = 0 /\ kills = 0

Enqueue ==
    /\ published < MaxTopic
    /\ published' = published + 1
    /\ UNCHANGED <<position, sent, refused, stops, kills>>

Handle ==
    /\ position < published
    /\ position' = position + 1
    /\ \/ /\ sent' = [sent EXCEPT ![position + 1] = @ + 1]
          /\ UNCHANGED refused
       \/ /\ refused' = refused \cup {position + 1}
          /\ UNCHANGED sent
    /\ UNCHANGED <<published, stops, kills>>

End ==
    /\ stops' = stops + 1
    /\ position' \in {position, position + 1}
    /\ position' =< published
    /\ UNCHANGED <<published, sent, refused, kills>>

Crash ==
    /\ stops' = stops + 1
    /\ kills' = kills + 1
    /\ position' \in 0 .. position + 1
    /\ position' =< published
    /\ UNCHANGED <<published, sent, refused>>

Next == Enqueue \/ Handle \/ End \/ Crash

Spec == Init /\ [][Next]_vars
=============================================================================
