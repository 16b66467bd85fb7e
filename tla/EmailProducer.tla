---------------------------- MODULE EmailProducer ----------------------------
(***************************************************************************)
(* SendEmail of the auth service.  Each call hands one mail to the shared  *)
(* kafka.Writer and waits: until the writer's goroutine reports on the     *)
(* batch, which it tries to write up to MaxAttempts times, or until five   *)
(* seconds or the call's context are over, which stop the wait and not the *)
(* writer.  A broker may append a message without the writer learning it.  *)
(***************************************************************************)
EXTENDS MailTopic

CONSTANTS
    Resets,         \* the mails of RequestPasswordReset
    MaxAttempts     \* attempts of the writer (10 unless configured)

ASSUME ProducerAssumption == Resets \subseteq Mails /\ MaxAttempts \in Nat \ {0}

VARIABLES
    told,       \* what the caller of each request was told
    batch,      \* the writer's view of each mail
    attempts    \* how often the writer tried

producerVars == <<told, batch, attempts>>

ProducerInit ==
    /\ told = [m \in Mails |-> "unasked"]
    /\ batch = [m \in Mails |-> "none"]
    /\ attempts = [m \in Mails |-> 0]

SendEmail(m) ==
    /\ told[m] = "unasked"
    /\ told' = [told EXCEPT ![m] = "waiting"]
    /\ batch' = [batch EXCEPT ![m] = "writing"]
    /\ UNCHANGED <<attempts, topic>>

(* One attempt: the message is appended or not, and if it is the writer    *)
(* learns of it or not.  After the last attempt it gives up.  Mutant: one  *)
(* attempt later.                                                          *)
GivenUpLate(m) == IF attempts[m] < MaxAttempts THEN "writing" ELSE "failed"
GivenUp(m) == IF attempts[m] + 1 < MaxAttempts THEN "writing" ELSE "failed"

Attempt(m) ==
    /\ batch[m] = "writing"
    /\ attempts' = [attempts EXCEPT ![m] = @ + 1]
    /\ \/ /\ Publish(m)
          /\ \E seen \in {"written", GivenUp(m)} : batch' = [batch EXCEPT ![m] = seen]
       \/ /\ batch' = [batch EXCEPT ![m] = GivenUp(m)]
          /\ UNCHANGED topic
    /\ UNCHANGED told

(* What a caller is told of an error: RequestPasswordReset returns it, the *)
(* others log it and answer OK all the same.  Mutant: they all log it.     *)
LoggedOnly(m) == "ok"
OnError(m) == IF m \in Resets THEN "error" ELSE "ok"

Answer(m) ==
    /\ told[m] = "waiting"
    /\ batch[m] \in {"written", "failed"}
    /\ told' = [told EXCEPT ![m] = IF batch[m] = "written" THEN "ok" ELSE OnError(m)]
    /\ UNCHANGED <<batch, attempts, topic>>

(* Five seconds, or the call's context.                                    *)
TimeOut(m) ==
    /\ told[m] = "waiting"
    /\ told' = [told EXCEPT ![m] = OnError(m)]
    /\ UNCHANGED <<batch, attempts, topic>>

(* The process dies: the callers see the connection break, and the batches *)
(* in memory are gone.                                                     *)
ProducerDies ==
    /\ told' = [m \in Mails |-> IF told[m] = "waiting" THEN "error" ELSE told[m]]
    /\ batch' = [m \in Mails |-> IF batch[m] = "writing" THEN "failed" ELSE batch[m]]
    /\ UNCHANGED <<attempts, topic>>

Produce ==
    \/ \E m \in Mails : SendEmail(m) \/ Attempt(m) \/ Answer(m) \/ TimeOut(m)
    \/ ProducerDies

-----------------------------------------------------------------------------
ProducerTypeOK ==
    /\ told \in [Mails -> {"unasked", "waiting", "ok", "error"}]
    /\ batch \in [Mails -> {"none", "writing", "written", "failed"}]
    /\ attempts \in [Mails -> 0 .. MaxAttempts]

(* Whoever was told that a reset code is on its way has it in the topic    *)
(* (auth_service.go:392).  One whose request failed may be there too.      *)
OkIsPublished == \A m \in Resets : told[m] = "ok" => Published(m)
=============================================================================
