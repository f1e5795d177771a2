------------------------------ MODULE TextReply ------------------------------
(***************************************************************************)
(* _handle_awaiting_text of handlers.py, one HTTP exchange at a time: the  *)
(* download, the model call of aoai_client.py with its one stricter retry, *)
(* the chunked sends with the retries of twilio_client.py, the apology,    *)
(* and the finally block.  Module Handler has each of these as one step    *)
(* among the steps of other requests; here the request runs alone, and     *)
(* every exchange may go wrong in every way the clients tell apart, any    *)
(* number of times.                                                        *)
(*                                                                         *)
(* Twilio may have taken a message it answers with 5xx, with an unreadable *)
(* body, or not at all.  What the user has received is seen and copies.    *)
(***************************************************************************)
EXTENDS Parts

CONSTANT MaxRetries    \* send_text's max_retries

ASSUME RetriesAssumption == MaxRetries \in Nat

VARIABLES
    pc,        \* the exchange awaited
    calls,     \* model calls made, the one awaited included
    answer,    \* chunks of each result, once the model answered
    part,      \* the message being sent
    attempt,   \* send_text's attempt
    error,     \* the exception on its way out of the try block
    seen, copies,   \* the message the user received last, and how often
    row,       \* the state stored for the phone
    blob       \* is the note still stored?

phone == <<seen, copies>>
storage == <<row, blob>>
vars == <<pc, calls, answer, part, attempt, error, phone, storage>>

Ended == {"ended", "crashed"}
Labels == {"download", "token", "model", "send", "backoff", "reset", "cleanup"} \cup Ended
Errors == {"aoai", "not_json", "other"}

ASSUME ErrorsAssumption == None \notin Errors

Init ==
    /\ pc = "download"
    /\ calls = 0 /\ attempt = 0
    /\ answer = None /\ part = None /\ error = None
    /\ seen = None /\ copies = 0
    /\ row = "awaiting_context" /\ blob \in BOOLEAN

\* An exception that is no AoaiError leaves the try block.
Fail(e) == error' = e /\ pc' = "reset"

Transmit(p) == part' = p /\ attempt' = 0 /\ pc' = "send"

\* except AoaiError: send the apology.
Catch == error' = "aoai" /\ Transmit(Sorry)

------------------------------------------------------------------------------
(* The note and the model *)

Download ==
    /\ pc = "download"
    /\ \/ blob /\ pc' = "token" /\ UNCHANGED error
       \/ Fail("other")
    /\ UNCHANGED <<calls, answer, part, attempt, phone, storage>>

Authorise ==
    /\ pc = "token"
    /\ \/ pc' = "model" /\ calls' = 1 /\ UNCHANGED error
       \/ Fail("other") /\ UNCHANGED calls
    /\ UNCHANGED <<answer, part, attempt, phone, storage>>

ModelAnswers ==
    /\ pc = "model"
    /\ answer' \in Sizes
    /\ Transmit(First)
    /\ UNCHANGED <<calls, error, phone, storage>>

\* Variant: every misformatted answer starts the call over.
ModelMisformatsRestarts ==
    /\ pc = "model"
    /\ pc' = "token"
    /\ UNCHANGED <<calls, answer, part, attempt, error, phone, storage>>

\* AoaiParseError: once more with the stricter prompt, then give up.
ModelMisformats ==
    /\ pc = "model"
    /\ \/ calls = 1 /\ calls' = 2 /\ UNCHANGED <<pc, part, attempt, error>>
       \/ calls = 2 /\ Catch /\ UNCHANGED calls
    /\ UNCHANGED <<answer, phone, storage>>

\* Variant: HTTP errors are not told to the user.
ModelRefusesSilently ==
    /\ pc = "model"
    /\ error' = "aoai" /\ pc' = "reset"
    /\ UNCHANGED <<calls, answer, part, attempt, phone, storage>>

\* AoaiHttpError.
ModelRefuses ==
    /\ pc = "model"
    /\ Catch
    /\ UNCHANGED <<calls, answer, phone, storage>>

\* response.json() raises a ValueError, the transport an httpx error: neither
\* is an AoaiError.
ModelFails ==
    /\ pc = "model"
    /\ \E e \in {"not_json", "other"} : Fail(e)
    /\ UNCHANGED <<calls, answer, part, attempt, phone, storage>>

------------------------------------------------------------------------------
(* Sending the message at hand *)

Received == seen' = part /\ copies' = IF seen = part THEN copies + 1 ELSE 1

\* Variant: the last result is not sent.
NextMessageStops ==
    IF part = Sorry \/ Following(answer, part) = <<3, 1>> THEN None
    ELSE Following(answer, part)

\* What _send_chunked and its three calls send next, or None.
NextMessage == IF part = Sorry THEN None ELSE Following(answer, part)

SendAccepted ==
    /\ pc = "send"
    /\ Received
    /\ IF NextMessage = None
       THEN pc' = "reset" /\ UNCHANGED <<part, attempt>>
       ELSE Transmit(NextMessage)
    /\ UNCHANGED <<calls, answer, error, storage>>

\* Variant: every exception is apologised for.
SendFailsCaught ==
    /\ pc = "send"
    /\ Received \/ UNCHANGED phone
    /\ IF part = Sorry THEN Fail("other") /\ UNCHANGED <<part, attempt>> ELSE Catch
    /\ UNCHANGED <<calls, answer, storage>>

\* A status that is not retried, a body that is not JSON, or no answer.
SendFails ==
    /\ pc = "send"
    /\ Received \/ UNCHANGED phone
    /\ Fail("other")
    /\ UNCHANGED <<calls, answer, part, attempt, storage>>

\* Variant: there is no last attempt.
SendBusyForever ==
    /\ pc = "send"
    /\ Received \/ UNCHANGED phone
    /\ pc' = "backoff"
    /\ UNCHANGED <<calls, answer, part, attempt, error, storage>>

\* 429 or 5xx.
SendBusy ==
    /\ pc = "send"
    /\ Received \/ UNCHANGED phone
    /\ IF attempt = MaxRetries THEN Fail("other") ELSE pc' = "backoff" /\ UNCHANGED error
    /\ UNCHANGED <<calls, answer, part, attempt, storage>>

Backoff ==
    /\ pc = "backoff"
    /\ attempt' = attempt + 1 /\ pc' = "send"
    /\ UNCHANGED <<calls, answer, part, error, phone, storage>>

------------------------------------------------------------------------------
(* The finally block *)

\* An exception in the finally block replaces the one on its way.
GiveUp == error' = "other" /\ pc' = "ended"

Reset ==
    /\ pc = "reset"
    /\ \/ row' = "idle" /\ pc' = "cleanup" /\ UNCHANGED error
       \/ row' \in {row, "idle"} /\ GiveUp
    /\ UNCHANGED <<calls, answer, part, attempt, phone, blob>>

Cleanup ==
    /\ pc = "cleanup"
    /\ \/ blob' = FALSE /\ pc' = "ended" /\ UNCHANGED error
       \/ blob' \in {blob, FALSE} /\ GiveUp
    /\ UNCHANGED <<calls, answer, part, attempt, phone, row>>

Crash ==
    /\ pc \notin Ended
    /\ pc' = "crashed"
    /\ UNCHANGED <<calls, answer, part, attempt, error, phone, storage>>

Step ==
    \/ Download \/ Authorise
    \/ ModelAnswers \/ ModelMisformats \/ ModelRefuses \/ ModelFails
    \/ SendAccepted \/ SendFails \/ SendBusy \/ Backoff
    \/ Reset \/ Cleanup

Finished == pc \in Ended /\ UNCHANGED vars

Next == Step \/ Crash \/ Finished

Spec == Init /\ [][Next]_vars

\* Every exchange ends, by its timeout if not before.
FairSpec == Spec /\ WF_vars(Step)

------------------------------------------------------------------------------
(* Correctness *)

TypeOK ==
    /\ pc \in Labels
    /\ calls \in 0 .. 2
    /\ answer \in Sizes \cup {None}
    /\ part \in Part \cup {Sorry, None}
    /\ attempt \in 0 .. MaxRetries
    /\ error \in Errors \cup {None}
    /\ seen \in Part \cup {Sorry, None}
    /\ copies \in 0 .. MaxRetries + 1
    /\ row \in {"awaiting_context", "idle"}
    /\ blob \in BOOLEAN

Answer == INSTANCE Answer WITH Limit <- MaxRetries + 1

(* The user sees a prefix of the answer in order, no message of it more     *)
(* than max_retries + 1 times, or the apology, never both: however Twilio   *)
(* and the model fail.                                                      *)
RefinesAnswer == Answer!Spec

(* A request that ends without an exception has shown the whole answer.     *)
AnswerComplete ==
    pc = "ended" /\ error = None => answer # None /\ seen = Last(answer)

(* A request that ends with the model's error has told the user so.         *)
AoaiErrorIsTold == pc = "ended" /\ error = "aoai" => seen = Sorry

(* The retries of the model and of every send come to an end, and with them *)
(* the webhook that waits for the handler.                                  *)
Terminates == <>(pc \in Ended)

(* aoai_client.py: "Retries once with a stricter prompt on non-JSON         *)
(* response; raises AoaiParseError after the second failure", which the     *)
(* handler tells the user.                                                  *)
NonJsonIsRetried == pc = "ended" /\ error = "not_json" => calls = 2
=============================================================================
