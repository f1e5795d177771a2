----------------------------- MODULE Transcoder ------------------------------
(***************************************************************************)
(* transcode_to_wav of transcoder.py, for any number of calls at once, and *)
(* the ffmpeg process each of them starts.  The process ends when it likes *)
(* or never; only the kill is certain.                                     *)
(***************************************************************************)
CONSTANT Calls   \* the calls, and the processes they start

VARIABLES
    call,      \* the await each call is suspended at, or how it ended
    process,   \* its ffmpeg
    stdout     \* what ffmpeg wrote before it exited

tvars == <<call, process, stdout>>

CallEnded == {"returned", "raised"}
CallLabels == {"idle", "communicate", "wait"} \cup CallEnded
Exits == {"zero", "nonzero"}
Gone == Exits \cup {"killed"}
Outputs == {"no_wav", "wav"}    \* nothing, or no RIFF/WAVE header; or a WAV

TInit ==
    /\ call = [c \in Calls |-> "idle"]
    /\ process = [c \in Calls |-> "none"]
    /\ stdout = [c \in Calls |-> "no_wav"]

CallGoto(c, label) == call' = [call EXCEPT ![c] = label]
ProcessGoto(c, state) == process' = [process EXCEPT ![c] = state]

\* create_subprocess_exec, which raises when there is no ffmpeg.
Spawn(c) ==
    /\ call[c] = "idle"
    /\ \/ CallGoto(c, "communicate") /\ ProcessGoto(c, "running")
       \/ CallGoto(c, "raised") /\ UNCHANGED process
    /\ UNCHANGED stdout

FfmpegExits(c) ==
    /\ process[c] = "running"
    /\ \E status \in Exits : ProcessGoto(c, status)
    /\ \E output \in Outputs : stdout' = [stdout EXCEPT ![c] = output]
    /\ UNCHANGED call

\* The three checks of the result.
Sound(c) == process[c] = "zero" /\ stdout[c] = "wav"

\* communicate() returns once ffmpeg is gone.
CommunicateReturns(c) ==
    /\ call[c] = "communicate" /\ process[c] \in Gone
    /\ CallGoto(c, IF Sound(c) THEN "returned" ELSE "raised")
    /\ UNCHANGED <<process, stdout>>

\* Variant: ffmpeg is left to itself.
TimeoutLeaves(c) ==
    /\ call[c] = "communicate"
    /\ CallGoto(c, "raised")
    /\ UNCHANGED <<process, stdout>>

\* Variant: ffmpeg is waited for, but not killed.
TimeoutWaits(c) ==
    /\ call[c] = "communicate"
    /\ CallGoto(c, "wait")
    /\ UNCHANGED <<process, stdout>>

\* wait_for gives up, possibly just as ffmpeg exits: kill() then does nothing,
\* or raises ProcessLookupError if asyncio has put the process away already.
Timeout(c) ==
    /\ call[c] = "communicate"
    /\ \/ process[c] = "running" /\ ProcessGoto(c, "killed") /\ CallGoto(c, "wait")
       \/ process[c] \in Exits /\ UNCHANGED process
             /\ \E label \in {"wait", "raised"} : CallGoto(c, label)
    /\ UNCHANGED stdout

WaitReturns(c) ==
    /\ call[c] = "wait" /\ process[c] \in Gone
    /\ CallGoto(c, "raised")
    /\ UNCHANGED <<process, stdout>>

\* What a call does once it is under way, ffmpeg's own doings apart.
CallStep(c) == CommunicateReturns(c) \/ Timeout(c) \/ WaitReturns(c)

------------------------------------------------------------------------------
(* Correctness *)

TranscoderTypeOK ==
    /\ call \in [Calls -> CallLabels]
    /\ process \in [Calls -> {"none", "running"} \cup Gone]
    /\ stdout \in [Calls -> Outputs]

(* However a call ends, and whenever its timeout fires, no ffmpeg of it is  *)
(* left running in the container.                                           *)
NoProcessLeft == \A c \in Calls : call[c] \in CallEnded => process[c] # "running"
=============================================================================
