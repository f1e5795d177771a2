------------------------------- MODULE Handler -------------------------------
(***************************************************************************)
(* WebhookHandler.handle of handlers.py, run by any number of webhook      *)
(* deliveries at once, over the convstate table and the audio-staging      *)
(* container.                                                              *)
(*                                                                         *)
(* A request is one delivery of one Twilio message.  Its program counter   *)
(* names the await it is suspended at, and one action is the effect of     *)
(* that awaited call on the service it goes to, with the code that runs    *)
(* from its return to the next await.  Everything between two awaits is    *)
(* atomic in asyncio; every await lets other requests, other replicas and  *)
(* the clock run.                                                          *)
(*                                                                         *)
(* Any awaited call may raise: before it had an effect (CallLost) or after *)
(* (Return's second disjunct).  A request may die with its process (Crash).*)
(* These are faults, and a run bounds how many there are.                  *)
(*                                                                         *)
(* The blob a request uploads is named after the request, as its name in   *)
(* the code, the phone's hash and the instant of the upload, is its own.   *)
(***************************************************************************)
EXTENDS StateRepo, FiniteSets

CONSTANTS
    Phones,
    Allowlist,       \* settings.twilio_allowlist
    Sender,          \* the From of each message
    Audio,           \* the messages that carry a voice note
    ContextTimeout,  \* settings.context_timeout_seconds
    BlobTTL,         \* age at which the container's lifecycle rule deletes
    MaxInFlight,     \* bound: requests of one phone in flight at once
    MaxFaults, MaxTime    \* bounds; Notes bounds the deliveries

ASSUME HandlerAssumption ==
    /\ Notes \subseteq Nat /\ IsFiniteSet(Notes)
    /\ Allowlist \subseteq Phones
    /\ Sender \in [Messages -> Phones]
    /\ Audio \subseteq Messages
    /\ ContextTimeout \in Nat \ {0}
    /\ BlobTTL \in Nat
    /\ MaxInFlight \in Nat \ {0}
    /\ MaxFaults \in Nat /\ MaxTime \in Nat

\* The deliveries, numbered in the order they arrive.
Requests == Notes

VARIABLES
    table,     \* phone -> its entity, or None
    blobs,     \* note -> when it was uploaded, or Absent when it is not stored
    clock,
    pc,        \* request -> the await it is suspended at
    msg,       \* request -> the message delivered
    path,      \* request -> the transition handler it runs
    snap,      \* request -> the entity it read last
    work,      \* request -> the staged note it discards or processes
    now,       \* request -> the clock at its dispatch
    pending,   \* request -> is an exception passing through its finally block?
    sent,      \* request -> the kinds of message it sent to the user
    faults,    \* faults so far
    accepted,  \* history: phone -> the SIDs recorded as new, in order
    staged     \* history: the notes some row has pointed to

effects == <<table, blobs, sent, accepted, staged>>
locals  == <<msg, path, snap, work, now>>
vars == <<effects, locals, clock, pc, pending, faults>>

Ended == {"done", "dropped", "failed", "crashed"}

\* The awaits inside the try block of _handle_awaiting_text.
TryBlock == {"download", "process", "transcript", "summary", "reply", "apology"}

\* The awaits of a request, in the order the code reaches them.
Awaits == {"check", "record", "load", "hint", "discard", "fetch", "transcode",
           "upload", "note_read", "note_write", "confirm", "reset_read",
           "reset_write", "cleanup"} \cup TryBlock

Labels == {"unsent", "dispatch"} \cup Awaits \cup Ended

Paths == {"gate", "idle_audio", "idle_text", "awaiting_audio", "awaiting_text"}

Replies == {"hint", "ack", "replaced", "transcript", "summary", "reply", "llm_error"}

InFlight(r) == pc[r] \in Awaits \cup {"dispatch"}

\* Variant: one partition for every phone.
PartitionKeyShared(r) == CHOOSE p \in Allowlist : TRUE

PartitionKey(r) == Sender[msg[r]]

------------------------------------------------------------------------------

Init ==
    /\ table = [p \in Phones |-> None]
    /\ blobs = [b \in Requests |-> Absent]
    /\ clock = 0
    /\ pc = [r \in Requests |-> "unsent"]
    /\ msg = [r \in Requests |-> None]
    /\ path = [r \in Requests |-> "gate"]
    /\ snap = [r \in Requests |-> None]
    /\ work = [r \in Requests |-> None]
    /\ now = [r \in Requests |-> 0]
    /\ pending = [r \in Requests |-> FALSE]
    /\ sent = [r \in Requests |-> {}]
    /\ faults = 0
    /\ accepted = [p \in Phones |-> << >>]
    /\ staged = {}

Goto(r, label) == pc' = [pc EXCEPT ![r] = label]

\* Fall through to the next await, with no exception.
Continue(r, label) == Goto(r, label) /\ UNCHANGED <<pending, faults>>

Fault == faults < MaxFaults /\ faults' = faults + 1

\* An exception leaves the handler, by way of the finally block from the try.
Raise(r) ==
    IF pc[r] \in TryBlock
    THEN Goto(r, "reset_read") /\ pending' = [pending EXCEPT ![r] = TRUE]
    ELSE Goto(r, "failed") /\ UNCHANGED pending

\* The awaited call had its effect: it returns, or its answer is lost.
Return(r, label) ==
    \/ Continue(r, label)
    \/ Fault /\ Raise(r)

Keep(r, entity) == snap' = [snap EXCEPT ![r] = entity]
Stored(b) == blobs[b] # Absent
Tell(r, kind) == sent' = [sent EXCEPT ![r] = @ \cup {kind}]

------------------------------------------------------------------------------
(* The gate: allowlist, then the SID ring *)

\* Twilio posts message m, for the first time or again, whether or not earlier
\* requests of the phone are still running.
Deliver(r, m) ==
    /\ pc[r] = "unsent"
    /\ \A q \in Requests : q < r => pc[q] # "unsent"
    /\ Cardinality({q \in Requests : InFlight(q) /\ Sender[msg[q]] = Sender[m]})
          < MaxInFlight
    /\ msg' = [msg EXCEPT ![r] = m]
    /\ Goto(r, IF Sender[m] \in Allowlist THEN "check" ELSE "dropped")
    /\ UNCHANGED <<effects, clock, path, snap, work, now, pending, faults>>

CheckSid(r) ==
    /\ pc[r] = "check"
    /\ LET entity == table[PartitionKey(r)] IN
       /\ Keep(r, entity)
       /\ Continue(r, IF IsKnownSid(entity, msg[r]) THEN "dropped" ELSE "record")
    /\ UNCHANGED <<effects, clock, msg, path, work, now>>

RecordSid(r) ==
    /\ pc[r] = "record"
    /\ table' = [table EXCEPT ![PartitionKey(r)] = RecordedEntity(snap[r], msg[r])]
    /\ accepted' = [accepted EXCEPT ![Sender[msg[r]]] = Append(@, msg[r])]
    /\ Return(r, "load")
    /\ UNCHANGED <<blobs, sent, staged, locals, clock>>

LoadState(r) ==
    /\ pc[r] = "load"
    /\ Keep(r, table[PartitionKey(r)])
    /\ Continue(r, "dispatch")
    /\ UNCHANGED <<effects, clock, msg, path, work, now>>

------------------------------------------------------------------------------
(* Dispatch on (state, kind), after the passive timeout *)

TimedOut(rec) ==
    /\ rec.state = Awaiting
    /\ rec.since # None
    /\ clock > rec.since + ContextTimeout

View(r) ==
    LET rec == EntityToRecord(snap[r]) IN
    IF TimedOut(rec)
    THEN [state |-> Idle, blob_url |-> None, since |-> None, sid_ring |-> rec.sid_ring]
    ELSE rec

Run(r, handler, label) ==
    /\ path' = [path EXCEPT ![r] = handler]
    /\ work' = [work EXCEPT ![r] = View(r).blob_url]
    /\ now' = [now EXCEPT ![r] = clock]
    /\ Continue(r, label)
    /\ UNCHANGED <<effects, clock, msg, snap>>

DispatchIdleAudio(r) ==
    /\ pc[r] = "dispatch" /\ View(r).state = Idle /\ msg[r] \in Audio
    /\ Run(r, "idle_audio", "fetch")

DispatchIdleText(r) ==
    /\ pc[r] = "dispatch" /\ View(r).state = Idle /\ msg[r] \notin Audio
    /\ Run(r, "idle_text", "hint")

\* Variant: the replaced note is not discarded.
DispatchAwaitingAudioKeepsOld(r) ==
    /\ pc[r] = "dispatch" /\ View(r).state = Awaiting /\ msg[r] \in Audio
    /\ Run(r, "awaiting_audio", "fetch")

DispatchAwaitingAudio(r) ==
    /\ pc[r] = "dispatch" /\ View(r).state = Awaiting /\ msg[r] \in Audio
    /\ Run(r, "awaiting_audio", IF View(r).blob_url = None THEN "fetch" ELSE "discard")

DispatchAwaitingText(r) ==
    /\ pc[r] = "dispatch" /\ View(r).state = Awaiting /\ msg[r] \notin Audio
    /\ Run(r, "awaiting_text", IF View(r).blob_url = None THEN "hint" ELSE "download")

SendHint(r) ==
    /\ pc[r] = "hint"
    /\ Tell(r, "hint")
    /\ Return(r, "done")
    /\ UNCHANGED <<table, blobs, accepted, staged, locals, clock>>

------------------------------------------------------------------------------
(* A voice note: discard the one it replaces, stage it, point the row at it *)

DiscardOld(r) ==
    /\ pc[r] = "discard"
    /\ blobs' = [blobs EXCEPT ![work[r]] = Absent]
    /\ Return(r, "fetch")
    /\ UNCHANGED <<table, sent, accepted, staged, locals, clock>>

\* Neither the media fetch nor ffmpeg touches anything shared.
FetchMedia(r) ==
    /\ pc[r] = "fetch"
    /\ Continue(r, "transcode")
    /\ UNCHANGED <<effects, locals, clock>>

Transcode(r) ==
    /\ pc[r] = "transcode"
    /\ Continue(r, "upload")
    /\ UNCHANGED <<effects, locals, clock>>

Upload(r) ==
    /\ pc[r] = "upload"
    /\ blobs' = [blobs EXCEPT ![r] = clock]
    /\ Return(r, "note_read")
    /\ UNCHANGED <<table, sent, accepted, staged, locals, clock>>

NoteRead(r) ==
    /\ pc[r] = "note_read"
    /\ Keep(r, table[PartitionKey(r)])
    /\ Continue(r, "note_write")
    /\ UNCHANGED <<effects, clock, msg, path, work, now>>

NoteWrite(r) ==
    /\ pc[r] = "note_write"
    /\ table' = [table EXCEPT ![PartitionKey(r)] =
                     SetStateEntity(snap[r], Awaiting, r, now[r])]
    /\ staged' = staged \cup {r}
    /\ Return(r, "confirm")
    /\ UNCHANGED <<blobs, sent, accepted, locals, clock>>

Confirm(r) ==
    /\ pc[r] = "confirm"
    /\ Tell(r, IF path[r] = "awaiting_audio" THEN "replaced" ELSE "ack")
    /\ Return(r, "done")
    /\ UNCHANGED <<table, blobs, accepted, staged, locals, clock>>

------------------------------------------------------------------------------
(* A text while a note waits: process the note, answer, then reset *)

Download(r) ==
    /\ pc[r] = "download" /\ Stored(work[r])
    /\ Continue(r, "process")
    /\ UNCHANGED <<effects, locals, clock>>

\* Variant: a missing blob is waited for.
DownloadWaits(r) ==
    /\ pc[r] = "download" /\ ~Stored(work[r])
    /\ UNCHANGED vars

\* BlobNotFoundError is not an AoaiError: only the finally block sees it.
DownloadFindsNothing(r) ==
    /\ pc[r] = "download" /\ ~Stored(work[r])
    /\ Raise(r)
    /\ UNCHANGED <<effects, locals, clock, faults>>

\* Variant: the results are dropped.
ProcessDropsResult(r) ==
    /\ pc[r] = "process"
    /\ Continue(r, "reset_read")
    /\ UNCHANGED <<effects, locals, clock>>

Process(r) ==
    /\ pc[r] = "process"
    /\ Continue(r, "transcript")
    /\ UNCHANGED <<effects, locals, clock>>

\* AoaiHttpError or AoaiParseError; an httpx error is CallLost.
ProcessRaisesAoaiError(r) ==
    /\ pc[r] = "process" /\ Fault
    /\ Goto(r, "apology")
    /\ UNCHANGED <<effects, locals, clock, pending>>

SendResult(r, kind, label) ==
    /\ pc[r] = kind
    /\ Tell(r, kind)
    /\ Return(r, label)
    /\ UNCHANGED <<table, blobs, accepted, staged, locals, clock>>

SendTranscript(r) == SendResult(r, "transcript", "summary")
SendSummary(r) == SendResult(r, "summary", "reply")
SendReply(r) == SendResult(r, "reply", "reset_read")

\* The except block: apologise, then re-raise into the finally block.
Apologise(r) ==
    /\ pc[r] = "apology"
    /\ Tell(r, "llm_error")
    /\ Raise(r)
    /\ Fault \/ UNCHANGED faults
    /\ UNCHANGED <<table, blobs, accepted, staged, locals, clock>>

\* Variant: the blob is deleted before the row is reset.
ResetReadAfterCleanup(r) ==
    /\ pc[r] = "reset_read"
    /\ Keep(r, table[PartitionKey(r)])
    /\ blobs' = [blobs EXCEPT ![work[r]] = Absent]
    /\ Continue(r, "reset_write")
    /\ UNCHANGED <<table, sent, accepted, staged, clock, msg, path, work, now>>

\* Variant: the row is reset and the blob deleted only on an exception.
ResetReadOnErrorOnly(r) ==
    /\ pc[r] = "reset_read"
    /\ Keep(r, table[PartitionKey(r)])
    /\ Continue(r, IF pending[r] THEN "reset_write" ELSE "done")
    /\ UNCHANGED <<effects, clock, msg, path, work, now>>

ResetRead(r) ==
    /\ pc[r] = "reset_read"
    /\ Keep(r, table[PartitionKey(r)])
    /\ Continue(r, "reset_write")
    /\ UNCHANGED <<effects, clock, msg, path, work, now>>

ResetWrite(r) ==
    /\ pc[r] = "reset_write"
    /\ table' = [table EXCEPT ![PartitionKey(r)] =
                     SetStateEntity(snap[r], Idle, None, None)]
    /\ Return(r, "cleanup")
    /\ UNCHANGED <<blobs, sent, accepted, staged, locals, clock>>

\* Variant: the blob deleted is the one the row points to.
CleanupCurrent(r) ==
    /\ pc[r] = "cleanup"
    /\ LET current == EntityToRecord(table[PartitionKey(r)]).blob_url IN
       blobs' = [b \in Requests |-> IF b = current THEN Absent ELSE blobs[b]]
    /\ Continue(r, "done")
    /\ UNCHANGED <<table, sent, accepted, staged, locals, clock>>

Cleanup(r) ==
    /\ pc[r] = "cleanup"
    /\ blobs' = [blobs EXCEPT ![work[r]] = Absent]
    /\ \/ Continue(r, IF pending[r] THEN "failed" ELSE "done")
       \/ Fault /\ Raise(r)
    /\ UNCHANGED <<table, sent, accepted, staged, locals, clock>>

------------------------------------------------------------------------------
(* Faults, time and the lifecycle rule *)

CallLost(r) ==
    /\ pc[r] \in Awaits
    /\ Fault /\ Raise(r)
    /\ UNCHANGED <<effects, locals, clock>>

\* The process dies: no finally block runs.
Crash(r) ==
    /\ InFlight(r)
    /\ Fault
    /\ Goto(r, "crashed")
    /\ UNCHANGED <<effects, locals, clock, pending>>

Tick ==
    /\ clock < MaxTime
    /\ clock' = clock + 1
    /\ UNCHANGED <<effects, locals, pc, pending, faults>>

\* Azure's lifecycle rule on the container.
Sweep(b) ==
    /\ Stored(b)
    /\ clock > blobs[b] + BlobTTL
    /\ blobs' = [blobs EXCEPT ![b] = Absent]
    /\ UNCHANGED <<table, sent, accepted, staged, locals, clock, pc, pending, faults>>

\* A step of the handler's own code.
Step(r) ==
    \/ CheckSid(r) \/ RecordSid(r) \/ LoadState(r)
    \/ DispatchIdleAudio(r) \/ DispatchIdleText(r)
    \/ DispatchAwaitingAudio(r) \/ DispatchAwaitingText(r) \/ SendHint(r)
    \/ DiscardOld(r) \/ FetchMedia(r) \/ Transcode(r) \/ Upload(r)
    \/ NoteRead(r) \/ NoteWrite(r) \/ Confirm(r)
    \/ Download(r) \/ DownloadFindsNothing(r)
    \/ Process(r) \/ ProcessRaisesAoaiError(r)
    \/ SendTranscript(r) \/ SendSummary(r) \/ SendReply(r) \/ Apologise(r)
    \/ ResetRead(r) \/ ResetWrite(r) \/ Cleanup(r)

\* Every delivery has been answered.
Finished == (\A r \in Requests : pc[r] \in Ended) /\ UNCHANGED vars

Next ==
    \/ \E r \in Requests :
          \/ \E m \in Messages : Deliver(r, m)
          \/ Step(r)
          \/ CallLost(r)
          \/ Crash(r)
    \/ Tick
    \/ \E b \in Requests : Sweep(b)
    \/ Finished

Spec == Init /\ [][Next]_vars

\* The event loop resumes every suspended request whose call has returned, and
\* every call returns or raises, since each has a timeout.
FairSpec == Spec /\ \A r \in Requests : WF_vars(Step(r))

------------------------------------------------------------------------------
(* Correctness *)

TypeOK ==
    /\ table \in [Phones -> Entity \cup {None}]
    /\ blobs \in [Requests -> Nat \cup {Absent}]
    /\ clock \in Nat
    /\ pc \in [Requests -> Labels]
    /\ msg \in [Requests -> Messages \cup {None}]
    /\ path \in [Requests -> Paths]
    /\ snap \in [Requests -> Entity \cup {None}]
    /\ work \in [Requests -> Notes \cup {None}]
    /\ now \in [Requests -> Nat]
    /\ pending \in [Requests -> BOOLEAN]
    /\ sent \in [Requests -> SUBSET Replies]
    /\ faults \in Nat
    /\ accepted \in [Phones -> Seq(Messages)]
    /\ staged \subseteq Notes

Row(p) == EntityToRecord(table[p])
NoteOf(p) == Row(p).blob_url

(* A row awaits context exactly when it holds a note and a start time,     *)
(* whatever interleaving of set_state and check_and_record_sid wrote it.   *)
RowCoherent == \A p \in Phones : Coherent(Row(p))

(* However the two read-modify-writes race, the ring of a row is within    *)
(* idempotency_ring_size and repeats no SID.                               *)
RingSound == \A p \in Phones : RingOK(Row(p).sid_ring)

(* A row only ever points to a voice note that an allowed phone sent and   *)
(* the handler staged for that phone, and a request only discards or       *)
(* processes such a note of its own phone, never its own upload.           *)
NoteProvenance ==
    /\ \A p \in Phones : NoteOf(p) # None =>
          /\ p \in Allowlist
          /\ NoteOf(p) \in staged
          /\ msg[NoteOf(p)] \in Audio
          /\ Sender[msg[NoteOf(p)]] = p
    /\ \A r \in Requests : work[r] # None =>
          /\ work[r] \in staged \ {r}
          /\ Sender[msg[work[r]]] = Sender[msg[r]]

(* A staged note disappears only through a request that found it in the    *)
(* row, or through the lifecycle rule: no interleaving deletes a note that *)
(* nobody has read.                                                        *)
DeletedOnlyByReader ==
    \A b \in staged :
        \/ Stored(b)
        \/ clock > now[b] + BlobTTL
        \/ \E r \in Requests : work[r] = b

(* The inductive invariant behind RowCoherent and RingSound: every entity   *)
(* in the table or in the hands of a request is coherent and its ring       *)
(* sound, and a request about to record a SID read a ring without it.       *)
EntityOK(e) == Coherent(EntityToRecord(e)) /\ RingOK(EntityToRecord(e).sid_ring)

RowInv ==
    /\ TypeOK
    /\ \A r \in Requests : pc[r] # "unsent" => msg[r] \in Messages
    /\ \A p \in Phones : EntityOK(table[p])
    /\ \A r \in Requests : EntityOK(snap[r])
    /\ \A r \in Requests : pc[r] = "record" => ~IsKnownSid(snap[r], msg[r])

------------------------------------------------------------------------------
(* Correctness while a phone has one request at a time: MaxInFlight = 1 *)

(* A SID recorded as new is not recorded again until RingSize others were: *)
(* a replayed webhook is absorbed for as long as the ring promises.        *)
ReplayAbsorbed ==
    \A p \in Phones : \A i, j \in DOMAIN accepted[p] :
        i < j /\ accepted[p][i] = accepted[p][j] => j - i > RingSize

(* Without faults no note is answered twice.                               *)
NoteAnsweredOnce ==
    faults = 0 =>
        \A r, q \in Requests :
            "transcript" \in sent[r] \cap sent[q] /\ work[r] = work[q] => r = q

(* A row that still awaits context points to a stored blob, unless it is   *)
(* being replaced or its replacement failed after the discard; provided    *)
(* that blobs are kept for as long as rows wait, ContextTimeout <= BlobTTL.*)
DanglingOnlyByReplacement ==
    \A p \in Phones :
        Row(p).state = Awaiting /\ ~TimedOut(Row(p)) =>
            \/ Stored(NoteOf(p))
            \/ \E r \in Requests : path[r] = "awaiting_audio" /\ work[r] = NoteOf(p)

(* Without faults a stored blob nobody points to once all is quiet is one  *)
(* that the passive timeout dropped: the code leaves it to the container's *)
(* lifecycle rule.                                                         *)
OrphanOnlyByTimeout ==
    faults = 0 /\ (\A r \in Requests : ~InFlight(r)) =>
        \A b \in Requests :
            Stored(b) => \/ \E p \in Phones : NoteOf(p) = b
                         \/ clock > now[b] + ContextTimeout

(* The row lets go of a note for a newer one, or as the request that took  *)
(* that very note writes its reset: by no other step of any request.       *)
NotesNotDropped ==
    [][\A p \in Phones :
          NoteOf(p) # None /\ NoteOf(p)' # NoteOf(p) =>
              \/ NoteOf(p)' # None /\ NoteOf(p)' > NoteOf(p)
              \/ \E r \in Requests :
                    /\ pc[r] = "reset_write" /\ pc'[r] # "reset_write"
                    /\ work[r] = NoteOf(p)]_vars

\* The abstract conversation, read off the rows and the history.
Conversation == INSTANCE Conversation WITH
    note <- [p \in Phones |-> NoteOf(p)], Window <- RingSize

(* The handler implements the conversation of module Conversation: replays *)
(* absorbed, a note current at most once.                                  *)
RefinesConversation == Conversation!Spec

\* The note a text asks about is gone: past the container's retention, or
\* discarded by a voice note that failed to take its place.
NoteGone(r) ==
    /\ path[r] = "awaiting_text" /\ work[r] # None
    /\ \/ clock > now[work[r]] + BlobTTL
       \/ \E q \in Requests : path[q] = "awaiting_audio" /\ work[q] = work[r]

(* Every message the gate lets through is answered with at least one       *)
(* WhatsApp message, whatever failed before it, unless from then on a call *)
(* fails or the process dies, or the note it asks about is gone.           *)
AcceptedIsAnswered ==
    \A r \in Requests : \A n \in 0 .. MaxFaults :
        pc[r] = "load" /\ faults = n ~> sent[r] # {} \/ faults > n \/ NoteGone(r)

(* Every delivery ends, by its answer or the crash of its process.         *)
DeliveryEnds == \A r \in Requests : pc[r] = "check" ~> pc[r] \in Ended

------------------------------------------------------------------------------
(* What the documentation says and the code does not do *)

(* handlers.py on the discard of a replaced note: "Errors are non-fatal".   *)
DiscardErrorsAreNotFatal ==
    [][\A r \in Requests :
          pc[r] = "discard" /\ pc'[r] # pc[r] => pc'[r] \in {"fetch", "crashed"}]_vars

(* PLAN.md: "The handler catches TranscodeError and sends a user-facing     *)
(* message".                                                                *)
TranscodeErrorIsTold ==
    [][\A r \in Requests :
          pc[r] = "transcode" /\ pc'[r] = "failed" => sent'[r] # {}]_vars
=============================================================================
