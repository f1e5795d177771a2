--------------------------- MODULE SerialNoteProofs ---------------------------
(* What becomes of the notes while a phone has one request at a time: none   *)
(* is dropped, answered twice, left dangling or orphaned but as the code     *)
(* means it.                                                                 *)
EXTENDS SerialProofs

------------------------------------------------------------------------------
(* The inductive invariant *)

\* The awaits at which a request has the row's note to answer.
Answering == TryBlock \cup {"reset_read", "reset_write"}

\* The awaits between the transcript sent and the row reset.
Answered == {"summary", "reply", "reset_read", "reset_write"}

\* The row a request is dispatched on is still the phone's.
FreshAtDispatch ==
    \A r \in Requests : pc[r] = "dispatch" => snap[r] = table[PartitionKey(r)]

\* Deliveries start in order, and the one in flight is its phone's last.
InOrder ==
    /\ \A q, r \in Requests : q < r /\ pc[r] # "unsent" => pc[q] # "unsent"
    /\ \A q, r \in Requests :
          InFlight(r) /\ pc[q] # "unsent" /\ PartitionKey(q) = PartitionKey(r) => q <= r

\* A row awaits context since its note's request was dispatched.
SinceItsDispatch ==
    \A p \in Phones : NoteOf(p) # None => Row(p).since = now[NoteOf(p)]

\* A request on this path has the note its phone's row points to.
HasRowNote(r, handler) ==
    /\ path[r] = handler
    /\ work[r] # None /\ NoteOf(PartitionKey(r)) = work[r]

HoldsRowNote ==
    \A r \in Requests :
        /\ pc[r] \in Answering => HasRowNote(r, "awaiting_text")
        /\ pc[r] = "discard" => HasRowNote(r, "awaiting_audio")
        /\ pc[r] = "cleanup" => NoteOf(PartitionKey(r)) = None

\* Nothing is lost with this note: it is gone already, or its time is over.
Spent(b) == ~Stored(b) \/ clock > now[b] + ContextTimeout

\* A new note is staged only over none or a spent one.
ReplacesSpent ==
    \A r \in Requests :
        pc[r] \in Staging /\ NoteOf(PartitionKey(r)) # None =>
            Spent(NoteOf(PartitionKey(r)))

\* The note of a row is stored, past its retention, or replaced.
Backed(b) ==
    \/ Stored(b)
    \/ clock > now[b] + BlobTTL
    \/ \E r \in Requests : path[r] = "awaiting_audio" /\ work[r] = b

NotesBacked == \A p \in Phones : NoteOf(p) # None => Backed(NoteOf(p))

\* Without faults a request that sent the transcript is about to reset the row,
\* or the row has let go of its note.
AnsweredLetsGo ==
    faults = 0 =>
        \A r \in Requests : "transcript" \in sent[r] =>
            /\ work[r] # None
            /\ pc[r] \in Answered \/ NoteOf(PartitionKey(r)) # work[r]

\* Somebody still has the blob b: the row, its request, one about to delete it.
Accounted(b) ==
    \/ NoteOf(PartitionKey(b)) = b
    \/ clock > now[b] + ContextTimeout
    \/ pc[b] \in Uploaded
    \/ \E r \in Requests : pc[r] = "cleanup" /\ work[r] = b

StoredAccounted == faults = 0 => \A b \in Requests : Stored(b) => Accounted(b)

SerialNoteInv ==
    /\ FreshAtDispatch /\ InOrder /\ SinceItsDispatch /\ HoldsRowNote
    /\ ReplacesSpent /\ NotesBacked /\ AnsweredLetsGo /\ StoredAccounted
    /\ NoteAnsweredOnce

\* All that is known of a reachable state.
SerialState == SerialInv /\ NoteInv /\ SerialNoteInv

------------------------------------------------------------------------------
(* Where a step takes its request *)

\* From an await to the next, when the call returns or finds nothing.
Way(from, to) ==
    \/ from = "check" /\ to \in {"dropped", "record"}
    \/ from = "record" /\ to = "load"
    \/ from = "load" /\ to = "dispatch"
    \/ from = "dispatch" /\ to \in {"fetch", "hint", "discard", "download"}
    \/ from = "hint" /\ to = "done"
    \/ from = "discard" /\ to = "fetch"
    \/ from = "fetch" /\ to = "transcode"
    \/ from = "transcode" /\ to = "upload"
    \/ from = "upload" /\ to = "note_read"
    \/ from = "note_read" /\ to = "note_write"
    \/ from = "note_write" /\ to = "confirm"
    \/ from = "confirm" /\ to = "done"
    \/ from = "download" /\ to \in {"process", "reset_read"}
    \/ from = "process" /\ to = "transcript"
    \/ from = "transcript" /\ to = "summary"
    \/ from = "summary" /\ to = "reply"
    \/ from \in {"reply", "apology"} /\ to = "reset_read"
    \/ from = "reset_read" /\ to = "reset_write"
    \/ from = "reset_write" /\ to = "cleanup"
    \/ from = "cleanup" /\ to \in {"done", "failed"}

\* When it raises or the process dies.
FaultWay(from, to) ==
    \/ from \in TryBlock /\ to = "reset_read"
    \/ from \notin TryBlock /\ to = "failed"
    \/ from = "process" /\ to = "apology"
    \/ to = "crashed"

Flow(r) ==
    \/ UNCHANGED faults /\ Way(pc[r], pc'[r])
    \/ faults' = faults + 1 /\ FaultWay(pc[r], pc'[r])

LEMMA GotoGoes ==
    ASSUME RowInv, NEW r \in Requests, NEW l, Goto(r, l)
    PROVE  pc'[r] = l
  BY DEF Goto, RowInv, TypeOK

LEMMA ContinueFlow ==
    ASSUME RowInv, NEW r \in Requests, NEW l, Continue(r, l), Way(pc[r], l)
    PROVE  Flow(r)
  BY GotoGoes DEF Continue, Flow

LEMMA FaultFlow ==
    ASSUME RowInv, NEW r \in Requests, Fault, Raise(r)
    PROVE  Flow(r)
  <1>1. pc'[r] = IF pc[r] \in TryBlock THEN "reset_read" ELSE "failed"
    BY GotoGoes DEF Raise
  <1> QED BY <1>1 DEF Fault, Flow, FaultWay

LEMMA ReturnFlow ==
    ASSUME RowInv, NEW r \in Requests, NEW l, Return(r, l), Way(pc[r], l)
    PROVE  Flow(r)
  BY ContinueFlow, FaultFlow DEF Return

(* Every step of a request goes on the way the code has, or a fault's.      *)
LEMMA StepFlow ==
    ASSUME RowInv, NEW r \in Requests, Step(r) \/ CallLost(r) \/ Crash(r)
    PROVE  Flow(r)
  <1>1. CASE CheckSid(r) \/ LoadState(r) \/ NoteRead(r) \/ ResetRead(r)
    <2>1. \E l : Continue(r, l) /\ Way(pc[r], l)
      BY <1>1 DEF CheckSid, LoadState, NoteRead, ResetRead, Way
    <2> QED BY <2>1, ContinueFlow
  <1>2. CASE DispatchIdleAudio(r) \/ DispatchIdleText(r)
                \/ DispatchAwaitingAudio(r) \/ DispatchAwaitingText(r)
    <2>1. \E l : Continue(r, l) /\ Way(pc[r], l)
      BY <1>2 DEF DispatchIdleAudio, DispatchIdleText, DispatchAwaitingAudio,
                  DispatchAwaitingText, Run, Way
    <2> QED BY <2>1, ContinueFlow
  <1>3. CASE RecordSid(r) \/ SendHint(r) \/ DiscardOld(r) \/ Upload(r)
                \/ NoteWrite(r) \/ Confirm(r) \/ ResetWrite(r)
    <2>1. \E l : Return(r, l) /\ Way(pc[r], l)
      BY <1>3 DEF RecordSid, SendHint, DiscardOld, Upload, NoteWrite, Confirm,
                  ResetWrite, Way
    <2> QED BY <2>1, ReturnFlow
  <1>4. CASE SendTranscript(r) \/ SendSummary(r) \/ SendReply(r)
    <2>1. \E l : Return(r, l) /\ Way(pc[r], l)
      BY <1>4 DEF SendTranscript, SendSummary, SendReply, SendResult, Way
    <2> QED BY <2>1, ReturnFlow
  <1>5. CASE FetchMedia(r) \/ Transcode(r) \/ Download(r) \/ Process(r)
    <2>1. \E l : Continue(r, l) /\ Way(pc[r], l)
      BY <1>5 DEF FetchMedia, Transcode, Download, Process, Way
    <2> QED BY <2>1, ContinueFlow
  <1>6. CASE DownloadFindsNothing(r) \/ Apologise(r)
    <2>1. /\ pc[r] \in {"download", "apology"} /\ Goto(r, "reset_read")
          /\ Fault \/ UNCHANGED faults
      BY <1>6 DEF DownloadFindsNothing, Apologise, Raise, TryBlock
    <2> QED BY <2>1, GotoGoes DEF Flow, Way, FaultWay, Fault, TryBlock
  <1>7. CASE Cleanup(r)
    <2>1. \/ Fault /\ Raise(r)
          \/ \E l : Continue(r, l) /\ Way(pc[r], l)
      BY <1>7 DEF Cleanup, Way
    <2> QED BY <2>1, FaultFlow, ContinueFlow
  <1>8. CASE ProcessRaisesAoaiError(r) \/ Crash(r)
    BY <1>8, GotoGoes DEF ProcessRaisesAoaiError, Crash, Flow, FaultWay, Fault
  <1>9. CASE CallLost(r)
    BY <1>9, FaultFlow DEF CallLost
  <1> QED BY <1>1, <1>2, <1>3, <1>4, <1>5, <1>6, <1>7, <1>8, <1>9 DEF Step

------------------------------------------------------------------------------
(* What a step does to the notes *)

SameNotes ==
    \A p \in Phones : NoteOf(p)' = NoteOf(p) /\ Row(p)'.since = Row(p).since

\* The row of the request's phone gets this note and time, the others stay.
PutsNote(r, b, t) ==
    \A p \in Phones :
        IF p = PartitionKey(r)
        THEN NoteOf(p)' = b /\ Row(p)'.since = t
        ELSE NoteOf(p)' = NoteOf(p) /\ Row(p)'.since = Row(p).since

\* The dispatch: the request takes the note the row points to, or none.
Takes(r) ==
    /\ work' = [work EXCEPT ![r] = View(r).blob_url]
    /\ now' = [now EXCEPT ![r] = clock]
    /\ \E handler : path' = [path EXCEPT ![r] = handler]
    /\ pc'[r] = "download" => path'[r] = "awaiting_text" /\ View(r).blob_url # None
    /\ pc'[r] = "discard" => path'[r] = "awaiting_audio" /\ View(r).blob_url # None
    /\ pc'[r] = "fetch" => View(r).state = Idle \/ View(r).blob_url = None

NoteChange(r) ==
    \/ SameNotes /\ (UNCHANGED faults => pc[r] \notin {"note_write", "reset_write"})
    \/ pc[r] = "note_write" /\ PutsNote(r, r, now[r])
    \/ pc[r] = "reset_write" /\ PutsNote(r, None, None)

BlobChange(r) ==
    \/ UNCHANGED blobs /\ (UNCHANGED faults => pc[r] \notin {"discard", "upload", "cleanup"})
    \/ pc[r] = "upload" /\ blobs' = [blobs EXCEPT ![r] = clock]
    \/ pc[r] \in {"discard", "cleanup"} /\ blobs' = [blobs EXCEPT ![work[r]] = Absent]

LocalChange(r) ==
    \/ UNCHANGED <<path, work, now>> /\ (UNCHANGED faults => pc[r] # "dispatch")
    \/ pc[r] = "dispatch" /\ Takes(r)

SentChange(r) ==
    \A q \in Requests :
        "transcript" \in sent'[q] =>
            "transcript" \in sent[q] \/ (q = r /\ pc[r] = "transcript")

NoteEffect(r) ==
    /\ Flow(r) /\ Effect(r, pc'[r])
    /\ NoteChange(r) /\ BlobChange(r) /\ LocalChange(r) /\ SentChange(r)
    /\ pc'[r] = "dispatch" => snap'[r] = table'[PartitionKey(r)]

(* A table left alone, or a row rewritten around the note it read.          *)
LEMMA SameTable == UNCHANGED table => SameNotes
  BY DEF SameNotes, NoteOf, Row

LEMMA RewrittenRow ==
    ASSUME RowInv, NEW r \in Requests, pc[r] # "unsent", NEW e,
           table' = [table EXCEPT ![PartitionKey(r)] = e]
    PROVE  PutsNote(r, NoteIn(e), EntityToRecord(e).since)
  <1>1. \A p \in Phones : table'[p] = IF p = PartitionKey(r) THEN e ELSE table[p]
    BY DEF RowInv, TypeOK
  <1> QED BY <1>1 DEF PutsNote, NoteOf, Row, NoteIn

(* The calls that write neither row nor container.                          *)
LEMMA QuietChange ==
    ASSUME RowInv, NEW r \in Requests,
           \/ SendHint(r) \/ FetchMedia(r) \/ Transcode(r) \/ Confirm(r)
           \/ Download(r) \/ DownloadFindsNothing(r) \/ Process(r)
           \/ ProcessRaisesAoaiError(r) \/ SendTranscript(r) \/ SendSummary(r)
           \/ SendReply(r) \/ Apologise(r) \/ CallLost(r) \/ Crash(r)
    PROVE  /\ UNCHANGED <<table, snap>>
           /\ NoteChange(r) /\ BlobChange(r) /\ LocalChange(r) /\ SentChange(r)
  <1>1. UNCHANGED <<table, snap, blobs, path, work, now>>
    BY DEF SendHint, FetchMedia, Transcode, Confirm, Download, DownloadFindsNothing,
           Process, ProcessRaisesAoaiError, SendTranscript, SendSummary, SendReply,
           SendResult, Apologise, CallLost, Crash, effects, locals
  <1>2. UNCHANGED faults =>
           pc[r] \notin {"note_write", "reset_write", "discard", "upload", "cleanup",
                         "dispatch"}
    <2>1. CASE CallLost(r) \/ Crash(r) \/ ProcessRaisesAoaiError(r)
      BY <2>1 DEF CallLost, Crash, ProcessRaisesAoaiError, Fault, RowInv, TypeOK
    <2>2. CASE \/ SendHint(r) \/ FetchMedia(r) \/ Transcode(r) \/ Confirm(r)
               \/ Download(r) \/ DownloadFindsNothing(r) \/ Process(r)
      BY <2>2 DEF SendHint, FetchMedia, Transcode, Confirm, Download,
                  DownloadFindsNothing, Process
    <2>3. CASE \/ SendTranscript(r) \/ SendSummary(r) \/ SendReply(r) \/ Apologise(r)
      BY <2>3 DEF SendTranscript, SendSummary, SendReply, SendResult, Apologise
    <2> QED BY <2>1, <2>2, <2>3
  <1>3. SentChange(r)
    <2>1. CASE UNCHANGED sent
      BY <2>1 DEF SentChange
    <2>2. CASE ~UNCHANGED sent
      <3>1. PICK kind : Tell(r, kind) /\ (kind = "transcript" => pc[r] = "transcript")
        BY <2>2 DEF SendHint, FetchMedia, Transcode, Confirm, Download,
           DownloadFindsNothing, Process, ProcessRaisesAoaiError, SendTranscript,
           SendSummary, SendReply, SendResult, Apologise, CallLost, Crash, effects
      <3> QED BY <3>1 DEF Tell, SentChange, RowInv, TypeOK
    <2> QED BY <2>1, <2>2
  <1> QED BY <1>1, <1>2, <1>3, SameTable DEF NoteChange, BlobChange, LocalChange

(* The calls that read the row, and those that reach the container.         *)
LEMMA ReadChange ==
    ASSUME RowInv, NEW r \in Requests,
           \/ CheckSid(r) \/ LoadState(r) \/ NoteRead(r) \/ ResetRead(r)
           \/ DiscardOld(r) \/ Upload(r) \/ Cleanup(r)
    PROVE  /\ NoteChange(r) /\ BlobChange(r) /\ LocalChange(r) /\ SentChange(r)
           /\ pc'[r] = "dispatch" => snap'[r] = table'[PartitionKey(r)]
  <1>1. UNCHANGED <<table, sent, path, work, now>>
    BY DEF CheckSid, LoadState, NoteRead, ResetRead, DiscardOld, Upload, Cleanup,
           effects, locals
  <1>2. pc[r] \notin {"note_write", "reset_write", "dispatch"}
    BY DEF CheckSid, LoadState, NoteRead, ResetRead, DiscardOld, Upload, Cleanup
  <1>3. BlobChange(r)
    BY DEF CheckSid, LoadState, NoteRead, ResetRead, DiscardOld, Upload, Cleanup,
           effects, BlobChange
  <1>4. pc'[r] = "dispatch" => snap'[r] = table'[PartitionKey(r)]
    <2>1. Flow(r)
      BY StepFlow DEF Step
    <2>2. pc'[r] = "dispatch" => pc[r] = "load"
      BY <2>1 DEF Flow, Way, FaultWay
    <2>3. pc[r] = "load" => snap' = [snap EXCEPT ![r] = table[PartitionKey(r)]]
      BY DEF CheckSid, LoadState, NoteRead, ResetRead, DiscardOld, Upload, Cleanup, Keep
    <2> QED BY <1>1, <2>2, <2>3 DEF RowInv, TypeOK
  <1> QED BY <1>1, <1>2, <1>3, <1>4, SameTable DEF NoteChange, LocalChange, SentChange

(* The dispatch.                                                            *)
LEMMA DispatchChange ==
    ASSUME RowInv, NEW r \in Requests,
           DispatchIdleAudio(r) \/ DispatchIdleText(r)
              \/ DispatchAwaitingAudio(r) \/ DispatchAwaitingText(r)
    PROVE  /\ pc'[r] # "dispatch"
           /\ NoteChange(r) /\ BlobChange(r) /\ LocalChange(r) /\ SentChange(r)
  <1>1. PICK handler, l :
           /\ pc[r] = "dispatch" /\ Run(r, handler, l)
           /\ l \in {"fetch", "hint", "discard", "download"}
           /\ l = "download" => handler = "awaiting_text" /\ View(r).blob_url # None
           /\ l = "discard" => handler = "awaiting_audio" /\ View(r).blob_url # None
           /\ l = "fetch" => View(r).state = Idle \/ View(r).blob_url = None
    BY DEF DispatchIdleAudio, DispatchIdleText, DispatchAwaitingAudio,
           DispatchAwaitingText
  <1>2. /\ UNCHANGED <<table, blobs, sent>>
        /\ work' = [work EXCEPT ![r] = View(r).blob_url]
        /\ now' = [now EXCEPT ![r] = clock]
        /\ path' = [path EXCEPT ![r] = handler] /\ path'[r] = handler
    BY <1>1 DEF Run, effects, RowInv, TypeOK
  <1>3. pc'[r] = l
    BY <1>1, GotoGoes DEF Run, Continue
  <1>4. Takes(r)
    BY <1>1, <1>2, <1>3 DEF Takes
  <1> QED BY <1>1, <1>2, <1>3, <1>4, SameTable
          DEF NoteChange, BlobChange, LocalChange, SentChange

(* The calls that write the row.                                            *)
LEMMA WriteChange ==
    ASSUME RowInv, NEW r \in Requests, RecordSid(r) \/ NoteWrite(r) \/ ResetWrite(r),
           NoteIn(table[PartitionKey(r)]) = NoteIn(snap[r]),
           EntityToRecord(table[PartitionKey(r)]).since = EntityToRecord(snap[r]).since
    PROVE  NoteChange(r) /\ BlobChange(r) /\ LocalChange(r) /\ SentChange(r)
  <1>1. /\ UNCHANGED <<blobs, sent, path, work, now>>
        /\ pc[r] \in {"record", "note_write", "reset_write"}
    BY DEF RecordSid, NoteWrite, ResetWrite, locals
  <1>2. /\ snap[r] \in Entity \cup {None} /\ EntityOK(snap[r])
        /\ r \in Notes /\ now[r] \in Nat /\ Idle \in States /\ Awaiting \in States
    BY DEF RowInv, TypeOK, Requests, States
  <1>3. NoteChange(r)
    <2>1. CASE RecordSid(r)
      <3> DEFINE e == RecordedEntity(snap[r], msg[r])
      <3>1. /\ pc[r] = "record" /\ table' = [table EXCEPT ![PartitionKey(r)] = e]
            /\ msg[r] \in Messages /\ ~IsKnownSid(snap[r], msg[r])
        BY <2>1 DEF RecordSid, RowInv
      <3>2. /\ NoteIn(e) = NoteIn(snap[r])
            /\ EntityToRecord(e).since = EntityToRecord(snap[r]).since
        BY <1>2, <3>1, RecordedEntityFacts DEF NoteIn, EntityOK
      <3> HIDE DEF e
      <3>3. PutsNote(r, NoteIn(e), EntityToRecord(e).since)
        BY <3>1, RewrittenRow
      <3>4. SameNotes
        BY <3>2, <3>3 DEF SameNotes, PutsNote, NoteOf, Row, NoteIn
      <3> QED BY <3>1, <3>4 DEF NoteChange
    <2>2. CASE NoteWrite(r)
      <3> DEFINE e == SetStateEntity(snap[r], Awaiting, r, now[r])
      <3>1. pc[r] = "note_write" /\ table' = [table EXCEPT ![PartitionKey(r)] = e]
        BY <2>2 DEF NoteWrite
      <3>2. NoteIn(e) = r /\ EntityToRecord(e).since = now[r]
        BY <1>2, SetStateEntityFacts DEF NoteIn
      <3> HIDE DEF e
      <3> QED BY <3>1, <3>2, RewrittenRow DEF NoteChange
    <2>3. CASE ResetWrite(r)
      <3> DEFINE e == SetStateEntity(snap[r], Idle, None, None)
      <3>1. pc[r] = "reset_write" /\ table' = [table EXCEPT ![PartitionKey(r)] = e]
        BY <2>3 DEF ResetWrite
      <3>2. EntityToRecord(e) = [state |-> Idle, blob_url |-> None, since |-> None,
                                 sid_ring |-> EntityToRecord(snap[r]).sid_ring]
        BY <1>2, SetStateEntityFacts
      <3> HIDE DEF e
      <3>3. NoteIn(e) = None /\ EntityToRecord(e).since = None
        BY <3>2 DEF NoteIn
      <3> QED BY <3>1, <3>3, RewrittenRow DEF NoteChange
    <2> QED BY <2>1, <2>2, <2>3
  <1> QED BY <1>1, <1>3 DEF BlobChange, LocalChange, SentChange

LEMMA StepNotes ==
    ASSUME SerialInv, NEW r \in Requests, Step(r) \/ CallLost(r) \/ Crash(r)
    PROVE  NoteEffect(r)
  <1>1. RowInv /\ SnapshotsCurrent
    BY DEF SerialInv
  <1>2. Flow(r)
    BY <1>1, StepFlow
  <1>3. Effect(r, pc'[r])
    <2>1. PICK l : Effect(r, l)
      BY <1>1, StepEffect
    <2>2. pc'[r] = l
      BY <1>1, <2>1, GotoGoes DEF Effect, Goes
    <2> QED BY <2>1, <2>2
  <1>4. pc'[r] = "dispatch" => pc[r] = "load"
    BY <1>2 DEF Flow, Way, FaultWay
  <1>5. CASE \/ SendHint(r) \/ FetchMedia(r) \/ Transcode(r) \/ Confirm(r)
             \/ Download(r) \/ DownloadFindsNothing(r) \/ Process(r)
             \/ ProcessRaisesAoaiError(r) \/ SendTranscript(r) \/ SendSummary(r)
             \/ SendReply(r) \/ Apologise(r) \/ CallLost(r) \/ Crash(r)
    <2>1. pc'[r] # "dispatch"
      <3>1. CASE CallLost(r) \/ Crash(r)
        <4>1. faults' = faults + 1 /\ faults \in Nat
          BY <1>1, <3>1 DEF CallLost, Crash, Fault, RowInv, TypeOK
        <4> QED BY <1>2, <4>1 DEF Flow, FaultWay
      <3>2. CASE ~(CallLost(r) \/ Crash(r))
        <4>1. pc[r] # "load"
          BY <1>5, <3>2 DEF SendHint, FetchMedia, Transcode, Confirm, Download,
             DownloadFindsNothing, Process, ProcessRaisesAoaiError, SendTranscript,
             SendSummary, SendReply, SendResult, Apologise
        <4> QED BY <1>4, <4>1
      <3> QED BY <3>1, <3>2
    <2> QED BY <1>1, <1>2, <1>3, <1>5, <2>1, QuietChange DEF NoteEffect
  <1>6. CASE \/ CheckSid(r) \/ LoadState(r) \/ NoteRead(r) \/ ResetRead(r)
             \/ DiscardOld(r) \/ Upload(r) \/ Cleanup(r)
    BY <1>1, <1>2, <1>3, <1>6, ReadChange DEF NoteEffect
  <1>7. CASE DispatchIdleAudio(r) \/ DispatchIdleText(r)
                \/ DispatchAwaitingAudio(r) \/ DispatchAwaitingText(r)
    BY <1>1, <1>2, <1>3, <1>7, DispatchChange DEF NoteEffect
  <1>8. CASE RecordSid(r) \/ NoteWrite(r) \/ ResetWrite(r)
    <2>1. pc[r] \in Writing /\ pc[r] # "load"
      BY <1>8 DEF RecordSid, NoteWrite, ResetWrite, Writing
    <2>2. snap[r] = table[PartitionKey(r)]
      BY <1>1, <2>1 DEF SnapshotsCurrent
    <2> QED BY <1>1, <1>2, <1>3, <1>4, <1>8, <2>1, <2>2, WriteChange DEF NoteEffect
  <1> QED BY <1>5, <1>6, <1>7, <1>8 DEF Step

------------------------------------------------------------------------------
(* The step keeps the invariant, one conjunct at a time *)

(* The step is of one request; the others of its phone have ended or not    *)
(* begun.                                                                   *)
LEMMA StepsAlone ==
    ASSUME SerialState, NEW r \in Requests, NoteEffect(r)
    PROVE  /\ InFlight(r) /\ pc[r] # "unsent" /\ PartitionKey(r) \in Phones
           /\ UNCHANGED <<msg, clock>>
           /\ \A q \in Requests \ {r} :
                 /\ pc'[q] = pc[q] /\ path'[q] = path[q] /\ work'[q] = work[q]
                 /\ now'[q] = now[q] /\ snap'[q] = snap[q]
                 /\ InFlight(q) => PartitionKey(q) # PartitionKey(r)
           /\ pc[r] # "dispatch" => UNCHANGED <<path, work, now>>
           /\ \A q \in Requests : pc'[q] = "unsent" <=> pc[q] = "unsent"
           /\ InFlight(r)' => InFlight(r)
  <1>1. Goes(r, pc'[r]) /\ UNCHANGED clock /\ SnapEffect(r) /\ LocalChange(r)
    BY DEF NoteEffect, Effect
  <1>2. RowInv /\ OneAtATime
    BY DEF SerialState, SerialInv
  <1>3. \A q \in Requests \ {r} :
           /\ path'[q] = path[q] /\ work'[q] = work[q]
           /\ now'[q] = now[q] /\ snap'[q] = snap[q]
    BY <1>1, <1>2 DEF SnapEffect, LocalChange, Takes, RowInv, TypeOK
  <1>4. \A q \in Requests \ {r} : InFlight(q) => PartitionKey(q) # PartitionKey(r)
    BY <1>1, <1>2 DEF OneAtATime, PartitionKey, Goes
  <1> QED BY <1>1, <1>2, <1>3, <1>4, GoesAlone DEF Goes, LocalChange

(* The notes of the rows after the step.                                    *)
LEMMA StepRows ==
    ASSUME SerialState, NEW r \in Requests, NoteEffect(r), NEW p \in Phones
    PROVE  /\ \/ NoteOf(p)' = NoteOf(p) /\ Row(p)'.since = Row(p).since
              \/ /\ p = PartitionKey(r) /\ pc[r] = "note_write"
                 /\ NoteOf(p)' = r /\ Row(p)'.since = now[r]
              \/ p = PartitionKey(r) /\ pc[r] = "reset_write" /\ NoteOf(p)' = None
           /\ p = PartitionKey(r) /\ UNCHANGED faults =>
                 /\ pc[r] = "note_write" => NoteOf(p)' = r
                 /\ pc[r] = "reset_write" => NoteOf(p)' = None
           /\ \A q \in Requests :
                 p = PartitionKey(q) => NoteOf(PartitionKey(q))' = NoteOf(p)'
  <1>1. NoteChange(r)
    BY DEF NoteEffect
  <1>2. \A q \in Requests :
           p = PartitionKey(q) => NoteOf(PartitionKey(q))' = NoteOf(p)'
    BY StepsAlone DEF NoteOf, Row, PartitionKey
  <1> QED BY <1>1, <1>2 DEF NoteChange, SameNotes, PutsNote

(* A note of a row or of a request is of the same phone, and staged.        *)
LEMMA RowNoteStaged ==
    ASSUME NoteInv, NEW p \in Phones, NoteOf(p) # None
    PROVE  /\ NoteOf(p) \in Requests /\ NoteOf(p) \in staged
           /\ pc[NoteOf(p)] \notin BeforeNote /\ PartitionKey(NoteOf(p)) = p
  <1>1. Owned(NoteOf(p), p) /\ staged \subseteq Requests
    BY DEF NoteInv, ProvenanceInv, NotesOwned, RowInv, TypeOK, Requests
  <1> QED BY <1>1 DEF NoteInv, ProvenanceInv, OwnNoteUnstaged, Owned, PartitionKey

LEMMA WorkStaged ==
    ASSUME NoteInv, NEW r \in Requests, work[r] # None
    PROVE  /\ work[r] \in Requests /\ work[r] \in staged
           /\ pc[work[r]] \notin BeforeNote
           /\ PartitionKey(work[r]) = PartitionKey(r)
           /\ pc[r] \notin BeforeDispatch
  <1>1. pc[r] \notin BeforeDispatch
    BY DEF NoteInv, ProvenanceInv, StagesOK
  <1>2. Owned(work[r], PartitionKey(r)) /\ staged \subseteq Requests
    BY <1>1 DEF NoteInv, ProvenanceInv, NotesOwned, RowInv, TypeOK, Requests, BeforeDispatch
  <1> QED BY <1>1, <1>2 DEF NoteInv, ProvenanceInv, OwnNoteUnstaged, Owned, PartitionKey

LEMMA StepFresh ==
    ASSUME SerialState, NEW r \in Requests, NoteEffect(r)
    PROVE  FreshAtDispatch'
  <1> SUFFICES ASSUME NEW q \in Requests, pc'[q] = "dispatch"
               PROVE  snap'[q] = table'[PartitionKey(q)']
    BY DEF FreshAtDispatch
  <1>1. PartitionKey(q)' = PartitionKey(q)
    BY StepsAlone DEF PartitionKey
  <1>2. CASE q = r
    BY <1>1, <1>2 DEF NoteEffect
  <1>3. CASE q # r
    <2>1. pc[q] = "dispatch" /\ snap'[q] = snap[q] /\ PartitionKey(q) # PartitionKey(r)
      BY <1>3, StepsAlone DEF InFlight
    <2>2. table'[PartitionKey(q)] = table[PartitionKey(q)]
      <3>1. PartitionKey(q) \in Phones
        BY <2>1, Started DEF SerialState, SerialInv
      <3>2. table \in [Phones -> Entity \cup {None}]
        BY DEF SerialState, SerialInv, RowInv, TypeOK
      <3>3. TableEffect(r)
        BY DEF NoteEffect, Effect
      <3> QED BY <2>1, <3>1, <3>2, <3>3 DEF TableEffect
    <2> QED BY <1>1, <2>1, <2>2 DEF SerialState, SerialNoteInv, FreshAtDispatch
  <1> QED BY <1>2, <1>3

LEMMA StepInOrder ==
    ASSUME SerialState, NEW r \in Requests, NoteEffect(r)
    PROVE  InOrder'
  <1>1. \A q \in Requests : /\ pc'[q] = "unsent" <=> pc[q] = "unsent"
                            /\ PartitionKey(q)' = PartitionKey(q)
                            /\ InFlight(q)' => InFlight(q)
    BY StepsAlone DEF PartitionKey, InFlight
  <1> QED BY <1>1 DEF SerialState, SerialNoteInv, InOrder

LEMMA StepSince ==
    ASSUME SerialState, NEW r \in Requests, NoteEffect(r)
    PROVE  SinceItsDispatch'
  <1> SUFFICES ASSUME NEW p \in Phones, NoteOf(p)' # None
               PROVE  Row(p)'.since = now'[NoteOf(p)']
    BY DEF SinceItsDispatch
  <1>1. CASE NoteOf(p)' = NoteOf(p) /\ Row(p)'.since = Row(p).since
    <2>1. NoteOf(p) # None
      BY <1>1
    <2>2. /\ NoteOf(p) \in Requests /\ pc[NoteOf(p)] \notin BeforeNote
          /\ Row(p).since = now[NoteOf(p)]
      BY <2>1, RowNoteStaged DEF SerialState, SerialNoteInv, SinceItsDispatch
    <2>3. now'[NoteOf(p)] = now[NoteOf(p)]
      BY <2>2, StepsAlone DEF BeforeNote, BeforeDispatch
    <2> QED BY <1>1, <2>2, <2>3
  <1>2. CASE NoteOf(p)' = r /\ Row(p)'.since = now[r] /\ pc[r] = "note_write"
    BY <1>2, StepsAlone
  <1> QED BY <1>1, <1>2, StepRows

LEMMA StepHolds ==
    ASSUME SerialState, NEW r \in Requests, NoteEffect(r)
    PROVE  HoldsRowNote'
  <1> USE DEF TryBlock, Answering
  <1> SUFFICES ASSUME NEW q \in Requests
               PROVE  /\ pc'[q] \in Answering => HasRowNote(q, "awaiting_text")'
                      /\ pc'[q] = "discard" => HasRowNote(q, "awaiting_audio")'
                      /\ pc'[q] = "cleanup" => NoteOf(PartitionKey(q))' = None
    BY DEF HoldsRowNote
  <1>1. /\ pc[q] \in Answering => HasRowNote(q, "awaiting_text")
        /\ pc[q] = "discard" => HasRowNote(q, "awaiting_audio")
        /\ pc[q] = "cleanup" => NoteOf(PartitionKey(q)) = None
    BY DEF SerialState, SerialNoteInv, HoldsRowNote
  <1>2. CASE q # r /\ pc[q] \in Answering \cup {"discard", "cleanup"}
    <2>1. PICK p \in Phones : p = PartitionKey(q)
      BY <1>2, Started DEF SerialState, SerialInv
    <2>2. p # PartitionKey(r)
      BY <1>2, <2>1, StepsAlone DEF InFlight, Awaits
    <2>3. NoteOf(PartitionKey(q))' = NoteOf(PartitionKey(q))
      BY <2>1, <2>2, StepRows
    <2> QED BY <1>1, <1>2, <2>3, StepsAlone DEF HasRowNote
  <1>3. CASE q # r /\ pc[q] \notin Answering \cup {"discard", "cleanup"}
    BY <1>3, StepsAlone
  <1>4. CASE q = r
    <2>1. PICK p \in Phones : p = PartitionKey(r)
      BY StepsAlone
    <2>2. NoteOf(PartitionKey(r))' = NoteOf(p)'
      BY <2>1, StepRows
    <2>3. CASE pc[r] = "dispatch" /\ pc'[r] \in {"download", "discard"}
      <3>1. Takes(r)
        <4>1. ~FaultWay(pc[r], pc'[r])
          BY <2>3 DEF FaultWay
        <4> QED BY <2>3, <4>1 DEF NoteEffect, LocalChange, Flow
      <3>2. work'[r] = View(r).blob_url
        BY <3>1 DEF Takes, SerialState, SerialInv, RowInv, TypeOK
      <3>3. View(r).blob_url # None => View(r).blob_url = NoteOf(p)
        <4>1. snap[r] = table[p]
          BY <2>1, <2>3 DEF SerialState, SerialNoteInv, FreshAtDispatch
        <4> QED BY <4>1 DEF View, NoteOf, Row
      <3>4. NoteOf(p)' = NoteOf(p)
        BY <2>3, StepRows
      <3> QED BY <1>4, <2>2, <2>3, <3>1, <3>2, <3>3, <3>4 DEF Takes, HasRowNote
    <2>4. CASE pc[r] # "dispatch" \/ pc'[r] \notin {"download", "discard"}
      <3>1. Flow(r)
        BY DEF NoteEffect
      <3>2. pc'[r] # "discard"
        BY <2>4, <3>1 DEF Flow, Way, FaultWay
      <3>3. ASSUME pc'[r] = "cleanup" PROVE NoteOf(p)' = None
        <4>1. pc[r] = "reset_write" /\ UNCHANGED faults
          BY <3>1, <3>3 DEF Flow, Way, FaultWay
        <4> QED BY <2>1, <4>1, StepRows
      <3>4. ASSUME pc'[r] \in Answering PROVE HasRowNote(r, "awaiting_text")'
        <4>1. pc[r] \in Answering \ {"reset_write"}
          BY <2>4, <3>1, <3>4 DEF Flow, Way, FaultWay
        <4>2. NoteOf(p)' = NoteOf(p) /\ UNCHANGED <<path, work>>
          BY <4>1, StepRows, StepsAlone
        <4> QED BY <1>1, <1>4, <2>1, <2>2, <4>1, <4>2 DEF HasRowNote
      <3> QED BY <1>4, <2>2, <3>2, <3>3, <3>4
    <2> QED BY <2>3, <2>4
  <1> QED BY <1>2, <1>3, <1>4

(* The container after the step.                                            *)
LEMMA StepBlobs ==
    ASSUME SerialState, NEW r \in Requests, NoteEffect(r), NEW b \in Requests
    PROVE  /\ \/ blobs'[b] = blobs[b]
              \/ b = r /\ pc[r] = "upload" /\ blobs'[b] = clock
              \/ /\ b = work[r] /\ pc[r] \in {"discard", "cleanup"}
                 /\ blobs'[b] = Absent
           /\ UNCHANGED faults /\ pc[r] \in {"discard", "cleanup"} /\ b = work[r] =>
                 blobs'[b] = Absent
           /\ pc[b] # "dispatch" => now'[b] = now[b]
           /\ clock \in Nat /\ now[b] \in Nat
  <1>1. BlobChange(r)
    BY DEF NoteEffect
  <1>2. /\ blobs \in [Requests -> Nat \cup {Absent}] /\ now \in [Requests -> Nat]
        /\ clock \in Nat
    BY DEF SerialState, SerialInv, RowInv, TypeOK
  <1> QED BY <1>1, <1>2, StepsAlone DEF BlobChange

(* A staged note once spent stays spent.                                    *)
LEMMA StepSpent ==
    ASSUME SerialState, NEW r \in Requests, NoteEffect(r), NEW b \in Requests,
           pc[b] \notin BeforeNote, Spent(b)
    PROVE  Spent(b)'
  <1>1. pc[b] \notin {"upload", "dispatch"}
    BY DEF BeforeNote, BeforeDispatch, Staging
  <1> QED BY <1>1, StepBlobs, StepsAlone DEF Spent, Stored

LEMMA StepReplaces ==
    ASSUME SerialState, NEW r \in Requests, NoteEffect(r)
    PROVE  ReplacesSpent'
  <1> SUFFICES ASSUME NEW q \in Requests, pc'[q] \in Staging,
                      NoteOf(PartitionKey(q))' # None
               PROVE  Spent(NoteOf(PartitionKey(q)))'
    BY DEF ReplacesSpent
  <1>1. pc[q] # "unsent"
    BY StepsAlone DEF Staging
  <1>2. PICK p \in Phones : p = PartitionKey(q)
    BY <1>1, Started DEF SerialState, SerialInv
  <1>3. NoteOf(PartitionKey(q))' = NoteOf(p)'
    BY <1>2, StepRows
  <1>4. pc[q] \in Staging \/ (q = r /\ pc[r] \in {"dispatch", "discard"})
    BY StepsAlone DEF NoteEffect, Flow, Way, FaultWay, Staging
  <1>5. NoteOf(p)' = NoteOf(p)
    <2>1. q = r => pc[r] \notin {"note_write", "reset_write"}
      BY <1>4 DEF NoteEffect, Flow, Way, FaultWay, Staging, TryBlock
    <2>2. q # r => p # PartitionKey(r)
      BY <1>2, <1>4, StepsAlone DEF InFlight, Awaits, Staging
    <2> QED BY <1>2, <2>1, <2>2, StepRows
  <1> DEFINE b == NoteOf(p)
  <1>6. b \in Requests /\ pc[b] \notin BeforeNote
    BY <1>3, <1>5, RowNoteStaged DEF SerialState
  <1> SUFFICES Spent(b)'
    BY <1>3, <1>5 DEF Spent, Stored
  <1> SUFFICES ASSUME NEW c \in Requests, c = b PROVE Spent(c)'
    BY <1>5, <1>6 DEF Spent, Stored
  <1>7. CASE pc[q] \in Staging
    BY <1>2, <1>3, <1>5, <1>6, <1>7, StepSpent
       DEF SerialState, SerialNoteInv, ReplacesSpent
  <1>8. CASE q = r /\ pc[r] = "discard"
    <2>1. UNCHANGED faults
      BY <1>8 DEF NoteEffect, Flow, FaultWay, TryBlock, Staging
    <2>2. work[r] = b
      BY <1>2, <1>8 DEF SerialState, SerialNoteInv, HoldsRowNote, HasRowNote
    <2> QED BY <1>8, <2>1, <2>2, StepBlobs DEF Spent, Stored
  <1>9. CASE q = r /\ pc[r] = "dispatch"
    <2>1. Takes(r) /\ pc'[r] = "fetch"
      <3>1. ~FaultWay(pc[r], pc'[r])
        BY <1>9 DEF FaultWay, Staging, TryBlock
      <3>2. UNCHANGED faults /\ Way(pc[r], pc'[r])
        BY <3>1 DEF NoteEffect, Flow
      <3> QED BY <1>9, <3>2 DEF NoteEffect, LocalChange, Way, Staging
    <2>2. View(r).state = Idle \/ View(r).blob_url = None
      BY <2>1 DEF Takes
    <2>3. EntityToRecord(snap[r]) = Row(p)
      BY <1>2, <1>9 DEF SerialState, SerialNoteInv, FreshAtDispatch, Row
    <2>4. Row(p).state = Awaiting /\ Row(p).blob_url # None
      BY <1>3, <1>5 DEF SerialState, SerialInv, RowInv, EntityOK, Coherent, Row, NoteOf
    <2>5. TimedOut(Row(p))
      BY <2>2, <2>3, <2>4 DEF View, Idle, Awaiting
    <2>6. Row(p).since = now[b]
      BY <1>3, <1>5 DEF SerialState, SerialNoteInv, SinceItsDispatch
    <2>7. Spent(c)
      BY <2>5, <2>6 DEF TimedOut, Spent
    <2> QED BY <1>6, <2>7, StepSpent
  <1> QED BY <1>4, <1>7, <1>8, <1>9

LEMMA StepBacked ==
    ASSUME SerialState, NEW r \in Requests, NoteEffect(r)
    PROVE  NotesBacked'
  <1> SUFFICES ASSUME NEW p \in Phones, NoteOf(p)' # None,
                      NEW b \in Requests, b = NoteOf(p)'
               PROVE  Backed(b)'
    <2>1. ASSUME NEW p \in Phones, NoteOf(p)' # None PROVE NoteOf(p)' \in Requests
      BY <2>1, StepRows, RowNoteStaged DEF SerialState
    <2> QED BY <2>1 DEF NotesBacked, Backed, Stored
  <1>1. CASE NoteOf(p)' = NoteOf(p)
    <2>1. /\ pc[b] \notin BeforeNote /\ PartitionKey(b) = p /\ Backed(b)
      BY <1>1, RowNoteStaged DEF SerialState, SerialNoteInv, NotesBacked
    <2>2. pc[b] \notin {"dispatch", "upload"}
      BY <2>1 DEF BeforeNote, BeforeDispatch, Staging
    <2>3. CASE Stored(b)
      <3>1. CASE blobs'[b] = blobs[b]
        BY <2>3, <3>1 DEF Backed, Stored
      <3>2. CASE b = work[r] /\ pc[r] = "discard"
        <4>1. path[r] = "awaiting_audio" /\ UNCHANGED <<path, work>>
          BY <3>2, StepsAlone DEF SerialState, SerialNoteInv, HoldsRowNote, HasRowNote
        <4> QED BY <3>2, <4>1 DEF Backed
      <3>3. CASE b = work[r] /\ pc[r] = "cleanup"
        <4>1. NoteOf(PartitionKey(r)) = None
          BY <3>3 DEF SerialState, SerialNoteInv, HoldsRowNote
        <4>2. b # None
          BY NoneAssumption DEF Requests
        <4>3. PartitionKey(b) = PartitionKey(r)
          BY <3>3, <4>2, WorkStaged DEF SerialState
        <4> QED BY <1>1, <2>1, <4>1, <4>2, <4>3
      <3> QED BY <2>2, <3>1, <3>2, <3>3, StepBlobs
    <2>4. CASE clock > now[b] + BlobTTL
      BY <2>2, <2>4, StepBlobs, StepsAlone DEF Backed
    <2>5. CASE \E q \in Requests : path[q] = "awaiting_audio" /\ work[q] = b
      <3>1. PICK q \in Requests : path[q] = "awaiting_audio" /\ work[q] = b
        BY <2>5
      <3>2. pc[q] # "dispatch"
        <4>1. b # None
          BY NoneAssumption DEF Requests
        <4> QED BY <3>1, <4>1, WorkStaged DEF SerialState, BeforeDispatch
      <3>3. path'[q] = path[q] /\ work'[q] = work[q]
        BY <3>2, StepsAlone
      <3> QED BY <3>1, <3>3 DEF Backed
    <2> QED BY <2>1, <2>3, <2>4, <2>5 DEF Backed
  <1>2. CASE NoteOf(p)' = r /\ pc[r] = "note_write"
    <2>1. Stored(r) \/ clock > now[r] + BlobTTL
      <3>1. Held(r)
        BY <1>2 DEF SerialState, NoteInv, DeletionInv, Uploaded
      <3>2. ASSUME NEW q \in Requests, work[q] = r PROVE FALSE
        <4>1. r # None
          BY NoneAssumption DEF Requests
        <4> QED BY <1>2, <3>2, <4>1, WorkStaged DEF SerialState, BeforeNote, Staging
      <3> QED BY <3>1, <3>2 DEF Held
    <2>2. blobs'[r] = blobs[r] /\ now'[r] = now[r] /\ UNCHANGED clock
      BY <1>2, StepBlobs, StepsAlone
    <2> QED BY <1>2, <2>1, <2>2 DEF Backed, Stored
  <1> QED BY <1>1, <1>2, StepRows

(* Without faults, a step goes the way the code has.                        *)
LEMMA FaultlessWay ==
    ASSUME SerialState, NEW r \in Requests, NoteEffect(r), faults' = 0
    PROVE  faults = 0 /\ UNCHANGED faults /\ Way(pc[r], pc'[r])
  <1>1. faults \in Nat
    BY DEF SerialState, SerialInv, RowInv, TypeOK
  <1> QED BY <1>1 DEF NoteEffect, Flow

LEMMA StepLetsGo ==
    ASSUME SerialState, NEW r \in Requests, NoteEffect(r)
    PROVE  AnsweredLetsGo'
  <1> SUFFICES ASSUME faults' = 0, NEW q \in Requests, "transcript" \in sent'[q]
               PROVE  /\ work'[q] # None
                      /\ pc'[q] \in Answered \/ NoteOf(PartitionKey(q))' # work'[q]
    BY DEF AnsweredLetsGo
  <1>1. faults = 0 /\ UNCHANGED faults /\ Way(pc[r], pc'[r])
    BY FaultlessWay
  <1>2. CASE q = r /\ pc[r] = "transcript"
    <2>1. work[r] # None
      BY <1>2 DEF SerialState, SerialNoteInv, HoldsRowNote, HasRowNote, Answering, TryBlock
    <2>2. work'[r] = work[r] /\ pc'[r] = "summary"
      BY <1>1, <1>2, StepsAlone DEF Way
    <2> QED BY <1>2, <2>1, <2>2 DEF Answered
  <1>3. CASE "transcript" \in sent[q]
    <2>1. /\ work[q] # None
          /\ pc[q] \in Answered \/ NoteOf(PartitionKey(q)) # work[q]
      BY <1>1, <1>3 DEF SerialState, SerialNoteInv, AnsweredLetsGo
    <2>2. /\ pc[q] \notin BeforeDispatch /\ work[q] \in Requests
          /\ pc[work[q]] \notin BeforeNote
      BY <2>1, WorkStaged DEF SerialState
    <2>3. work'[q] = work[q]
      BY <2>2, StepsAlone DEF BeforeDispatch
    <2>4. PICK p \in Phones : p = PartitionKey(q)
      BY <2>2, Started DEF SerialState, SerialInv, BeforeDispatch
    <2>5. NoteOf(PartitionKey(q))' = NoteOf(p)'
      BY <2>4, StepRows
    <2>6. CASE pc[q] \in Answered
      <3>1. CASE q # r
        BY <2>1, <2>3, <2>6, <3>1, StepsAlone
      <3>2. CASE q = r /\ pc[r] # "reset_write"
        BY <1>1, <2>1, <2>3, <2>6, <3>2 DEF Way, Answered
      <3>3. CASE q = r /\ pc[r] = "reset_write"
        BY <1>1, <2>1, <2>3, <2>4, <2>5, <3>3, StepRows
      <3> QED BY <3>1, <3>2, <3>3
    <2>7. CASE NoteOf(PartitionKey(q)) # work[q]
      <3>1. pc[r] = "note_write" => work[q] # r
        BY <2>2 DEF BeforeNote, Staging
      <3>2. NoteOf(p)' # work[q]
        BY <2>1, <2>4, <2>7, <3>1, StepRows
      <3> QED BY <2>1, <2>3, <2>5, <3>2
    <2> QED BY <2>1, <2>6, <2>7
  <1> QED BY <1>2, <1>3 DEF NoteEffect, SentChange

LEMMA StepAnsweredOnce ==
    ASSUME SerialState, NEW r \in Requests, NoteEffect(r)
    PROVE  NoteAnsweredOnce'
  <1> SUFFICES ASSUME faults' = 0, NEW q \in Requests, NEW s \in Requests,
                      "transcript" \in sent'[q], "transcript" \in sent'[s],
                      work'[q] = work'[s]
               PROVE  q = s
    BY DEF NoteAnsweredOnce
  <1>1. faults = 0
    BY FaultlessWay
  <1>2. ASSUME NEW t \in Requests, "transcript" \in sent'[t]
        PROVE  /\ "transcript" \in sent[t] \/ (t = r /\ pc[r] = "transcript")
               /\ work[t] # None /\ work'[t] = work[t]
    <2>1. "transcript" \in sent[t] \/ (t = r /\ pc[r] = "transcript")
      BY <1>2 DEF NoteEffect, SentChange
    <2>2. work[t] # None
      BY <1>1, <2>1 DEF SerialState, SerialNoteInv, AnsweredLetsGo, HoldsRowNote,
                        HasRowNote, Answering, TryBlock
    <2> QED BY <2>1, <2>2, WorkStaged, StepsAlone DEF SerialState, BeforeDispatch
  <1>3. ASSUME pc[r] = "transcript", NEW t \in Requests \ {r},
               "transcript" \in sent[t], work[t] # None, work[t] = work[r]
        PROVE  FALSE
    <2>1. work[r] = NoteOf(PartitionKey(r))
      BY <1>3 DEF SerialState, SerialNoteInv, HoldsRowNote, HasRowNote, Answering, TryBlock
    <2>2. PartitionKey(t) = PartitionKey(r)
      BY <1>3, WorkStaged DEF SerialState
    <2>3. pc[t] \in Answered
      BY <1>1, <1>3, <2>1, <2>2 DEF SerialState, SerialNoteInv, AnsweredLetsGo
    <2> QED BY <2>2, <2>3, StepsAlone DEF Answered, InFlight, Awaits, TryBlock
  <1>4. CASE "transcript" \in sent[q] /\ "transcript" \in sent[s]
    BY <1>1, <1>2, <1>4 DEF SerialState, SerialNoteInv, NoteAnsweredOnce
  <1> QED BY <1>2, <1>3, <1>4

LEMMA StepAccounted ==
    ASSUME SerialState, NEW r \in Requests, NoteEffect(r)
    PROVE  StoredAccounted'
  <1> SUFFICES ASSUME faults' = 0, NEW b \in Requests, Stored(b)' PROVE Accounted(b)'
    BY DEF StoredAccounted
  <1>1. faults = 0 /\ UNCHANGED faults /\ Way(pc[r], pc'[r])
    BY FaultlessWay
  <1>2. CASE b = r /\ pc[r] = "upload"
    BY <1>1, <1>2 DEF Way, Accounted, Uploaded
  <1>3. CASE b # r \/ pc[r] # "upload"
    <2>1. /\ Stored(b) /\ (pc[r] \in {"discard", "cleanup"} => b # work[r])
      BY <1>1, <1>3, StepBlobs DEF Stored
    <2>2. pc[b] \notin BeforeDispatch /\ Accounted(b)
      BY <1>1, <2>1 DEF SerialState, SerialNoteInv, StoredAccounted, NoteInv, DeletionInv
    <2>3. now'[b] = now[b] /\ UNCHANGED clock
      BY <2>2, StepBlobs, StepsAlone DEF BeforeDispatch
    <2>4. PICK p \in Phones : p = PartitionKey(b)
      BY <2>2, Started DEF SerialState, SerialInv, BeforeDispatch
    <2>5. NoteOf(PartitionKey(b))' = NoteOf(p)'
      BY <2>4, StepRows
    <2>6. CASE NoteOf(p) = b
      <3>1. CASE NoteOf(p)' = NoteOf(p)
        BY <2>5, <2>6, <3>1 DEF Accounted
      <3>2. CASE p = PartitionKey(r) /\ pc[r] = "note_write"
        <4>1. b # None
          BY NoneAssumption DEF Requests
        <4>2. Spent(b)
          BY <2>6, <3>2, <4>1 DEF SerialState, SerialNoteInv, ReplacesSpent, Staging
        <4> QED BY <2>1, <2>3, <4>2 DEF Spent, Accounted
      <3>3. CASE p = PartitionKey(r) /\ pc[r] = "reset_write"
        <4>1. work[r] = b
          BY <2>6, <3>3 DEF SerialState, SerialNoteInv, HoldsRowNote, HasRowNote, Answering
        <4>2. pc'[r] = "cleanup" /\ work'[r] = b
          BY <1>1, <3>3, <4>1, StepsAlone DEF Way
        <4> QED BY <4>2 DEF Accounted
      <3> QED BY <3>1, <3>2, <3>3, StepRows
    <2>7. CASE clock > now[b] + ContextTimeout
      BY <2>3, <2>7 DEF Accounted
    <2>8. CASE pc[b] \in Uploaded
      <3>1. CASE b # r
        BY <2>8, <3>1, StepsAlone DEF Accounted
      <3>2. CASE b = r /\ pc[r] = "note_read"
        BY <1>1, <3>2 DEF Way, Accounted, Uploaded
      <3>3. CASE b = r /\ pc[r] = "note_write"
        BY <1>1, <2>4, <2>5, <3>3, StepRows DEF Accounted
      <3> QED BY <2>8, <3>1, <3>2, <3>3 DEF Uploaded
    <2>9. CASE \E q \in Requests : pc[q] = "cleanup" /\ work[q] = b
      <3>1. PICK q \in Requests : pc[q] = "cleanup" /\ work[q] = b
        BY <2>9
      <3> QED BY <2>1, <3>1, StepsAlone DEF Accounted
    <2> QED BY <2>2, <2>4, <2>6, <2>7, <2>8, <2>9 DEF Accounted
  <1> QED BY <1>2, <1>3

------------------------------------------------------------------------------
(* The other steps *)

LEMMA InitSerialNotes == Init => SerialNoteInv
  <1> SUFFICES ASSUME Init PROVE SerialNoteInv
    OBVIOUS
  <1>1. /\ \A r \in Requests : /\ pc[r] = "unsent" /\ sent[r] = {}
                               /\ blobs[r] = Absent
        /\ \A p \in Phones : table[p] = None
    BY DEF Init
  <1>2. \A p \in Phones : NoteOf(p) = None
    BY <1>1 DEF NoteOf, Row, EntityToRecord, DefaultRecord
  <1>3. \A r \in Requests : ~InFlight(r) /\ pc[r] \notin Staging /\ pc[r] \notin Answering
    BY <1>1 DEF InFlight, Awaits, TryBlock, Staging, Answering
  <1>4. FreshAtDispatch /\ InOrder /\ HoldsRowNote /\ ReplacesSpent
    BY <1>1, <1>3 DEF FreshAtDispatch, InOrder, HoldsRowNote, ReplacesSpent
  <1>5. SinceItsDispatch /\ NotesBacked
    BY <1>2 DEF SinceItsDispatch, NotesBacked
  <1>6. AnsweredLetsGo /\ StoredAccounted /\ NoteAnsweredOnce
    BY <1>1 DEF AnsweredLetsGo, StoredAccounted, NoteAnsweredOnce, Stored
  <1> QED BY <1>4, <1>5, <1>6 DEF SerialNoteInv

(* A delivery is its phone's last, and begins with nothing.                 *)
LEMMA DeliverSerialNotes ==
    ASSUME MaxInFlight = 1, SerialState, NEW r \in Requests, NEW m \in Messages,
           Deliver(r, m)
    PROVE  SerialNoteInv'
  <1>1. /\ pc[r] = "unsent" /\ pc'[r] \in {"check", "dropped"} /\ msg'[r] = m
        /\ \A q \in Requests \ {r} : pc'[q] = pc[q] /\ msg'[q] = msg[q]
        /\ \A q \in Requests : q < r => pc[q] # "unsent"
        /\ UNCHANGED <<table, blobs, sent, clock, path, snap, work, now, faults>>
    BY DEF Deliver, Goto, effects, SerialState, SerialInv, RowInv, TypeOK
  <1>2. work[r] = None /\ ~Stored(r)
    BY <1>1 DEF SerialState, NoteInv, ProvenanceInv, StagesOK, DeletionInv, BeforeDispatch
  <1>3. \A q \in Requests \ {r} :
           /\ PartitionKey(q)' = PartitionKey(q)
           /\ NoteOf(PartitionKey(q))' = NoteOf(PartitionKey(q))
           /\ InFlight(q)' => InFlight(q) /\ PartitionKey(q) # Sender[m]
    BY <1>1, NoneInFlight DEF PartitionKey, NoteOf, Row, InFlight
  <1>4. \A p \in Phones : NoteOf(p)' = NoteOf(p) /\ Row(p)' = Row(p)
    BY <1>1 DEF NoteOf, Row
  <1>5. FreshAtDispatch'
    <2> SUFFICES ASSUME NEW q \in Requests, pc'[q] = "dispatch"
                 PROVE  snap'[q] = table'[PartitionKey(q)']
      BY DEF FreshAtDispatch
    <2> QED BY <1>1, <1>3 DEF SerialState, SerialNoteInv, FreshAtDispatch
  <1>6. InOrder'
    <2>1. Requests \subseteq Nat
      BY HandlerAssumption DEF Requests
    <2>2. \A q, s \in Requests : q < s /\ pc[s] # "unsent" => pc[q] # "unsent"
      BY DEF SerialState, SerialNoteInv, InOrder
    <2>3. ASSUME NEW q \in Requests, NEW s \in Requests, q < s, pc'[s] # "unsent"
          PROVE  pc'[q] # "unsent"
      BY <1>1, <2>2, <2>3
    <2>4. ASSUME NEW q \in Requests, NEW s \in Requests, InFlight(s)',
                 pc'[q] # "unsent", PartitionKey(q)' = PartitionKey(s)'
          PROVE  q <= s
      <3>1. CASE s = r
        BY <1>1, <2>1, <2>2, <2>4, <3>1
      <3>2. CASE s # r /\ q = r
        BY <1>1, <1>3, <2>4, <3>2 DEF PartitionKey
      <3>3. CASE s # r /\ q # r
        BY <1>1, <1>3, <2>4, <3>3 DEF SerialState, SerialNoteInv, InOrder
      <3> QED BY <3>1, <3>2, <3>3
    <2> QED BY <2>3, <2>4 DEF InOrder
  <1>7. SinceItsDispatch' /\ NotesBacked'
    BY <1>1, <1>4 DEF SerialState, SerialNoteInv, SinceItsDispatch, NotesBacked,
                      Backed, Stored
  <1>8. HoldsRowNote'
    BY <1>1, <1>3 DEF SerialState, SerialNoteInv, HoldsRowNote, HasRowNote,
                      Answering, TryBlock
  <1>9. ReplacesSpent'
    BY <1>1, <1>3 DEF SerialState, SerialNoteInv, ReplacesSpent, Spent, Stored, Staging
  <1>10. AnsweredLetsGo' /\ NoteAnsweredOnce'
    BY <1>1, <1>2, <1>3 DEF SerialState, SerialNoteInv, AnsweredLetsGo, NoteAnsweredOnce
  <1>11. StoredAccounted'
    BY <1>1, <1>2, <1>3 DEF SerialState, SerialNoteInv, StoredAccounted, Accounted, Stored
  <1> QED BY <1>5, <1>6, <1>7, <1>8, <1>9, <1>10, <1>11 DEF SerialNoteInv

(* Time makes notes spent, and the lifecycle rule takes none that is not.   *)
LEMMA TimeSerialNotes ==
    ASSUME SerialState, Tick \/ UNCHANGED vars \/ \E b \in Requests : Sweep(b)
    PROVE  SerialNoteInv'
  <1>1. UNCHANGED <<table, snap, work, now, msg, pc, path, sent, faults>>
    BY DEF Tick, Sweep, vars, effects, locals
  <1>2. /\ \A p \in Phones : NoteOf(p)' = NoteOf(p) /\ Row(p)' = Row(p)
        /\ \A q \in Requests : /\ PartitionKey(q)' = PartitionKey(q)
                               /\ NoteOf(PartitionKey(q))' = NoteOf(PartitionKey(q))
                               /\ InFlight(q)' = InFlight(q)
    BY <1>1 DEF NoteOf, Row, PartitionKey, InFlight
  <1>3. ASSUME NEW b \in Requests
        PROVE  /\ now[b] \in Nat /\ clock \in Nat /\ clock' \in Nat /\ clock <= clock'
               /\ \/ blobs'[b] = blobs[b]
                  \/ blobs'[b] = Absent /\ clock > now[b] + BlobTTL
    <2>1. /\ clock \in Nat /\ now \in [Requests -> Nat] /\ BlobTTL \in Nat
          /\ blobs \in [Requests -> Nat \cup {Absent}]
      BY HandlerAssumption DEF SerialState, SerialInv, RowInv, TypeOK
    <2>2. clock' \in Nat /\ clock <= clock'
      BY <2>1 DEF Tick, Sweep, vars
    <2>3. \/ blobs'[b] = blobs[b]
          \/ blobs'[b] = Absent /\ Stored(b) /\ clock > blobs[b] + BlobTTL
      BY <2>1 DEF Tick, Sweep, vars, effects
    <2>4. Stored(b) => now[b] <= blobs[b] /\ blobs[b] \in Nat
      BY <2>1 DEF SerialState, NoteInv, DeletionInv, Stored
    <2> QED BY <2>1, <2>2, <2>3, <2>4
  <1>4. /\ ContextTimeout \in Nat /\ BlobTTL \in Nat
    BY HandlerAssumption
  <1>5. FreshAtDispatch' /\ InOrder' /\ HoldsRowNote'
    BY <1>1, <1>2 DEF SerialState, SerialNoteInv, FreshAtDispatch, InOrder,
                      HoldsRowNote, HasRowNote
  <1>6. SinceItsDispatch' /\ AnsweredLetsGo' /\ NoteAnsweredOnce'
    BY <1>1, <1>2 DEF SerialState, SerialNoteInv, SinceItsDispatch, AnsweredLetsGo,
                      NoteAnsweredOnce
  <1>7. ReplacesSpent'
    <2>1. ASSUME NEW b \in Requests, Spent(b) PROVE Spent(b)'
      BY <1>1, <1>3, <1>4, <2>1 DEF Spent, Stored
    <2> SUFFICES ASSUME NEW q \in Requests, pc'[q] \in Staging,
                        NoteOf(PartitionKey(q))' # None
                 PROVE  Spent(NoteOf(PartitionKey(q)))'
      BY DEF ReplacesSpent
    <2>2. PICK p \in Phones : p = PartitionKey(q)
      BY <1>1, Started DEF SerialState, SerialInv, Staging
    <2>3. NoteOf(p) # None /\ Spent(NoteOf(p))
      BY <1>1, <1>2, <2>2 DEF SerialState, SerialNoteInv, ReplacesSpent
    <2>4. PICK b \in Requests : b = NoteOf(p)
      BY <2>3, RowNoteStaged DEF SerialState
    <2>5. Spent(b)'
      BY <2>1, <2>3, <2>4
    <2> QED BY <1>2, <2>2, <2>4, <2>5 DEF Spent, Stored
  <1>8. NotesBacked'
    <2>1. ASSUME NEW b \in Requests, Backed(b) PROVE Backed(b)'
      BY <1>1, <1>3, <1>4, <2>1 DEF Backed, Stored
    <2> SUFFICES ASSUME NEW p \in Phones, NoteOf(p)' # None PROVE Backed(NoteOf(p))'
      BY DEF NotesBacked
    <2>2. PICK b \in Requests : b = NoteOf(p)
      BY <1>2, RowNoteStaged DEF SerialState
    <2>3. Backed(b)'
      BY <1>2, <2>1, <2>2 DEF SerialState, SerialNoteInv, NotesBacked
    <2> QED BY <1>2, <2>2, <2>3 DEF Backed, Stored
  <1>9. StoredAccounted'
    <2> SUFFICES ASSUME faults' = 0, NEW b \in Requests, Stored(b)' PROVE Accounted(b)'
      BY DEF StoredAccounted
    <2>1. Accounted(b)
      BY <1>1, <1>3 DEF SerialState, SerialNoteInv, StoredAccounted, Stored
    <2> QED BY <1>1, <1>2, <1>3, <1>4, <2>1 DEF Accounted
  <1> QED BY <1>5, <1>6, <1>7, <1>8, <1>9 DEF SerialNoteInv

LEMMA NextSerialNotes ==
    ASSUME MaxInFlight = 1, SerialState, [Next]_vars
    PROVE  SerialState'
  <1>1. SerialInv' /\ NoteInv'
    BY NextSerial, NextNotes DEF SerialState
  <1>2. ASSUME NEW r \in Requests, Step(r) \/ CallLost(r) \/ Crash(r)
        PROVE  SerialNoteInv'
    <2>1. NoteEffect(r)
      BY <1>2, StepNotes DEF SerialState
    <2> QED BY <2>1, StepFresh, StepInOrder, StepSince, StepHolds, StepReplaces,
               StepBacked, StepLetsGo, StepAnsweredOnce, StepAccounted
            DEF SerialNoteInv
  <1>3. ASSUME NEW r \in Requests, NEW m \in Messages, Deliver(r, m)
        PROVE  SerialNoteInv'
    BY <1>3, DeliverSerialNotes
  <1>4. ASSUME Tick \/ Finished \/ UNCHANGED vars \/ \E b \in Requests : Sweep(b)
        PROVE  SerialNoteInv'
    BY <1>4, TimeSerialNotes DEF Finished
  <1>5. SerialNoteInv'
    BY <1>2, <1>3, <1>4 DEF Next
  <1> QED BY <1>1, <1>5 DEF SerialState

------------------------------------------------------------------------------

(* What holds of notes while a phone has one request at a time.             *)
THEOREM SerialNoteInvariant == ASSUME MaxInFlight = 1 PROVE Spec => []SerialState
  <1>1. Init => SerialState
    <2>1. Init => NoteInv
      BY InitRowInv, InitNotes DEF NoteInv
    <2> QED BY <2>1, InitSerial, InitSerialNotes DEF SerialState
  <1>2. SerialState /\ [Next]_vars => SerialState'
    BY NextSerialNotes
  <1> QED BY <1>1, <1>2, PTL DEF Spec

(* With one request of a phone at a time, and no fault, no note's           *)
(* transcript is sent by two requests.                                      *)
THEOREM NotesAnsweredOnce == ASSUME MaxInFlight = 1 PROVE Spec => []NoteAnsweredOnce
  <1>1. SerialState => NoteAnsweredOnce
    BY DEF SerialState, SerialNoteInv
  <1> QED BY <1>1, SerialNoteInvariant, PTL

(* With one request of a phone at a time, a row within its context timeout  *)
(* points to a stored blob, unless a voice note replaces or replaced it:    *)
(* whoever deletes resets first, and the retention covers the timeout, as   *)
(* the theorem supposes.                                                    *)
THEOREM DanglesOnlyReplaced ==
    ASSUME MaxInFlight = 1, ContextTimeout <= BlobTTL
    PROVE  Spec => []DanglingOnlyByReplacement
  <1>1. SerialState => DanglingOnlyByReplacement
    <2> SUFFICES ASSUME SerialState, NEW p \in Phones,
                        Row(p).state = Awaiting, ~TimedOut(Row(p))
                 PROVE  \/ Stored(NoteOf(p))
                        \/ \E r \in Requests : path[r] = "awaiting_audio" /\ work[r] = NoteOf(p)
      BY DEF DanglingOnlyByReplacement
    <2>1. NoteOf(p) # None /\ Row(p).since # None
      BY DEF SerialState, SerialInv, RowInv, EntityOK, Coherent, Row, NoteOf
    <2>2. Row(p).since = now[NoteOf(p)] /\ Backed(NoteOf(p))
      BY <2>1 DEF SerialState, SerialNoteInv, SinceItsDispatch, NotesBacked
    <2>3. now[NoteOf(p)] \in Nat /\ clock \in Nat
      BY <2>1, RowNoteStaged DEF SerialState, SerialInv, RowInv, TypeOK
    <2>4. ~(clock > now[NoteOf(p)] + BlobTTL)
      BY <2>1, <2>2, <2>3, HandlerAssumption DEF TimedOut
    <2> QED BY <2>2, <2>4 DEF Backed
  <1> QED BY <1>1, SerialNoteInvariant, PTL

(* With one request of a phone at a time, and no fault, once no request is  *)
(* in flight a stored blob is some row's note or past its context timeout.  *)
THEOREM OrphansOnlyTimedOut ==
    ASSUME MaxInFlight = 1 PROVE Spec => []OrphanOnlyByTimeout
  <1>1. SerialState => OrphanOnlyByTimeout
    <2> SUFFICES ASSUME SerialState, faults = 0, \A r \in Requests : ~InFlight(r),
                        NEW b \in Requests, Stored(b)
                 PROVE  \/ \E p \in Phones : NoteOf(p) = b
                        \/ clock > now[b] + ContextTimeout
      BY DEF OrphanOnlyByTimeout
    <2>1. Accounted(b) /\ pc[b] \notin BeforeDispatch
      BY DEF SerialState, SerialNoteInv, StoredAccounted, NoteInv, DeletionInv
    <2>2. PartitionKey(b) \in Phones
      BY <2>1, Started DEF SerialState, SerialInv, BeforeDispatch
    <2> QED BY <2>1, <2>2 DEF Accounted, InFlight, Awaits, Uploaded
  <1> QED BY <1>1, SerialNoteInvariant, PTL

(* With one request of a phone at a time, a row lets go of a note only for  *)
(* a later one, or by the reset of the request that took that very note.    *)
THEOREM NotesNeverDropped == ASSUME MaxInFlight = 1 PROVE Spec => NotesNotDropped
  <1> DEFINE Kept ==
          \A p \in Phones :
              NoteOf(p) # None /\ NoteOf(p)' # NoteOf(p) =>
                  \/ NoteOf(p)' # None /\ NoteOf(p)' > NoteOf(p)
                  \/ \E r \in Requests :
                        /\ pc[r] = "reset_write" /\ pc'[r] # "reset_write"
                        /\ work[r] = NoteOf(p)
  <1>1. SerialState /\ [Next]_vars => [Kept]_vars
    <2> SUFFICES ASSUME SerialState, Next, NEW p \in Phones,
                        NoteOf(p) # None, NoteOf(p)' # NoteOf(p)
                 PROVE  \/ NoteOf(p)' # None /\ NoteOf(p)' > NoteOf(p)
                        \/ \E r \in Requests :
                              /\ pc[r] = "reset_write" /\ pc'[r] # "reset_write"
                              /\ work[r] = NoteOf(p)
      OBVIOUS
    <2>1. ~ UNCHANGED table
      BY DEF NoteOf, Row
    <2>2. PICK r \in Requests : Step(r) \/ CallLost(r) \/ Crash(r)
      BY <2>1 DEF Next, Deliver, Tick, Sweep, Finished, vars, effects
    <2>3. NoteEffect(r)
      BY <2>2, StepNotes DEF SerialState
    <2>4. CASE p = PartitionKey(r) /\ pc[r] = "note_write" /\ NoteOf(p)' = r
      <3>1. /\ NoteOf(p) \in Requests /\ pc[NoteOf(p)] \notin BeforeNote
            /\ PartitionKey(NoteOf(p)) = PartitionKey(r)
        BY <2>4, RowNoteStaged DEF SerialState
      <3>2. pc[NoteOf(p)] # "unsent" /\ InFlight(r)
        BY <2>4, <3>1 DEF BeforeNote, BeforeDispatch, InFlight, Awaits
      <3>3. NoteOf(p) <= r
        BY <3>1, <3>2 DEF SerialState, SerialNoteInv, InOrder
      <3>4. r \in Nat /\ NoteOf(p) \in Nat /\ r # None
        BY <3>1, HandlerAssumption, NoneAssumption DEF Requests
      <3> QED BY <2>4, <3>3, <3>4
    <2>5. CASE p = PartitionKey(r) /\ pc[r] = "reset_write"
      <3>1. HasRowNote(r, "awaiting_text")
        BY <2>5 DEF SerialState, SerialNoteInv, HoldsRowNote, Answering
      <3>2. pc'[r] # "reset_write"
        BY <2>3, <2>5 DEF NoteEffect, Flow, Way, FaultWay, TryBlock
      <3> QED BY <2>5, <3>1, <3>2 DEF HasRowNote
    <2> QED BY <2>3, <2>4, <2>5, StepRows
  <1> QED BY <1>1, SerialNoteInvariant, PTL DEF Spec, NotesNotDropped
=============================================================================
