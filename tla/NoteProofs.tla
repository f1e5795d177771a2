------------------------------ MODULE NoteProofs ------------------------------
(* Whose the notes are and who deletes them, for any number of overlapping  *)
(* requests: NoteProvenance and DeletedOnlyByReader.                        *)
EXTENDS HandlerProofs

------------------------------------------------------------------------------
(* The inductive invariants *)

\* The awaits before a request has taken its note from the row.
BeforeDispatch == {"unsent", "check", "record", "load", "dispatch"}

\* The awaits between dispatch and the row that points to the request's note.
Staging == {"fetch", "transcode", "upload", "note_read", "note_write"}

\* The awaits at which the request's note is stored and not yet in the row.
Uploaded == {"note_read", "note_write"}

\* The awaits only a voice note comes to.
AudioPath == Staging \cup {"discard", "confirm"}

\* The awaits before a request has pointed the row to its own note.
BeforeNote == BeforeDispatch \cup Staging \cup {"discard"}

\* The note an entity points to, as get_state sees it.
NoteIn(e) == EntityToRecord(e).blob_url

\* If b is a note at all, it is one phone p sent and the handler staged.
Owned(b, p) ==
    b # None => /\ p \in Allowlist /\ b \in staged
                /\ msg[b] \in Audio /\ Sender[msg[b]] = p

\* Every note in the table, in a snapshot or in a request's hands is its phone's.
NotesOwned ==
    /\ \A p \in Phones : Owned(NoteOf(p), p)
    /\ \A r \in Requests : pc[r] # "unsent" =>
          /\ Owned(NoteIn(snap[r]), PartitionKey(r))
          /\ Owned(work[r], PartitionKey(r))

\* How far a request has come says what it may hold.
StagesOK ==
    \A r \in Requests :
        /\ pc[r] = "unsent" => snap[r] = None
        /\ pc[r] \in BeforeDispatch => work[r] = None
        /\ work[r] # r
        /\ InFlight(r) => PartitionKey(r) \in Allowlist
        /\ pc[r] \in AudioPath => msg[r] \in Audio

OwnNoteUnstaged == \A r \in Requests : pc[r] \in BeforeNote => r \notin staged

ProvenanceInv == NotesOwned /\ StagesOK /\ OwnNoteUnstaged

\* The note is stored, past its retention, or in the hands of a request.
Held(b) ==
    \/ Stored(b)
    \/ clock > now[b] + BlobTTL
    \/ \E r \in Requests : work[r] = b

DeletionInv ==
    \A b \in Requests :
        /\ pc[b] \in BeforeDispatch => ~Stored(b)
        /\ now[b] <= clock
        /\ Stored(b) => now[b] <= blobs[b]
        /\ b \in staged \/ pc[b] \in Uploaded => Held(b)

NoteInv == RowInv /\ ProvenanceInv /\ DeletionInv

------------------------------------------------------------------------------
(* What one step of one request can do *)

\* The step takes r, and r alone, from an await to l.
Goes(r, l) == InFlight(r) /\ Goto(r, l) /\ l # "unsent" /\ UNCHANGED msg

\* It does not take r back, and to an await of the audio path only with audio.
Forward(r, l) ==
    /\ l \in BeforeDispatch => pc[r] \in BeforeDispatch
    /\ l \in BeforeNote => pc[r] \in BeforeNote
    /\ l \in AudioPath => pc[r] \in AudioPath \/ msg[r] \in Audio
    /\ l \in Uploaded => pc[r] \in Uploaded \/ pc[r] = "upload"

\* The table: unchanged, or an entity for the request's phone.
TableEffect(r) ==
    \/ UNCHANGED <<table, staged>>
    \/ \E e : /\ table' = [table EXCEPT ![PartitionKey(r)] = e]
              /\ \/ NoteIn(e) \in {NoteIn(snap[r]), None} /\ UNCHANGED staged
                 \/ /\ pc[r] = "note_write" /\ NoteIn(e) = r
                    /\ staged' = staged \cup {r}

SnapEffect(r) ==
    snap' = snap \/ snap' = [snap EXCEPT ![r] = table[PartitionKey(r)]]

\* The container: unchanged, the request's own upload, or a deletion.
BlobEffect(r) ==
    \/ UNCHANGED blobs
    \/ pc[r] = "upload" /\ blobs' = [blobs EXCEPT ![r] = clock]
    \/ blobs' = [blobs EXCEPT ![work[r]] = Absent]

WorkEffect(r, l) ==
    \/ UNCHANGED <<work, now>>
    \/ /\ pc[r] = "dispatch" /\ l \notin BeforeDispatch \cup Uploaded
       /\ \E b \in {None, NoteIn(snap[r])} : work' = [work EXCEPT ![r] = b]
       /\ now' = [now EXCEPT ![r] = clock]
       /\ UNCHANGED <<table, staged, blobs, snap>>

Effect(r, l) ==
    /\ Goes(r, l) /\ Forward(r, l)
    /\ staged' # staged => l \notin BeforeNote
    /\ pc[r] = "upload" /\ l \in Uploaded => blobs' = [blobs EXCEPT ![r] = clock]
    /\ TableEffect(r) /\ SnapEffect(r) /\ BlobEffect(r) /\ WorkEffect(r, l)
    /\ UNCHANGED clock

(* An awaited call returns or raises: where its request goes.               *)
LEMMA RaiseGoes ==
    ASSUME NEW r, Raise(r)
    PROVE  (Goto(r, "reset_read") /\ pc[r] \in TryBlock) \/ Goto(r, "failed")
  BY DEF Raise

LEMMA ReturnGoes ==
    ASSUME NEW r, NEW label, Return(r, label), pc[r] \notin TryBlock
    PROVE  Goto(r, label) \/ Goto(r, "failed")
  BY RaiseGoes DEF Return, Continue

(* The calls that touch neither the row, nor a snapshot, nor the container. *)
LEMMA QuietEffect ==
    ASSUME NEW r \in Requests,
           \/ SendHint(r) \/ FetchMedia(r) \/ Transcode(r) \/ Confirm(r)
           \/ Download(r) \/ DownloadFindsNothing(r) \/ Process(r)
           \/ ProcessRaisesAoaiError(r) \/ SendTranscript(r) \/ SendSummary(r)
           \/ SendReply(r) \/ Apologise(r) \/ CallLost(r) \/ Crash(r)
    PROVE  \E l : Effect(r, l)
  <1> DEFINE Quiet == UNCHANGED <<table, staged, snap, blobs, work, now, clock, msg>>
             Steady(l) == /\ l # "unsent"
                          /\ l \in BeforeDispatch => pc[r] \in BeforeDispatch
                          /\ l \in BeforeNote => pc[r] \in BeforeNote
                          /\ l \in AudioPath => pc[r] \in AudioPath
                          /\ l \in Uploaded => pc[r] \in Uploaded
  <1> USE DEF InFlight, Awaits, TryBlock, BeforeDispatch, BeforeNote, Staging,
              AudioPath, Uploaded
  <1>1. ASSUME NEW l, Quiet, InFlight(r), Goto(r, l), Steady(l)
        PROVE  \E k : Effect(r, k)
    <2>1. Goes(r, l) /\ Forward(r, l)
      BY <1>1 DEF Goes, Forward
    <2>2. /\ TableEffect(r) /\ SnapEffect(r) /\ BlobEffect(r) /\ WorkEffect(r, l)
          /\ UNCHANGED <<clock, staged>>
      BY <1>1 DEF TableEffect, SnapEffect, BlobEffect, WorkEffect
    <2>3. ~(pc[r] = "upload" /\ l \in Uploaded)
      BY <1>1
    <2> QED BY <2>1, <2>2, <2>3 DEF Effect
  <1>2. Quiet
    BY DEF SendHint, FetchMedia, Transcode, Confirm, Download, DownloadFindsNothing,
           Process, ProcessRaisesAoaiError, SendTranscript, SendSummary, SendReply,
           SendResult, Apologise, CallLost, Crash, effects, locals
  <1>3. ASSUME pc[r] \in Awaits, Raise(r) PROVE \E k : Effect(r, k)
    BY <1>1, <1>2, <1>3, RaiseGoes
  <1>4. CASE SendHint(r) \/ Confirm(r)
    <2>1. pc[r] \in {"hint", "confirm"} /\ Return(r, "done")
      BY <1>4 DEF SendHint, Confirm
    <2> QED BY <1>1, <1>2, <1>3, <2>1 DEF Return, Continue
  <1>5. CASE FetchMedia(r) \/ Transcode(r) \/ Download(r) \/ Process(r)
                \/ ProcessRaisesAoaiError(r) \/ Crash(r)
    <2>1. \/ pc[r] = "fetch" /\ Goto(r, "transcode")
          \/ pc[r] = "transcode" /\ Goto(r, "upload")
          \/ pc[r] = "download" /\ Goto(r, "process")
          \/ pc[r] = "process" /\ Goto(r, "transcript")
          \/ pc[r] = "process" /\ Goto(r, "apology")
          \/ InFlight(r) /\ Goto(r, "crashed")
      BY <1>5 DEF FetchMedia, Transcode, Download, Process,
                  ProcessRaisesAoaiError, Crash, Continue
    <2> QED BY <1>1, <1>2, <2>1
  <1>6. CASE SendTranscript(r) \/ SendSummary(r) \/ SendReply(r)
    <2>1. \/ pc[r] = "transcript" /\ Return(r, "summary")
          \/ pc[r] = "summary" /\ Return(r, "reply")
          \/ pc[r] = "reply" /\ Return(r, "reset_read")
      BY <1>6 DEF SendTranscript, SendSummary, SendReply, SendResult
    <2>2. \/ pc[r] \in Awaits /\ Raise(r)
          \/ /\ pc[r] \in {"transcript", "summary", "reply"}
             /\ Goto(r, "summary") \/ Goto(r, "reply") \/ Goto(r, "reset_read")
      BY <2>1 DEF Return, Continue
    <2> QED BY <1>1, <1>2, <1>3, <2>2
  <1>7. CASE DownloadFindsNothing(r) \/ Apologise(r) \/ CallLost(r)
    BY <1>3, <1>7 DEF DownloadFindsNothing, Apologise, CallLost
  <1> QED BY <1>4, <1>5, <1>6, <1>7
(* The calls that read the row.                                             *)
LEMMA ReadEffect ==
    ASSUME NEW r \in Requests,
           CheckSid(r) \/ LoadState(r) \/ NoteRead(r) \/ ResetRead(r)
    PROVE  \E l : Effect(r, l)
  <1> USE DEF InFlight, Awaits, TryBlock, BeforeDispatch, BeforeNote, Staging,
              AudioPath, Uploaded
  <1>1. /\ UNCHANGED <<table, staged, blobs, work, now, clock, msg>>
        /\ snap' = [snap EXCEPT ![r] = table[PartitionKey(r)]]
    BY DEF CheckSid, LoadState, NoteRead, ResetRead, Keep, effects
  <1>2. PICK l : /\ Goto(r, l)
                 /\ \/ pc[r] = "check" /\ l \in {"dropped", "record"}
                    \/ pc[r] = "load" /\ l = "dispatch"
                    \/ pc[r] = "note_read" /\ l = "note_write"
                    \/ pc[r] = "reset_read" /\ l = "reset_write"
    BY DEF CheckSid, LoadState, NoteRead, ResetRead, Continue
  <1>3. Goes(r, l) /\ Forward(r, l)
    BY <1>1, <1>2 DEF Goes, Forward
  <1>4. /\ TableEffect(r) /\ SnapEffect(r) /\ BlobEffect(r) /\ WorkEffect(r, l)
        /\ UNCHANGED <<clock, staged>> /\ pc[r] # "upload"
    BY <1>1, <1>2 DEF TableEffect, SnapEffect, BlobEffect, WorkEffect
  <1> QED BY <1>3, <1>4 DEF Effect

(* The dispatch takes the note of the row that was read, or none.           *)
LEMMA DispatchEffect ==
    ASSUME RowInv, NEW r \in Requests,
           DispatchIdleAudio(r) \/ DispatchIdleText(r)
              \/ DispatchAwaitingAudio(r) \/ DispatchAwaitingText(r)
    PROVE  \E l : Effect(r, l)
  <1> USE DEF InFlight, Awaits, TryBlock, BeforeDispatch, BeforeNote, Staging,
              AudioPath, Uploaded
  <1>1. PICK l : /\ pc[r] = "dispatch" /\ \E handler : Run(r, handler, l)
                 /\ \/ l \in {"hint", "download"}
                    \/ l \in {"fetch", "discard"} /\ msg[r] \in Audio
    BY DEF DispatchIdleAudio, DispatchIdleText, DispatchAwaitingAudio,
           DispatchAwaitingText
  <1>2. /\ Goto(r, l) /\ UNCHANGED <<table, staged, blobs, snap, clock, msg>>
        /\ work' = [work EXCEPT ![r] = View(r).blob_url]
        /\ now' = [now EXCEPT ![r] = clock]
    BY <1>1 DEF Run, Continue, effects
  <1>3. View(r).blob_url \in {None, NoteIn(snap[r])}
    BY DEF View, NoteIn
  <1>4. Goes(r, l) /\ Forward(r, l)
    BY <1>1, <1>2 DEF Goes, Forward
  <1>5. /\ TableEffect(r) /\ SnapEffect(r) /\ BlobEffect(r) /\ WorkEffect(r, l)
        /\ UNCHANGED <<clock, staged>> /\ pc[r] # "upload"
    BY <1>1, <1>2, <1>3 DEF TableEffect, SnapEffect, BlobEffect, WorkEffect
  <1> QED BY <1>4, <1>5 DEF Effect

(* The calls that write the row: the note in it stays, goes, or is the      *)
(* request's own.                                                           *)
LEMMA WriteEffect ==
    ASSUME RowInv, NEW r \in Requests,
           RecordSid(r) \/ NoteWrite(r) \/ ResetWrite(r)
    PROVE  \E l : Effect(r, l)
  <1> USE DEF InFlight, Awaits, TryBlock, BeforeDispatch, BeforeNote, Staging,
              AudioPath, Uploaded
  <1>1. /\ snap[r] \in Entity \cup {None} /\ EntityOK(snap[r])
        /\ r \in Notes /\ now[r] \in Nat /\ Idle \in States /\ Awaiting \in States
    BY DEF RowInv, TypeOK, Requests, States
  <1>2. /\ UNCHANGED <<snap, blobs, work, now, clock, msg>>
        /\ pc[r] \in {"record", "note_write", "reset_write"}
    BY DEF RecordSid, NoteWrite, ResetWrite, locals
  <1>3. SnapEffect(r) /\ BlobEffect(r) /\ \A l : WorkEffect(r, l)
    BY <1>2 DEF SnapEffect, BlobEffect, WorkEffect
  <1>4. CASE RecordSid(r)
    <2> DEFINE e == RecordedEntity(snap[r], msg[r])
    <2>1. /\ pc[r] = "record" /\ Return(r, "load") /\ UNCHANGED staged
          /\ table' = [table EXCEPT ![PartitionKey(r)] = e]
      BY <1>4 DEF RecordSid
    <2>2. msg[r] \in Messages /\ ~IsKnownSid(snap[r], msg[r])
      BY <2>1 DEF RowInv
    <2>3. NoteIn(e) = NoteIn(snap[r])
      BY <1>1, <2>2, RecordedEntityFacts DEF NoteIn, EntityOK
    <2> HIDE DEF e
    <2>4. TableEffect(r)
      BY <2>1, <2>3 DEF TableEffect
    <2>5. PICK l \in {"load", "failed"} : Goto(r, l)
      BY <2>1, ReturnGoes
    <2>6. Goes(r, l) /\ Forward(r, l)
      BY <1>2, <2>1, <2>5 DEF Goes, Forward
    <2> QED BY <1>2, <1>3, <2>1, <2>4, <2>6 DEF Effect
  <1>5. CASE NoteWrite(r)
    <2> DEFINE e == SetStateEntity(snap[r], Awaiting, r, now[r])
    <2>1. /\ pc[r] = "note_write" /\ Return(r, "confirm")
          /\ staged' = staged \cup {r}
          /\ table' = [table EXCEPT ![PartitionKey(r)] = e]
      BY <1>5 DEF NoteWrite
    <2>2. NoteIn(e) = r
      BY <1>1, SetStateEntityFacts DEF NoteIn
    <2> HIDE DEF e
    <2>3. TableEffect(r)
      BY <2>1, <2>2 DEF TableEffect
    <2>4. PICK l \in {"confirm", "failed"} : Goto(r, l)
      BY <2>1, ReturnGoes
    <2>5. Goes(r, l) /\ Forward(r, l) /\ l \notin BeforeNote
      BY <1>2, <2>1, <2>4 DEF Goes, Forward
    <2> QED BY <1>2, <1>3, <2>1, <2>3, <2>5 DEF Effect
  <1>6. CASE ResetWrite(r)
    <2> DEFINE e == SetStateEntity(snap[r], Idle, None, None)
    <2>1. /\ pc[r] = "reset_write" /\ Return(r, "cleanup") /\ UNCHANGED staged
          /\ table' = [table EXCEPT ![PartitionKey(r)] = e]
      BY <1>6 DEF ResetWrite
    <2>2. NoteIn(e) = None
      <3>1. EntityToRecord(e) = [state |-> Idle, blob_url |-> None, since |-> None,
                                 sid_ring |-> EntityToRecord(snap[r]).sid_ring]
        BY <1>1, SetStateEntityFacts
      <3> HIDE DEF e
      <3> QED BY <3>1 DEF NoteIn
    <2> HIDE DEF e
    <2>3. TableEffect(r)
      BY <2>1, <2>2 DEF TableEffect
    <2>4. PICK l \in {"cleanup", "failed"} : Goto(r, l)
      BY <2>1, ReturnGoes
    <2>5. Goes(r, l) /\ Forward(r, l)
      BY <1>2, <2>1, <2>4 DEF Goes, Forward
    <2> QED BY <1>2, <1>3, <2>1, <2>3, <2>5 DEF Effect
  <1> QED BY <1>4, <1>5, <1>6

(* The calls that change the container.                                     *)
LEMMA ContainerEffect ==
    ASSUME NEW r \in Requests, DiscardOld(r) \/ Upload(r) \/ Cleanup(r)
    PROVE  \E l : Effect(r, l)
  <1> USE DEF InFlight, Awaits, TryBlock, BeforeDispatch, BeforeNote, Staging,
              AudioPath, Uploaded
  <1>1. UNCHANGED <<table, staged, snap, work, now, clock, msg>>
    BY DEF DiscardOld, Upload, Cleanup, locals
  <1>2. TableEffect(r) /\ SnapEffect(r) /\ \A l : WorkEffect(r, l)
    BY <1>1 DEF TableEffect, SnapEffect, WorkEffect
  <1>3. BlobEffect(r) /\ (pc[r] = "upload" => blobs' = [blobs EXCEPT ![r] = clock])
    BY DEF DiscardOld, Upload, Cleanup, BlobEffect
  <1>4. PICK l : /\ Goto(r, l)
                 /\ \/ pc[r] = "discard" /\ l \in {"fetch", "failed"}
                    \/ pc[r] = "upload" /\ l \in {"note_read", "failed"}
                    \/ pc[r] = "cleanup" /\ l \in {"done", "failed"}
    BY ReturnGoes, RaiseGoes DEF DiscardOld, Upload, Cleanup, Continue
  <1>5. Goes(r, l) /\ Forward(r, l)
    BY <1>1, <1>4 DEF Goes, Forward
  <1> QED BY <1>1, <1>2, <1>3, <1>5 DEF Effect

(* Every step of a request in flight has such an effect.                    *)
LEMMA StepEffect ==
    ASSUME RowInv, NEW r \in Requests, Step(r) \/ CallLost(r) \/ Crash(r)
    PROVE  \E l : Effect(r, l)
  BY QuietEffect, ReadEffect, DispatchEffect, WriteEffect, ContainerEffect DEF Step

------------------------------------------------------------------------------
(* The step keeps the invariants *)

(* The request that goes is the only one whose place changes.               *)
LEMMA GoesAlone ==
    ASSUME RowInv, NEW r \in Requests, NEW l, Goes(r, l)
    PROVE  /\ pc[r] # "unsent" /\ pc'[r] = l
           /\ \A q \in Requests \ {r} : pc'[q] = pc[q]
           /\ \A q \in Requests : pc'[q] = "unsent" <=> pc[q] = "unsent"
           /\ \A q \in Requests : PartitionKey(q)' = PartitionKey(q)
           /\ PartitionKey(r) \in Phones
  <1>1. pc[r] # "unsent"
    BY DEF Goes, InFlight, Awaits, TryBlock
  <1>2. PartitionKey(r) \in Phones
    BY <1>1, Started
  <1> QED BY <1>1, <1>2 DEF Goes, Goto, RowInv, TypeOK, PartitionKey

(* What a phone owns it goes on to own, as long as staged notes stay staged *)
(* and keep their message.                                                  *)
LEMMA OwnedStays ==
    ASSUME NEW b, NEW p, Owned(b, p), staged \subseteq staged',
           \A n \in staged : msg'[n] = msg[n]
    PROVE  Owned(b, p)'
  BY DEF Owned

LEMMA EffectOwned ==
    ASSUME NoteInv, NEW r \in Requests, NEW l, Effect(r, l)
    PROVE  NotesOwned'
  <1> USE DEF NoteInv, ProvenanceInv
  <1>1. /\ Goes(r, l) /\ UNCHANGED msg
        /\ TableEffect(r) /\ SnapEffect(r) /\ WorkEffect(r, l)
    BY DEF Effect, Goes
  <1>2. staged \subseteq staged'
    BY <1>1 DEF TableEffect
  <1>3. \A b, p : Owned(b, p) => Owned(b, p)'
    BY <1>1, <1>2, OwnedStays
  <1>4. /\ PartitionKey(r) \in Phones /\ pc[r] # "unsent"
        /\ Owned(NoteIn(snap[r]), PartitionKey(r))
        /\ Owned(NoteOf(PartitionKey(r)), PartitionKey(r))
    BY <1>1, GoesAlone DEF NotesOwned
  <1>5. ASSUME NEW p \in Phones PROVE Owned(NoteOf(p), p)'
    <2>1. CASE UNCHANGED table
      <3>1. NoteOf(p)' = NoteOf(p)
        BY <2>1 DEF NoteOf, Row
      <3> QED BY <1>3, <3>1 DEF NotesOwned, Owned
    <2>2. CASE ~ UNCHANGED table
      <3>1. PICK e : /\ table' = [table EXCEPT ![PartitionKey(r)] = e]
                     /\ \/ NoteIn(e) \in {NoteIn(snap[r]), None}
                        \/ /\ pc[r] = "note_write" /\ NoteIn(e) = r
                           /\ staged' = staged \cup {r}
        BY <1>1, <2>2 DEF TableEffect
      <3>2. NoteOf(p)' = IF p = PartitionKey(r) THEN NoteIn(e) ELSE NoteOf(p)
        BY <3>1 DEF NoteOf, Row, NoteIn, RowInv, TypeOK
      <3>3. CASE p # PartitionKey(r)
        BY <1>3, <3>2, <3>3 DEF NotesOwned, Owned
      <3>4. CASE p = PartitionKey(r) /\ NoteIn(e) \in {NoteIn(snap[r]), None}
        <4>1. Owned(NoteIn(e), p)
          BY <1>4, <3>4 DEF Owned
        <4> QED BY <1>3, <3>2, <3>4, <4>1 DEF Owned
      <3>5. CASE p = PartitionKey(r) /\ pc[r] = "note_write" /\ NoteIn(e) = r
                    /\ staged' = staged \cup {r}
        <4>1. p \in Allowlist /\ msg[r] \in Audio /\ Sender[msg[r]] = p
          BY <1>1, <3>5 DEF StagesOK, Goes, AudioPath, Staging, PartitionKey
        <4> QED BY <1>1, <3>2, <3>5, <4>1 DEF Owned
      <3> QED BY <3>1, <3>3, <3>4, <3>5
    <2> QED BY <2>1, <2>2
  <1>6. ASSUME NEW q \in Requests, pc'[q] # "unsent"
        PROVE  Owned(NoteIn(snap[q]), PartitionKey(q))'
    <2>1. pc[q] # "unsent" /\ PartitionKey(q)' = PartitionKey(q)
      BY <1>1, <1>6, GoesAlone
    <2>2. snap'[q] = snap[q] \/ (q = r /\ snap'[q] = table[PartitionKey(r)])
      BY <1>1 DEF SnapEffect, RowInv, TypeOK
    <2>3. Owned(NoteIn(snap'[q]), PartitionKey(q))
      BY <1>4, <2>1, <2>2 DEF NotesOwned, NoteOf, Row, NoteIn
    <2> QED BY <1>3, <2>1, <2>3 DEF Owned, NoteIn
  <1>7. ASSUME NEW q \in Requests, pc'[q] # "unsent"
        PROVE  Owned(work[q], PartitionKey(q))'
    <2>1. pc[q] # "unsent" /\ PartitionKey(q)' = PartitionKey(q)
      BY <1>1, <1>7, GoesAlone
    <2>2. work'[q] = work[q] \/ (q = r /\ work'[q] \in {None, NoteIn(snap[r])})
      BY <1>1 DEF WorkEffect, RowInv, TypeOK
    <2>3. Owned(work'[q], PartitionKey(q))
      BY <1>4, <2>1, <2>2 DEF NotesOwned, Owned
    <2> QED BY <1>3, <2>1, <2>3 DEF Owned
  <1> QED BY <1>5, <1>6, <1>7 DEF NotesOwned

LEMMA EffectStages ==
    ASSUME NoteInv, NEW r \in Requests, NEW l, Effect(r, l)
    PROVE  StagesOK' /\ OwnNoteUnstaged'
  <1> USE DEF NoteInv, ProvenanceInv
  <1>1. /\ Goes(r, l) /\ Forward(r, l) /\ UNCHANGED msg
        /\ TableEffect(r) /\ SnapEffect(r) /\ WorkEffect(r, l)
        /\ staged' # staged => l \notin BeforeNote
    BY DEF Effect, Goes
  <1>2. /\ pc[r] # "unsent" /\ pc'[r] = l /\ l # "unsent"
        /\ \A q \in Requests \ {r} : pc'[q] = pc[q]
        /\ \A q \in Requests : PartitionKey(q)' = PartitionKey(q)
    BY <1>1, GoesAlone DEF Goes
  <1>3. \A q \in Requests \ {r} : snap'[q] = snap[q] /\ work'[q] = work[q]
    BY <1>1 DEF SnapEffect, WorkEffect, RowInv, TypeOK
  <1>4. \/ work'[r] = work[r]
        \/ /\ pc[r] = "dispatch" /\ l \notin BeforeDispatch
           /\ work'[r] \in {None, NoteIn(snap[r])}
    <2>1. CASE UNCHANGED work
      BY <2>1
    <2>2. CASE ~ UNCHANGED work
      <3>1. PICK b \in {None, NoteIn(snap[r])} : work' = [work EXCEPT ![r] = b]
        BY <1>1, <2>2 DEF WorkEffect
      <3>2. work'[r] = b
        BY <3>1 DEF RowInv, TypeOK
      <3>3. pc[r] = "dispatch" /\ l \notin BeforeDispatch
        BY <1>1, <2>2 DEF WorkEffect
      <3> QED BY <3>2, <3>3
    <2> QED BY <2>1, <2>2
  <1>5. OwnNoteUnstaged'
    <2>1. staged' = staged \/ staged' = staged \cup {r}
      BY <1>1 DEF TableEffect
    <2> QED BY <1>1, <1>2, <2>1 DEF OwnNoteUnstaged, Forward
  <1>6. ASSUME NEW q \in Requests
        PROVE  /\ pc'[q] = "unsent" => snap'[q] = None
               /\ pc'[q] \in BeforeDispatch => work'[q] = None
               /\ InFlight(q)' => PartitionKey(q)' \in Allowlist
               /\ pc'[q] \in AudioPath => msg'[q] \in Audio
    <2>1. CASE q # r
      BY <1>1, <1>2, <1>3, <2>1 DEF StagesOK, InFlight
    <2>2. CASE q = r
      BY <1>1, <1>2, <1>4, <2>2 DEF StagesOK, Forward, Goes
    <2> QED BY <2>1, <2>2
  <1>7. ASSUME NEW q \in Requests PROVE work'[q] # q
    <2>1. CASE work'[q] = work[q]
      BY <2>1 DEF StagesOK
    <2>2. CASE q = r /\ pc[r] = "dispatch" /\ work'[r] \in {None, NoteIn(snap[r])}
      <3>1. r \notin staged /\ r # None
        BY <2>2, NoneAssumption DEF OwnNoteUnstaged, BeforeNote, BeforeDispatch, Requests
      <3>2. NoteIn(snap[r]) = None \/ NoteIn(snap[r]) \in staged
        BY <1>2 DEF NotesOwned, Owned
      <3> QED BY <2>2, <3>1, <3>2
    <2> QED BY <1>3, <1>4, <2>1, <2>2
  <1> QED BY <1>5, <1>6, <1>7 DEF StagesOK

LEMMA EffectHeld ==
    ASSUME NoteInv, NEW r \in Requests, NEW l, Effect(r, l)
    PROVE  DeletionInv'
  <1> USE DEF NoteInv, ProvenanceInv
  <1>1. /\ Goes(r, l) /\ Forward(r, l) /\ UNCHANGED clock
        /\ TableEffect(r) /\ BlobEffect(r) /\ WorkEffect(r, l)
        /\ pc[r] = "upload" /\ l \in Uploaded => blobs' = [blobs EXCEPT ![r] = clock]
    BY DEF Effect
  <1>2. /\ pc'[r] = l /\ \A q \in Requests \ {r} : pc'[q] = pc[q]
    BY <1>1, GoesAlone
  <1>3. /\ clock \in Nat /\ clock # Absent /\ BlobTTL \in Nat
        /\ blobs \in [Requests -> Nat \cup {Absent}] /\ now \in [Requests -> Nat]
        /\ work \in [Requests -> Notes \cup {None}]
    BY AbsentAssumption, HandlerAssumption DEF RowInv, TypeOK
  <1>4. CASE pc[r] = "dispatch" /\ ~ UNCHANGED <<work, now>>
    <2>1. /\ UNCHANGED <<blobs, staged>> /\ now' = [now EXCEPT ![r] = clock]
          /\ l \notin BeforeDispatch \cup Uploaded
          /\ \A q \in Requests \ {r} : work'[q] = work[q]
      BY <1>1, <1>3, <1>4 DEF WorkEffect
    <2>2. work[r] = None /\ r \notin staged /\ ~Stored(r)
      BY <1>4 DEF StagesOK, OwnNoteUnstaged, DeletionInv, BeforeNote, BeforeDispatch
    <2> SUFFICES ASSUME NEW b \in Requests
                 PROVE  /\ pc'[b] \in BeforeDispatch => ~Stored(b)'
                        /\ now'[b] <= clock'
                        /\ Stored(b)' => now'[b] <= blobs'[b]
                        /\ b \in staged' \/ pc'[b] \in Uploaded => Held(b)'
      BY DEF DeletionInv
    <2>3. CASE b = r
      BY <1>1, <1>2, <1>3, <2>1, <2>2, <2>3 DEF Stored
    <2>4. CASE b # r
      <3>1. now'[b] = now[b] /\ pc'[b] = pc[b] /\ Stored(b)' = Stored(b)
        BY <1>2, <1>3, <2>1, <2>4 DEF Stored
      <3>2. Held(b) => Held(b)'
        <4>1. ASSUME NEW q \in Requests, work[q] = b PROVE work'[q] = b
          <5>1. b # None
            BY NoneAssumption DEF Requests
          <5> QED BY <2>1, <2>2, <4>1, <5>1
        <4> QED BY <1>1, <3>1, <4>1 DEF Held
      <3> QED BY <1>1, <2>1, <3>1, <3>2 DEF DeletionInv
    <2> QED BY <2>3, <2>4
  <1>5. CASE UNCHANGED <<work, now>>
    <2> SUFFICES ASSUME NEW b \in Requests
                 PROVE  /\ pc'[b] \in BeforeDispatch => ~Stored(b)'
                        /\ now'[b] <= clock'
                        /\ Stored(b)' => now'[b] <= blobs'[b]
                        /\ b \in staged' \/ pc'[b] \in Uploaded => Held(b)'
      BY DEF DeletionInv
    <2>1. \/ blobs'[b] = blobs[b]
          \/ b = r /\ pc[r] = "upload" /\ blobs'[b] = clock
          \/ blobs'[b] = Absent /\ work[r] = b
      BY <1>1, <1>3 DEF BlobEffect
    <2>2. now'[b] <= clock'
      BY <1>1, <1>5 DEF DeletionInv
    <2>3. Stored(b)' => now'[b] <= blobs'[b]
      BY <1>1, <1>3, <1>5, <2>1 DEF DeletionInv, Stored
    <2>4. pc'[b] \in BeforeDispatch => ~Stored(b)'
      <3>1. pc'[b] \in BeforeDispatch => pc[b] \in BeforeDispatch
        BY <1>1, <1>2 DEF Forward
      <3> QED BY <2>1, <3>1 DEF DeletionInv, Stored, BeforeDispatch
    <2>5. Held(b) => Held(b)'
      <3>1. Stored(b) => Stored(b)' \/ work'[r] = b
        BY <1>3, <1>5, <2>1 DEF Stored
      <3> QED BY <1>1, <1>5, <3>1 DEF Held
    <2>6. ASSUME pc'[b] \in Uploaded PROVE Held(b)'
      <3>1. CASE pc[b] \in Uploaded
        BY <2>5, <3>1 DEF DeletionInv
      <3>2. CASE pc[b] \notin Uploaded
        <4>1. b = r /\ pc[r] = "upload" /\ l \in Uploaded
          BY <1>1, <1>2, <2>6, <3>2 DEF Forward
        <4>2. blobs'[b] = clock
          BY <1>1, <1>3, <4>1
        <4> QED BY <1>3, <4>2 DEF Held, Stored
      <3> QED BY <3>1, <3>2
    <2>7. ASSUME b \in staged' PROVE Held(b)'
      <3>1. b \in staged \/ (b = r /\ pc[r] = "note_write")
        <4>1. \/ staged' = staged
              \/ pc[r] = "note_write" /\ staged' = staged \cup {r}
          BY <1>1 DEF TableEffect
        <4> QED BY <2>7, <4>1
      <3> QED BY <2>5, <3>1 DEF DeletionInv, Uploaded
    <2> QED BY <2>2, <2>3, <2>4, <2>6, <2>7
  <1> QED BY <1>1, <1>4, <1>5 DEF WorkEffect

------------------------------------------------------------------------------
(* All steps *)

LEMMA InitNotes == Init => ProvenanceInv /\ DeletionInv
  <1> SUFFICES ASSUME Init PROVE ProvenanceInv /\ DeletionInv
    OBVIOUS
  <1>1. /\ \A r \in Requests : /\ pc[r] = "unsent" /\ snap[r] = None /\ work[r] = None
                               /\ now[r] = 0 /\ blobs[r] = Absent
        /\ staged = {} /\ clock = 0 /\ \A p \in Phones : table[p] = None
    BY DEF Init
  <1>2. NoteIn(None) = None /\ \A p \in Phones : NoteOf(p) = None
    BY <1>1 DEF NoteIn, NoteOf, Row, EntityToRecord, DefaultRecord
  <1>3. NotesOwned
    BY <1>1, <1>2 DEF NotesOwned, Owned
  <1>4. StagesOK
    <2>1. \A r \in Requests : r # None /\ ~InFlight(r) /\ pc[r] \notin AudioPath
      BY <1>1, NoneAssumption DEF Requests, InFlight, Awaits, TryBlock, AudioPath, Staging
    <2> QED BY <1>1, <2>1 DEF StagesOK
  <1>5. OwnNoteUnstaged
    BY <1>1 DEF OwnNoteUnstaged
  <1>6. DeletionInv
    BY <1>1 DEF DeletionInv, Stored, Uploaded
  <1> QED BY <1>3, <1>4, <1>5, <1>6 DEF ProvenanceInv

(* A delivery finds its request empty-handed, and only phones on the        *)
(* allowlist get past the gate.                                             *)
LEMMA DeliverNotes ==
    ASSUME NoteInv, NEW r \in Requests, NEW m \in Messages, Deliver(r, m)
    PROVE  ProvenanceInv' /\ DeletionInv'
  <1> USE DEF NoteInv, ProvenanceInv
  <1>1. /\ pc[r] = "unsent" /\ msg' = [msg EXCEPT ![r] = m]
        /\ pc' = [pc EXCEPT ![r] = IF Sender[m] \in Allowlist THEN "check" ELSE "dropped"]
        /\ UNCHANGED <<table, blobs, staged, clock, snap, work, now>>
    BY DEF Deliver, Goto, effects
  <1>2. /\ msg'[r] = m /\ pc'[r] \in {"check", "dropped"}
        /\ pc'[r] = "check" => Sender[m] \in Allowlist
        /\ \A q \in Requests \ {r} : msg'[q] = msg[q] /\ pc'[q] = pc[q]
                                   /\ PartitionKey(q)' = PartitionKey(q)
    BY <1>1 DEF RowInv, TypeOK, PartitionKey
  <1>3. snap[r] = None /\ work[r] = None /\ r \notin staged /\ ~Stored(r)
    BY <1>1 DEF StagesOK, OwnNoteUnstaged, DeletionInv, BeforeNote, BeforeDispatch
  <1>4. \A b, p : Owned(b, p) => Owned(b, p)'
    <2>1. staged \subseteq Requests
      BY DEF RowInv, TypeOK, Requests
    <2> QED BY <1>1, <1>2, <1>3, <2>1 DEF Owned
  <1>5. NotesOwned'
    <2>1. \A p \in Phones : Owned(NoteOf(p), p)'
      <3>1. \A p \in Phones : NoteOf(p)' = NoteOf(p)
        BY <1>1 DEF NoteOf, Row
      <3> QED BY <1>4, <3>1 DEF NotesOwned, Owned
    <2>2. ASSUME NEW q \in Requests, pc'[q] # "unsent"
          PROVE  Owned(NoteIn(snap[q]), PartitionKey(q))' /\ Owned(work[q], PartitionKey(q))'
      <3>1. CASE q = r
        BY <1>1, <1>3, <3>1 DEF Owned, NoteIn, EntityToRecord, DefaultRecord
      <3>2. CASE q # r
        BY <1>1, <1>2, <1>4, <2>2, <3>2 DEF NotesOwned, Owned, NoteIn
      <3> QED BY <3>1, <3>2
    <2> QED BY <2>1, <2>2 DEF NotesOwned
  <1>6. StagesOK'
    <2> SUFFICES ASSUME NEW q \in Requests
                 PROVE  /\ pc'[q] = "unsent" => snap'[q] = None
                        /\ pc'[q] \in BeforeDispatch => work'[q] = None
                        /\ work'[q] # q
                        /\ InFlight(q)' => PartitionKey(q)' \in Allowlist
                        /\ pc'[q] \in AudioPath => msg'[q] \in Audio
      BY DEF StagesOK
    <2>1. CASE q = r
      BY <1>1, <1>2, <1>3, <2>1, NoneAssumption
         DEF Requests, InFlight, Awaits, TryBlock, AudioPath, Staging, PartitionKey
    <2>2. CASE q # r
      BY <1>1, <1>2, <2>2 DEF StagesOK, InFlight
    <2> QED BY <2>1, <2>2
  <1>7. OwnNoteUnstaged'
    BY <1>1, <1>2, <1>3 DEF OwnNoteUnstaged
  <1>8. DeletionInv'
    <2> SUFFICES ASSUME NEW b \in Requests
                 PROVE  /\ pc'[b] \in BeforeDispatch => ~Stored(b)'
                        /\ now'[b] <= clock'
                        /\ Stored(b)' => now'[b] <= blobs'[b]
                        /\ b \in staged' \/ pc'[b] \in Uploaded => Held(b)'
      BY DEF DeletionInv
    <2>1. Held(b)' = Held(b) /\ Stored(b)' = Stored(b)
      BY <1>1 DEF Held, Stored
    <2> QED BY <1>1, <1>2, <1>3, <2>1 DEF DeletionInv, Uploaded
  <1> QED BY <1>5, <1>6, <1>7, <1>8

(* Time and the lifecycle rule take no note before its retention is over.   *)
LEMMA TimeNotes ==
    ASSUME NoteInv, Tick \/ UNCHANGED vars \/ \E b \in Requests : Sweep(b)
    PROVE  ProvenanceInv' /\ DeletionInv'
  <1> USE DEF NoteInv
  <1>1. UNCHANGED <<table, staged, snap, work, now, msg, pc>>
    BY DEF Tick, Sweep, vars, effects, locals
  <1>2. ProvenanceInv'
    <2>1. NotesOwned'
      BY <1>1 DEF ProvenanceInv, NotesOwned, Owned, NoteOf, Row, NoteIn, PartitionKey
    <2>2. StagesOK' /\ OwnNoteUnstaged'
      BY <1>1 DEF ProvenanceInv, StagesOK, OwnNoteUnstaged, InFlight, PartitionKey
    <2> QED BY <2>1, <2>2 DEF ProvenanceInv
  <1>3. /\ clock \in Nat /\ clock' \in Nat /\ clock <= clock'
        /\ now \in [Requests -> Nat] /\ BlobTTL \in Nat
        /\ blobs \in [Requests -> Nat \cup {Absent}]
    BY HandlerAssumption DEF RowInv, TypeOK, Tick, Sweep, vars
  <1>4. ASSUME NEW b \in Requests
        PROVE  \/ blobs'[b] = blobs[b]
               \/ /\ blobs'[b] = Absent /\ blobs[b] \in Nat
                  /\ clock > blobs[b] + BlobTTL /\ UNCHANGED clock
    BY <1>3 DEF Tick, Sweep, vars, effects, Stored
  <1>5. DeletionInv'
    <2> SUFFICES ASSUME NEW b \in Requests
                 PROVE  /\ pc'[b] \in BeforeDispatch => ~Stored(b)'
                        /\ now'[b] <= clock'
                        /\ Stored(b)' => now'[b] <= blobs'[b]
                        /\ b \in staged' \/ pc'[b] \in Uploaded => Held(b)'
      BY DEF DeletionInv
    <2>1. now'[b] <= clock' /\ (Stored(b)' => Stored(b) /\ blobs'[b] = blobs[b])
      BY <1>1, <1>3, <1>4 DEF DeletionInv, Stored
    <2>2. Held(b) => Held(b)'
      <3>1. CASE Stored(b)
        BY <1>1, <1>3, <1>4, <3>1 DEF Held, Stored, DeletionInv
      <3>2. CASE ~Stored(b)
        BY <1>1, <1>3, <3>2 DEF Held
      <3> QED BY <3>1, <3>2
    <2> QED BY <1>1, <2>1, <2>2 DEF DeletionInv
  <1> QED BY <1>2, <1>5

LEMMA NextNotes == NoteInv /\ [Next]_vars => NoteInv'
  <1> SUFFICES ASSUME NoteInv, [Next]_vars PROVE NoteInv'
    OBVIOUS
  <1>1. RowInv'
    BY NextRowInv DEF NoteInv
  <1>2. ASSUME NEW r \in Requests, Step(r) \/ CallLost(r) \/ Crash(r)
        PROVE  ProvenanceInv' /\ DeletionInv'
    <2>1. PICK l : Effect(r, l)
      BY <1>2, StepEffect DEF NoteInv
    <2> QED BY <2>1, EffectOwned, EffectStages, EffectHeld DEF ProvenanceInv
  <1>3. ASSUME NEW r \in Requests, NEW m \in Messages, Deliver(r, m)
        PROVE  ProvenanceInv' /\ DeletionInv'
    BY <1>3, DeliverNotes
  <1>4. CASE Tick \/ Finished \/ UNCHANGED vars \/ \E b \in Requests : Sweep(b)
    BY <1>1, <1>4, TimeNotes DEF Finished, NoteInv
  <1> QED BY <1>1, <1>2, <1>3, <1>4 DEF Next, NoteInv

------------------------------------------------------------------------------

(* What holds of notes in every reachable state, whatever overlaps.         *)
THEOREM NoteInvariant == Spec => []NoteInv
  <1>1. Init => NoteInv
    BY InitRowInv, InitNotes DEF NoteInv
  <1> QED BY <1>1, NextNotes, PTL DEF Spec

(* However requests of a phone overlap, and whatever fails, a row points,   *)
(* and a request holds on, only to voice notes of its own, allowed phone.   *)
THEOREM NotesAreTheirPhones == Spec => []NoteProvenance
  <1>1. NoteInv => NoteProvenance
    <2> SUFFICES ASSUME NoteInv PROVE NoteProvenance
      OBVIOUS
    <2> USE DEF NoteInv, ProvenanceInv
    <2>1. ASSUME NEW r \in Requests, work[r] # None
          PROVE  work[r] \in staged \ {r} /\ Sender[msg[work[r]]] = Sender[msg[r]]
      <3>1. pc[r] # "unsent"
        BY <2>1 DEF StagesOK, BeforeDispatch
      <3> QED BY <2>1, <3>1 DEF StagesOK, NotesOwned, Owned, PartitionKey
    <2> QED BY <2>1 DEF NoteProvenance, NotesOwned, Owned
  <1> QED BY <1>1, NoteInvariant, PTL

(* However requests of a phone overlap, no note that was staged disappears  *)
(* before its retention is over, but for a request that took it from a row. *)
THEOREM OnlyReadersDelete == Spec => []DeletedOnlyByReader
  <1>1. NoteInv => DeletedOnlyByReader
    BY DEF NoteInv, RowInv, TypeOK, Requests, DeletionInv, Held, DeletedOnlyByReader
  <1> QED BY <1>1, NoteInvariant, PTL
=============================================================================
