---------------------------- MODULE HandlerProofs ----------------------------
(* Theorems about Handler for any messages, phones, ring size and bounds,   *)
(* any number of overlapping requests and any interleaving of their awaits. *)
EXTENDS Handler, StateRepoProofs

(* Every await and every end of a request is a label, as TypeOK wants.      *)
LEMMA LabelsOfAwaits ==
    /\ "unsent" \in Labels /\ "dispatch" \in Labels
    /\ Awaits \subseteq Labels /\ Ended \subseteq Labels
    /\ TryBlock \subseteq Awaits
  BY DEF Labels, Awaits

(* The default record of a phone without a row is coherent, its ring empty. *)
LEMMA NoEntityOK == EntityOK(None)
  <1>1. EntityToRecord(None) =
            [state |-> Idle, blob_url |-> None, since |-> None, sid_ring |-> << >>]
    BY DEF EntityToRecord, DefaultRecord
  <1>2. Coherent(EntityToRecord(None))
    BY <1>1 DEF Coherent, Idle, Awaiting
  <1>3. RingOK(<< >>)
    BY RingSizeAssumption DEF RingOK, IsInjective
  <1> QED BY <1>1, <1>2, <1>3 DEF EntityOK

(* Recording a SID that is not known preserves a sound entity.              *)
LEMMA RecordedEntityOK ==
    ASSUME NEW e \in Entity \cup {None}, NEW sid \in Messages,
           EntityOK(e), ~IsKnownSid(e, sid)
    PROVE  RecordedEntity(e, sid) \in Entity /\ EntityOK(RecordedEntity(e, sid))
  BY RecordedEntityFacts DEF EntityOK, Coherent

(* set_state with a note and a time, or with neither, leaves a sound entity. *)
LEMMA SetStateEntityOK ==
    ASSUME NEW e \in Entity \cup {None}, EntityOK(e)
    PROVE  /\ SetStateEntity(e, Idle, None, None) \in Entity
           /\ EntityOK(SetStateEntity(e, Idle, None, None))
           /\ \A b \in Notes, t \in Nat :
                 /\ SetStateEntity(e, Awaiting, b, t) \in Entity
                 /\ EntityOK(SetStateEntity(e, Awaiting, b, t))
  <1>1. Idle \in States /\ Awaiting \in States /\ Idle # Awaiting
    BY DEF States, Idle, Awaiting
  <1>2. /\ SetStateEntity(e, Idle, None, None) \in Entity
        /\ EntityOK(SetStateEntity(e, Idle, None, None))
    <2>1. /\ SetStateEntity(e, Idle, None, None) \in Entity
          /\ EntityToRecord(SetStateEntity(e, Idle, None, None)) =
                [state |-> Idle, blob_url |-> None, since |-> None,
                 sid_ring |-> EntityToRecord(e).sid_ring]
      BY <1>1, SetStateEntityFacts
    <2> QED BY <1>1, <2>1 DEF EntityOK, Coherent
  <1>3. ASSUME NEW b \in Notes, NEW t \in Nat
        PROVE  /\ SetStateEntity(e, Awaiting, b, t) \in Entity
               /\ EntityOK(SetStateEntity(e, Awaiting, b, t))
    BY <1>1, SetStateEntityFacts, NoneAssumption DEF EntityOK, Coherent
  <1> QED BY <1>2, <1>3

------------------------------------------------------------------------------
(* The control part of a step: where it leaves pc, pending and faults. *)

ControlType ==
    /\ pc \in [Requests -> Labels]
    /\ pending \in [Requests -> BOOLEAN]
    /\ faults \in Nat

\* The step leaves the control well-typed, starts no request, and takes none to
\* the recording of its SID.
Onward ==
    /\ ControlType'
    /\ \A q \in Requests : pc'[q] # "unsent" => pc[q] # "unsent"
    /\ \A q \in Requests : pc'[q] = "record" => pc[q] = "record"

LEMMA ContinueOnward ==
    ASSUME ControlType, NEW r \in Requests, pc[r] # "unsent",
           NEW label \in Labels \ {"record"}, Continue(r, label)
    PROVE  Onward
  BY DEF ControlType, Onward, Continue, Goto

LEMMA RaiseOnward ==
    ASSUME ControlType, NEW r \in Requests, pc[r] # "unsent", Raise(r), faults' \in Nat
    PROVE  Onward
  <1>1. "reset_read" \in Labels /\ "failed" \in Labels
    BY DEF Labels, Awaits, Ended
  <1> QED BY <1>1 DEF ControlType, Onward, Raise, Goto

LEMMA ReturnOnward ==
    ASSUME ControlType, NEW r \in Requests, pc[r] # "unsent",
           NEW label \in Labels \ {"record"}, Return(r, label)
    PROVE  Onward
  <1>1. CASE Continue(r, label)
    BY <1>1, ContinueOnward
  <1>2. CASE Fault /\ Raise(r)
    <2>1. faults' \in Nat
      BY <1>2 DEF Fault, ControlType
    <2> QED BY <1>2, <2>1, RaiseOnward
  <1> QED BY <1>1, <1>2 DEF Return

------------------------------------------------------------------------------
(* Three kinds of step, by what they do to entities and snapshots. *)

(* One that changes no entity, no snapshot and no message.                  *)
LEMMA QuietStep ==
    ASSUME RowInv, TypeOK', Onward, UNCHANGED <<table, snap, msg>>
    PROVE  RowInv'
  BY DEF RowInv, Onward

------------------------------------------------------------------------------

(* One that reads the request's row into its snapshot.                      *)
LEMMA ReadStep ==
    ASSUME RowInv, TypeOK', UNCHANGED <<table, msg>>,
           NEW r \in Requests, pc[r] # "unsent",
           snap' = [snap EXCEPT ![r] = table[PartitionKey(r)]],
           \A q \in Requests \ {r} : pc'[q] = pc[q],
           pc'[r] = "record" => ~IsKnownSid(table[PartitionKey(r)], msg[r])
    PROVE  RowInv'
  <1>1. msg[r] \in Messages /\ PartitionKey(r) \in Phones
    BY HandlerAssumption DEF RowInv, PartitionKey
  <1>2. snap \in [Requests -> Entity \cup {None}]
    BY DEF RowInv, TypeOK
  <1>3. \A q \in Requests : EntityOK(snap'[q])
    BY <1>1, <1>2 DEF RowInv
  <1>4. \A q \in Requests : pc'[q] # "unsent" => msg'[q] \in Messages
    BY <1>1 DEF RowInv
  <1>5. \A q \in Requests : pc'[q] = "record" => ~IsKnownSid(snap'[q], msg'[q])
    BY <1>2 DEF RowInv
  <1> QED BY <1>3, <1>4, <1>5 DEF RowInv

(* One that replaces the request's row with a sound entity.                 *)
LEMMA WriteStep ==
    ASSUME RowInv, TypeOK', Onward, UNCHANGED <<snap, msg>>,
           NEW r \in Requests, NEW e \in Entity, EntityOK(e),
           table' = [table EXCEPT ![PartitionKey(r)] = e]
    PROVE  RowInv'
  <1>1. table \in [Phones -> Entity \cup {None}]
    BY DEF RowInv, TypeOK
  <1>2. \A p \in Phones : EntityOK(table'[p])
    BY <1>1 DEF RowInv
  <1> QED BY <1>2 DEF RowInv, Onward

(* What every step needs of the invariant.                                  *)
LEMMA Started ==
    ASSUME RowInv, NEW r \in Requests, pc[r] # "unsent"
    PROVE  msg[r] \in Messages /\ PartitionKey(r) \in Phones /\ ControlType
  BY HandlerAssumption DEF RowInv, TypeOK, ControlType, PartitionKey

------------------------------------------------------------------------------

LEMMA InitRowInv == Init => RowInv
  <1> SUFFICES ASSUME Init PROVE RowInv
    OBVIOUS
  <1>1. TypeOK
    BY LabelsOfAwaits DEF Init, TypeOK, Paths
  <1>2. \A r \in Requests : pc[r] = "unsent" /\ snap[r] = None
    BY DEF Init
  <1>3. \A p \in Phones : table[p] = None
    BY DEF Init
  <1> QED BY <1>1, <1>2, <1>3, NoEntityOK DEF RowInv

(* The gate: ring check, ring write, state load. *)
LEMMA GateStep ==
    ASSUME RowInv, NEW r \in Requests,
           CheckSid(r) \/ RecordSid(r) \/ LoadState(r)
    PROVE  RowInv'
  <1>1. CASE CheckSid(r)
    <2> DEFINE e == table[PartitionKey(r)]
               label == IF IsKnownSid(e, msg[r]) THEN "dropped" ELSE "record"
    <2>1. /\ pc[r] = "check" /\ snap' = [snap EXCEPT ![r] = e]
          /\ pc' = [pc EXCEPT ![r] = label]
          /\ UNCHANGED <<effects, clock, msg, path, work, now, pending, faults>>
      BY <1>1 DEF CheckSid, Keep, Continue, Goto
    <2>2. label \in Labels /\ e \in Entity \cup {None}
      BY <2>1, Started, LabelsOfAwaits DEF Awaits, Ended, RowInv, TypeOK
    <2>3. label = "record" => ~IsKnownSid(e, msg[r])
      OBVIOUS
    <2> HIDE DEF e, label
    <2>4. TypeOK'
      BY <2>1, <2>2 DEF effects, RowInv, TypeOK
    <2>5. /\ \A q \in Requests \ {r} : pc'[q] = pc[q]
          /\ pc'[r] = label
      BY <2>1 DEF RowInv, TypeOK
    <2> QED BY <2>1, <2>3, <2>4, <2>5, ReadStep DEF effects, e
  <1>2. CASE RecordSid(r)
    <2> DEFINE e == RecordedEntity(snap[r], msg[r])
    <2>1. Onward
      BY <1>2, ReturnOnward, Started, LabelsOfAwaits DEF RecordSid, Awaits
    <2>2. e \in Entity /\ EntityOK(e)
      BY <1>2, Started, RecordedEntityOK DEF RecordSid, RowInv, TypeOK
    <2>3. table' = [table EXCEPT ![PartitionKey(r)] = e]
      BY <1>2 DEF RecordSid
    <2> HIDE DEF e
    <2>4. TypeOK'
      BY <1>2, <2>1, <2>2, <2>3, Started, HandlerAssumption
         DEF RecordSid, locals, RowInv, TypeOK, Onward, ControlType
    <2> QED BY <1>2, <2>1, <2>2, <2>3, <2>4, WriteStep DEF RecordSid, locals
  <1>3. CASE LoadState(r)
    <2>1. Onward
      BY <1>3, ContinueOnward, Started, LabelsOfAwaits DEF LoadState, Awaits, Ended
    <2>2. snap' = [snap EXCEPT ![r] = table[PartitionKey(r)]]
      BY <1>3 DEF LoadState, Keep
    <2>3. TypeOK'
      BY <1>3, <2>1, <2>2, Started DEF LoadState, effects, RowInv, TypeOK, Onward, ControlType
    <2>4. /\ \A q \in Requests \ {r} : pc'[q] = pc[q]
          /\ pc'[r] # "record" /\ pc[r] # "unsent"
      BY <1>3 DEF LoadState, Continue, Goto, RowInv, TypeOK
    <2> QED BY <1>3, <2>2, <2>3, <2>4, ReadStep DEF LoadState, effects
  <1> QED BY <1>1, <1>2, <1>3

(* Dispatch changes nothing but the request's own locals. *)
LEMMA RunStep ==
    ASSUME RowInv, NEW r \in Requests, pc[r] = "dispatch",
           NEW handler \in Paths, NEW label \in Labels \ {"record"},
           Run(r, handler, label)
    PROVE  RowInv'
  <1>1. Onward
    BY ContinueOnward, Started DEF Run
  <1>2. View(r).blob_url \in Notes \cup {None}
    <2>1. EntityToRecord(snap[r]) \in Record
      BY RecordType DEF RowInv, TypeOK
    <2> QED BY <2>1 DEF View, Record
  <1>3. TypeOK'
    BY <1>1, <1>2 DEF Run, effects, RowInv, TypeOK, Onward, ControlType
  <1> QED BY <1>1, <1>3, QuietStep DEF Run, effects

(* The dispatch on state and kind, and the hint. *)
LEMMA DispatchStep ==
    ASSUME RowInv, NEW r \in Requests,
           DispatchIdleAudio(r) \/ DispatchIdleText(r) \/ DispatchAwaitingAudio(r)
              \/ DispatchAwaitingText(r) \/ SendHint(r)
    PROVE  RowInv'
  <1>1. CASE DispatchIdleAudio(r)
    <2>1. PICK handler \in Paths, label \in Labels \ {"record"} :
              pc[r] = "dispatch" /\ Run(r, handler, label)
      BY <1>1, LabelsOfAwaits DEF DispatchIdleAudio, Paths, Awaits, TryBlock
    <2> QED BY <2>1, RunStep
  <1>2. CASE DispatchIdleText(r)
    <2>1. PICK handler \in Paths, label \in Labels \ {"record"} :
              pc[r] = "dispatch" /\ Run(r, handler, label)
      BY <1>2, LabelsOfAwaits DEF DispatchIdleText, Paths, Awaits, TryBlock
    <2> QED BY <2>1, RunStep
  <1>3. CASE DispatchAwaitingAudio(r)
    <2>1. PICK handler \in Paths, label \in Labels \ {"record"} :
              pc[r] = "dispatch" /\ Run(r, handler, label)
      BY <1>3, LabelsOfAwaits DEF DispatchAwaitingAudio, Paths, Awaits, TryBlock
    <2> QED BY <2>1, RunStep
  <1>4. CASE DispatchAwaitingText(r)
    <2>1. PICK handler \in Paths, label \in Labels \ {"record"} :
              pc[r] = "dispatch" /\ Run(r, handler, label)
      BY <1>4, LabelsOfAwaits DEF DispatchAwaitingText, Paths, Awaits, TryBlock
    <2> QED BY <2>1, RunStep
  <1>5. CASE SendHint(r)
    <2>1. Onward
      BY <1>5, ReturnOnward, Started, LabelsOfAwaits DEF SendHint, Awaits, TryBlock, Ended, Tell, Replies
    <2>2. TypeOK'
      BY <1>5, <2>1 DEF SendHint, effects, locals, RowInv, TypeOK, Onward, ControlType, Tell, Replies
    <2> QED BY <1>5, <2>1, <2>2, QuietStep DEF SendHint, effects, locals, Tell, Replies
  <1> QED BY <1>1, <1>2, <1>3, <1>4, <1>5

(* A voice note is staged. *)
LEMMA NoteStep ==
    ASSUME RowInv, NEW r \in Requests,
           DiscardOld(r) \/ FetchMedia(r) \/ Transcode(r) \/ Upload(r)
              \/ NoteRead(r) \/ NoteWrite(r) \/ Confirm(r)
    PROVE  RowInv'
  <1>1. CASE DiscardOld(r)
    <2>1. Onward
      BY <1>1, ReturnOnward, Started, LabelsOfAwaits DEF DiscardOld, Awaits, TryBlock, Ended
    <2>2. TypeOK'
      BY <1>1, <2>1 DEF DiscardOld, effects, locals, RowInv, TypeOK, Onward, ControlType
    <2> QED BY <1>1, <2>1, <2>2, QuietStep DEF DiscardOld, effects, locals
  <1>2. CASE FetchMedia(r)
    <2>1. Onward
      BY <1>2, ContinueOnward, Started, LabelsOfAwaits DEF FetchMedia, Awaits, TryBlock, Ended
    <2>2. TypeOK'
      BY <1>2, <2>1 DEF FetchMedia, effects, locals, RowInv, TypeOK, Onward, ControlType
    <2> QED BY <1>2, <2>1, <2>2, QuietStep DEF FetchMedia, effects, locals
  <1>3. CASE Transcode(r)
    <2>1. Onward
      BY <1>3, ContinueOnward, Started, LabelsOfAwaits DEF Transcode, Awaits, TryBlock, Ended
    <2>2. TypeOK'
      BY <1>3, <2>1 DEF Transcode, effects, locals, RowInv, TypeOK, Onward, ControlType
    <2> QED BY <1>3, <2>1, <2>2, QuietStep DEF Transcode, effects, locals
  <1>4. CASE Upload(r)
    <2>1. Onward
      BY <1>4, ReturnOnward, Started, LabelsOfAwaits DEF Upload, Awaits, TryBlock, Ended
    <2>2. TypeOK'
      BY <1>4, <2>1 DEF Upload, effects, locals, RowInv, TypeOK, Onward, ControlType
    <2> QED BY <1>4, <2>1, <2>2, QuietStep DEF Upload, effects, locals
  <1>5. CASE NoteRead(r)
    <2>1. Onward
      BY <1>5, ContinueOnward, Started, LabelsOfAwaits DEF NoteRead, Awaits, Ended
    <2>2. snap' = [snap EXCEPT ![r] = table[PartitionKey(r)]]
      BY <1>5 DEF NoteRead, Keep
    <2>3. TypeOK'
      BY <1>5, <2>1, <2>2, Started DEF NoteRead, effects, RowInv, TypeOK, Onward, ControlType
    <2>4. /\ \A q \in Requests \ {r} : pc'[q] = pc[q]
          /\ pc'[r] # "record" /\ pc[r] # "unsent"
      BY <1>5 DEF NoteRead, Continue, Goto, RowInv, TypeOK
    <2> QED BY <1>5, <2>2, <2>3, <2>4, ReadStep DEF NoteRead, effects
  <1>6. CASE NoteWrite(r)
    <2> DEFINE e == SetStateEntity(snap[r], Awaiting, r, now[r])
    <2>1. Onward
      BY <1>6, ReturnOnward, Started, LabelsOfAwaits DEF NoteWrite, Awaits
    <2>2. e \in Entity /\ EntityOK(e)
      BY <1>6, Started, SetStateEntityOK DEF NoteWrite, RowInv, TypeOK, Requests
    <2>3. table' = [table EXCEPT ![PartitionKey(r)] = e]
      BY <1>6 DEF NoteWrite
    <2> HIDE DEF e
    <2>4. TypeOK'
      <3>1. table' \in [Phones -> Entity \cup {None}]
        BY <2>2, <2>3, Started DEF RowInv, TypeOK
      <3>2. staged' \subseteq Notes
        BY <1>6 DEF NoteWrite, RowInv, TypeOK, Requests
      <3> QED
        BY <1>6, <2>1, <3>1, <3>2
           DEF NoteWrite, locals, RowInv, TypeOK, Onward, ControlType
    <2> QED BY <1>6, <2>1, <2>2, <2>3, <2>4, WriteStep DEF NoteWrite, locals
  <1>7. CASE Confirm(r)
    <2>1. Onward
      BY <1>7, ReturnOnward, Started, LabelsOfAwaits DEF Confirm, Awaits, TryBlock, Ended, Tell, Replies
    <2>2. TypeOK'
      BY <1>7, <2>1 DEF Confirm, effects, locals, RowInv, TypeOK, Onward, ControlType, Tell, Replies
    <2> QED BY <1>7, <2>1, <2>2, QuietStep DEF Confirm, effects, locals, Tell, Replies
  <1> QED BY <1>1, <1>2, <1>3, <1>4, <1>5, <1>6, <1>7

(* A message sent to the user changes nothing but what was sent. *)
LEMMA SendResultStep ==
    ASSUME RowInv, NEW r \in Requests, NEW kind \in Replies \cap TryBlock,
           NEW label \in Labels \ {"record"}, SendResult(r, kind, label)
    PROVE  RowInv'
  <1>1. pc[r] # "unsent"
    BY DEF SendResult, TryBlock
  <1>2. Onward
    BY <1>1, ReturnOnward, Started DEF SendResult
  <1>3. TypeOK'
    BY <1>2 DEF SendResult, Tell, locals, RowInv, TypeOK, Onward, ControlType
  <1> QED BY <1>2, <1>3, QuietStep DEF SendResult, locals

(* A note is processed, the results sent, the row reset, the blob deleted. *)
LEMMA TextStep ==
    ASSUME RowInv, NEW r \in Requests,
           Download(r) \/ DownloadFindsNothing(r) \/ Process(r)
              \/ ProcessRaisesAoaiError(r) \/ SendTranscript(r) \/ SendSummary(r)
              \/ SendReply(r) \/ Apologise(r) \/ ResetRead(r) \/ ResetWrite(r) \/ Cleanup(r)
    PROVE  RowInv'
  <1>1. CASE Download(r)
    <2>1. Onward
      BY <1>1, ContinueOnward, Started, LabelsOfAwaits DEF Download, Awaits, TryBlock, Ended
    <2>2. TypeOK'
      BY <1>1, <2>1 DEF Download, effects, locals, RowInv, TypeOK, Onward, ControlType
    <2> QED BY <1>1, <2>1, <2>2, QuietStep DEF Download, effects, locals
  <1>2. CASE DownloadFindsNothing(r)
    <2>1. pc[r] # "unsent" /\ ControlType /\ Raise(r) /\ faults' \in Nat
      BY <1>2, Started DEF DownloadFindsNothing, Fault, ControlType, Awaits, TryBlock
    <2>2. Onward
      BY <2>1, RaiseOnward
    <2>3. TypeOK'
      BY <1>2, <2>2 DEF DownloadFindsNothing, Tell, Replies, effects, locals, RowInv, TypeOK, Onward, ControlType
    <2> QED BY <1>2, <2>2, <2>3, QuietStep DEF DownloadFindsNothing, effects, locals
  <1>3. CASE Process(r)
    <2>1. Onward
      BY <1>3, ContinueOnward, Started, LabelsOfAwaits DEF Process, Awaits, TryBlock, Ended
    <2>2. TypeOK'
      BY <1>3, <2>1 DEF Process, effects, locals, RowInv, TypeOK, Onward, ControlType
    <2> QED BY <1>3, <2>1, <2>2, QuietStep DEF Process, effects, locals
  <1>4. CASE ProcessRaisesAoaiError(r)
    <2>1. Onward
      BY <1>4, Started, LabelsOfAwaits DEF ProcessRaisesAoaiError, Goto, Fault, Onward, ControlType, InFlight, Awaits, TryBlock, Ended
    <2>2. TypeOK'
      BY <1>4, <2>1 DEF ProcessRaisesAoaiError, effects, locals, RowInv, TypeOK, Onward, ControlType
    <2> QED BY <1>4, <2>1, <2>2, QuietStep DEF ProcessRaisesAoaiError, effects, locals
  <1>5. CASE SendTranscript(r)
    <2>1. "transcript" \in Replies \cap TryBlock /\ "summary" \in Labels \ {"record"}
      BY LabelsOfAwaits DEF Replies, TryBlock, Awaits
    <2> QED BY <1>5, <2>1, SendResultStep DEF SendTranscript
  <1>6. CASE SendSummary(r)
    <2>1. "summary" \in Replies \cap TryBlock /\ "reply" \in Labels \ {"record"}
      BY LabelsOfAwaits DEF Replies, TryBlock, Awaits
    <2> QED BY <1>6, <2>1, SendResultStep DEF SendSummary
  <1>7. CASE SendReply(r)
    <2>1. "reply" \in Replies \cap TryBlock /\ "reset_read" \in Labels \ {"record"}
      BY LabelsOfAwaits DEF Replies, TryBlock, Awaits
    <2> QED BY <1>7, <2>1, SendResultStep DEF SendReply
  <1>8. CASE Apologise(r)
    <2>1. pc[r] # "unsent" /\ ControlType /\ Raise(r) /\ faults' \in Nat
      BY <1>8, Started DEF Apologise, Fault, ControlType, Awaits, TryBlock
    <2>2. Onward
      BY <2>1, RaiseOnward
    <2>3. TypeOK'
      BY <1>8, <2>2 DEF Apologise, Tell, Replies, effects, locals, RowInv, TypeOK, Onward, ControlType
    <2> QED BY <1>8, <2>2, <2>3, QuietStep DEF Apologise, effects, locals
  <1>9. CASE ResetRead(r)
    <2>1. Onward
      BY <1>9, ContinueOnward, Started, LabelsOfAwaits DEF ResetRead, Awaits, Ended
    <2>2. snap' = [snap EXCEPT ![r] = table[PartitionKey(r)]]
      BY <1>9 DEF ResetRead, Keep
    <2>3. TypeOK'
      BY <1>9, <2>1, <2>2, Started DEF ResetRead, effects, RowInv, TypeOK, Onward, ControlType
    <2>4. /\ \A q \in Requests \ {r} : pc'[q] = pc[q]
          /\ pc'[r] # "record" /\ pc[r] # "unsent"
      BY <1>9 DEF ResetRead, Continue, Goto, RowInv, TypeOK
    <2> QED BY <1>9, <2>2, <2>3, <2>4, ReadStep DEF ResetRead, effects
  <1>10. CASE ResetWrite(r)
    <2> DEFINE e == SetStateEntity(snap[r], Idle, None, None)
    <2>1. Onward
      BY <1>10, ReturnOnward, Started, LabelsOfAwaits DEF ResetWrite, Awaits
    <2>2. e \in Entity /\ EntityOK(e)
      BY <1>10, Started, SetStateEntityOK DEF ResetWrite, RowInv, TypeOK
    <2>3. table' = [table EXCEPT ![PartitionKey(r)] = e]
      BY <1>10 DEF ResetWrite
    <2> HIDE DEF e
    <2>4. TypeOK'
      BY <1>10, <2>1, <2>2, <2>3, Started, HandlerAssumption
         DEF ResetWrite, locals, RowInv, TypeOK, Onward, ControlType
    <2> QED BY <1>10, <2>1, <2>2, <2>3, <2>4, WriteStep DEF ResetWrite, locals
  <1>11. CASE Cleanup(r)
    <2>1. Onward
      <3>1. pc[r] # "unsent" /\ ControlType
        BY <1>11, Started DEF Cleanup
      <3>2. "failed" \in Labels \ {"record"} /\ "done" \in Labels \ {"record"}
        BY LabelsOfAwaits DEF Ended
      <3>3. CASE Continue(r, IF pending[r] THEN "failed" ELSE "done")
        BY <3>1, <3>2, <3>3, ContinueOnward
      <3>4. CASE Fault /\ Raise(r)
        BY <3>1, <3>4, RaiseOnward DEF Fault, ControlType
      <3> QED BY <1>11, <3>3, <3>4 DEF Cleanup
    <2>2. TypeOK'
      BY <1>11, <2>1 DEF Cleanup, locals, RowInv, TypeOK, Onward, ControlType
    <2> QED BY <1>11, <2>1, <2>2, QuietStep DEF Cleanup, locals
  <1> QED BY <1>1, <1>2, <1>3, <1>4, <1>5, <1>6, <1>7, <1>8, <1>9, <1>10, <1>11

(* Delivery, faults and the lifecycle rule. *)
LEMMA RequestStep ==
    ASSUME RowInv, NEW r \in Requests,
           CallLost(r) \/ Crash(r) \/ Sweep(r) \/ \E m \in Messages : Deliver(r, m)
    PROVE  RowInv'
  <1>1. CASE CallLost(r)
    <2>1. pc[r] # "unsent" /\ ControlType /\ Raise(r) /\ faults' \in Nat
      BY <1>1, Started DEF CallLost, Fault, ControlType, Awaits, TryBlock
    <2>2. Onward
      BY <2>1, RaiseOnward
    <2>3. TypeOK'
      BY <1>1, <2>2 DEF CallLost, Tell, Replies, effects, locals, RowInv, TypeOK, Onward, ControlType
    <2> QED BY <1>1, <2>2, <2>3, QuietStep DEF CallLost, effects, locals
  <1>2. CASE Crash(r)
    <2>1. Onward
      BY <1>2, Started, LabelsOfAwaits DEF Crash, Goto, Fault, Onward, ControlType, InFlight, Awaits, TryBlock, Ended
    <2>2. TypeOK'
      BY <1>2, <2>1 DEF Crash, effects, locals, RowInv, TypeOK, Onward, ControlType
    <2> QED BY <1>2, <2>1, <2>2, QuietStep DEF Crash, effects, locals
  <1>3. CASE Sweep(r)
    <2>1. TypeOK'
      BY <1>3 DEF Sweep, locals, RowInv, TypeOK
    <2> QED BY <1>3, <2>1 DEF Sweep, locals, RowInv
  <1>4. ASSUME NEW m \in Messages, Deliver(r, m) PROVE RowInv'
    <2>1. /\ pc[r] = "unsent" /\ msg' = [msg EXCEPT ![r] = m]
          /\ UNCHANGED <<effects, clock, path, snap, work, now, pending, faults>>
      BY <1>4 DEF Deliver
    <2>2. PICK label \in Labels \ {"record"} : pc' = [pc EXCEPT ![r] = label]
      BY <1>4, LabelsOfAwaits DEF Deliver, Goto, Awaits, Ended
    <2>3. TypeOK'
      BY <2>1, <2>2 DEF effects, RowInv, TypeOK
    <2>4. \A q \in Requests : pc'[q] # "unsent" => msg'[q] \in Messages
      BY <2>1, <2>2 DEF RowInv, TypeOK
    <2>5. \A q \in Requests : pc'[q] = "record" => ~IsKnownSid(snap'[q], msg'[q])
      BY <2>1, <2>2 DEF RowInv, TypeOK
    <2> QED BY <2>1, <2>3, <2>4, <2>5 DEF RowInv, effects
  <1> QED BY <1>1, <1>2, <1>3, <1>4

(* Every step keeps the invariant. *)
LEMMA NextRowInv == RowInv /\ [Next]_vars => RowInv'
  <1> SUFFICES ASSUME RowInv, [Next]_vars PROVE RowInv'
    OBVIOUS
  <1>1. ASSUME NEW r \in Requests, Step(r) PROVE RowInv'
    BY <1>1, GateStep, DispatchStep, NoteStep, TextStep DEF Step
  <1>2. ASSUME NEW r \in Requests,
               CallLost(r) \/ Crash(r) \/ Sweep(r) \/ \E m \in Messages : Deliver(r, m)
        PROVE RowInv'
    BY <1>2, RequestStep
  <1>3. CASE Tick
    <2>1. TypeOK'
      BY <1>3 DEF Tick, effects, locals, RowInv, TypeOK
    <2> QED BY <1>3, <2>1 DEF Tick, effects, locals, RowInv
  <1>4. CASE UNCHANGED vars
    <2>1. TypeOK'
      BY <1>4 DEF vars, effects, locals, RowInv, TypeOK
    <2> QED BY <1>4, <2>1 DEF vars, effects, locals, RowInv
  <1> QED BY <1>1, <1>2, <1>3, <1>4 DEF Next, Finished

(* Whatever the interleaving of requests, faults and time: the inductive    *)
(* invariant holds of every reachable state.                                *)
THEOREM RowInvariant == Spec => []RowInv
  <1> QED BY InitRowInv, NextRowInv, PTL DEF Spec

(* Every variable keeps its type.                                           *)
THEOREM TypeCorrect == Spec => []TypeOK
  <1>1. RowInv => TypeOK
    BY DEF RowInv
  <1> QED BY <1>1, RowInvariant, PTL

(* However set_state and check_and_record_sid race, the row of a phone      *)
(* awaits context exactly when it points to a note: the record handlers.py  *)
(* calls a defensive impossibility is one.                                  *)
THEOREM RowsCoherent == Spec => []RowCoherent
  <1>1. RowInv => RowCoherent
    BY DEF RowInv, RowCoherent, EntityOK, Row
  <1> QED BY <1>1, RowInvariant, PTL

(* However the two read-modify-writes race, no ring outgrows                *)
(* idempotency_ring_size or repeats a SID.                                  *)
THEOREM RingsSound == Spec => []RingSound
  <1>1. RowInv => RingSound
    BY DEF RowInv, RingSound, EntityOK, Row
  <1> QED BY <1>1, RowInvariant, PTL
=============================================================================
