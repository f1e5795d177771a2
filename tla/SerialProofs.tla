---------------------------- MODULE SerialProofs -----------------------------
(* What Handler guarantees while a phone has one request at a time: replays *)
(* are absorbed, and the handler implements Conversation.                   *)
EXTENDS NoteProofs, FiniteSetTheorems

(* A ring is the newest part of the history of its phone.                   *)
RingIsRecent(ring, history) ==
    /\ Len(ring) = IF Len(history) <= RingSize THEN Len(history) ELSE RingSize
    /\ \A i \in 1 .. Len(ring) : ring[i] = history[Len(history) - Len(ring) + i]

\* m is not among the RingSize newest of the history.
Unseen(history, m) ==
    \A i \in DOMAIN history : history[i] = m => Len(history) + 1 - i > RingSize

\* The awaits at which a request is about to write back the row it read.
Writing == {"record", "note_write", "reset_write"}

OneAtATime ==
    \A q, r \in Requests :
        InFlight(q) /\ InFlight(r) /\ Sender[msg[q]] = Sender[msg[r]] => q = r

RingsRecent == \A p \in Phones : RingIsRecent(Row(p).sid_ring, accepted[p])

SnapshotsCurrent ==
    \A r \in Requests : pc[r] \in Writing => snap[r] = table[PartitionKey(r)]

SerialInv ==
    /\ RowInv
    /\ OneAtATime /\ RingsRecent /\ SnapshotsCurrent /\ OwnNoteUnstaged
    /\ ReplayAbsorbed

------------------------------------------------------------------------------
(* Rings and histories *)

(* Appending to a recent ring and to its history keeps the ring recent.     *)
LEMMA AppendRecent ==
    ASSUME NEW ring \in Seq(Messages), NEW history \in Seq(Messages),
           NEW sid \in Messages, RingIsRecent(ring, history)
    PROVE  RingIsRecent(AppendSid(ring, sid), Append(history, sid))
  <1> DEFINE n == Len(ring)
             k == Len(history)
             appended == Append(ring, sid)
             longer == Append(history, sid)
  <1> USE RingSizeAssumption
  <1>1. /\ n \in Nat /\ k \in Nat /\ n <= k
        /\ n = IF k <= RingSize THEN k ELSE RingSize
        /\ \A i \in 1 .. n : ring[i] = history[k - n + i]
    <2>1. n \in Nat /\ k \in Nat
      OBVIOUS
    <2>2. /\ n = IF k <= RingSize THEN k ELSE RingSize
          /\ \A i \in 1 .. n : ring[i] = history[k - n + i]
      BY DEF RingIsRecent
    <2> HIDE DEF n, k
    <2> QED BY <2>1, <2>2
  <1>2. /\ appended \in Seq(Messages) /\ Len(appended) = n + 1
        /\ \A i \in 1 .. n : appended[i] = ring[i]
        /\ appended[n + 1] = sid
    OBVIOUS
  <1>3. /\ Len(longer) = k + 1
        /\ \A i \in 1 .. k : longer[i] = history[i]
        /\ longer[k + 1] = sid
    OBVIOUS
  <1>4. AppendSid(ring, sid) =
           IF n + 1 > RingSize THEN SubSeq(appended, n + 1 - RingSize + 1, n + 1)
                               ELSE appended
    BY <1>2 DEF AppendSid
  <1> HIDE DEF appended, longer, n, k
  <1>5. \A i \in 1 .. n + 1 : appended[i] = longer[k - n + i]
    <2> TAKE i \in 1 .. n + 1
    <2>1. CASE i \in 1 .. n
      <3>1. k - n + i \in 1 .. k
        BY <1>1, <2>1
      <3> QED BY <1>1, <1>2, <1>3, <2>1, <3>1
    <2>2. CASE i = n + 1
      <3>1. k - n + i = k + 1
        BY <1>1, <2>2
      <3> QED BY <1>2, <1>3, <2>2, <3>1
    <2> QED BY <1>1, <2>1, <2>2
  <1>6. CASE n + 1 <= RingSize
    <2>1. AppendSid(ring, sid) = appended /\ n = k
      BY <1>1, <1>4, <1>6
    <2>2. RingIsRecent(appended, longer)
      BY <1>1, <1>2, <1>3, <1>5, <1>6, <2>1 DEF RingIsRecent
    <2> QED BY <2>1, <2>2 DEF longer
  <1>7. CASE n + 1 > RingSize
    <2>1. n = RingSize /\ ~(k + 1 <= RingSize)
      BY <1>1, <1>7
    <2> DEFINE new == SubSeq(appended, 2, RingSize + 1)
    <2>2. AppendSid(ring, sid) = new
      <3>1. n + 1 - RingSize + 1 = 2 /\ n + 1 = RingSize + 1
        BY <1>1, <2>1
      <3> QED BY <1>4, <1>7, <3>1, Zenon
    <2>3. /\ Len(new) = RingSize
          /\ \A i \in 1 .. RingSize : new[i] = appended[i + 1]
      BY <1>2, <2>1
    <2> HIDE DEF new
    <2>4. ASSUME NEW i \in 1 .. RingSize
          PROVE  new[i] = longer[(k + 1) - RingSize + i]
      <3>1. i + 1 \in 1 .. n + 1 /\ k - n + (i + 1) = (k + 1) - RingSize + i
        BY <1>1, <2>1
      <3> QED BY <1>5, <2>3, <3>1
    <2>5. RingIsRecent(new, longer)
      BY <1>3, <2>1, <2>3, <2>4 DEF RingIsRecent
    <2> QED BY <2>2, <2>5 DEF longer
  <1> QED BY <1>1, <1>6, <1>7

(* A SID that is not in a recent ring was not seen for RingSize messages.   *)
LEMMA UnknownUnseen ==
    ASSUME NEW ring \in Seq(Messages), NEW history \in Seq(Messages), NEW sid,
           RingIsRecent(ring, history), sid \notin Range(ring)
    PROVE  Unseen(history, sid)
  <1> SUFFICES ASSUME NEW i \in DOMAIN history, history[i] = sid
               PROVE  Len(history) + 1 - i > RingSize
    BY DEF Unseen
  <1> DEFINE n == Len(ring)
             k == Len(history)
             j == i - (k - n)
  <1>1. n \in Nat /\ k \in Nat /\ i \in 1 .. k /\ DOMAIN ring = 1 .. n
    OBVIOUS
  <1>2. n = IF k <= RingSize THEN k ELSE RingSize
    BY DEF RingIsRecent
  <1>3. j \notin 1 .. n
    <2>1. SUFFICES ASSUME j \in 1 .. n PROVE FALSE
      OBVIOUS
    <2>2. ring[j] = history[k - n + j] /\ k - n + j = i
      BY <1>1, <2>1 DEF RingIsRecent
    <2> QED BY <1>1, <2>1, <2>2 DEF Range
  <1> QED BY <1>1, <1>2, <1>3, RingSizeAssumption

(* What keeps a history free of early repetitions.                          *)
LEMMA AppendUnseen ==
    ASSUME NEW history \in Seq(Messages), NEW sid \in Messages,
           Unseen(history, sid),
           \A i, j \in DOMAIN history :
              i < j /\ history[i] = history[j] => j - i > RingSize
    PROVE  \A i, j \in DOMAIN Append(history, sid) :
              i < j /\ Append(history, sid)[i] = Append(history, sid)[j]
                 => j - i > RingSize
  <1> DEFINE k == Len(history)
             longer == Append(history, sid)
  <1>1. /\ k \in Nat /\ DOMAIN history = 1 .. k /\ DOMAIN longer = 1 .. k + 1
        /\ \A i \in 1 .. k : longer[i] = history[i]
        /\ longer[k + 1] = sid
    OBVIOUS
  <1> HIDE DEF k, longer
  <1>2. ASSUME NEW i \in 1 .. k + 1, NEW j \in 1 .. k + 1, i < j, longer[i] = longer[j]
        PROVE  j - i > RingSize
    <2>1. i \in 1 .. k
      BY <1>1, <1>2
    <2>2. CASE j \in 1 .. k
      BY <1>1, <1>2, <2>1, <2>2
    <2>3. CASE j = k + 1
      BY <1>1, <1>2, <2>1, <2>3 DEF Unseen, k
    <2> QED BY <1>1, <2>2, <2>3
  <1> QED BY <1>1, <1>2 DEF longer

------------------------------------------------------------------------------
(* Steps of one request *)

\* The step of r moves r alone, from an await to the label l, and not back to
\* before its note is staged.
Moves(r, l) ==
    /\ InFlight(r)
    /\ Goto(r, l)
    /\ l \in BeforeNote => pc[r] \in BeforeNote
    /\ UNCHANGED msg

(* Wherever it is awaited, a call returns, or raises into one of two places. *)
LEMMA ReturnGoesOn ==
    ASSUME NEW r, NEW label, Return(r, label)
    PROVE  Goto(r, label) \/ Goto(r, "reset_read") \/ Goto(r, "failed")
  BY RaiseGoes DEF Return, Continue

(* A request about to write is in flight.                                   *)
LEMMA WritingInFlight == \A r \in Requests : pc[r] \in Writing => InFlight(r)
  BY DEF Writing, InFlight, Awaits

(* One request at a time goes on to hold.                                   *)
LEMMA MovesAlone ==
    ASSUME SerialInv, NEW r \in Requests, NEW l, Moves(r, l)
    PROVE  /\ OneAtATime'
           /\ \A q \in Requests \ {r} : pc'[q] = pc[q]
           /\ pc'[r] = l
  <1>1. /\ \A q \in Requests \ {r} : pc'[q] = pc[q]
        /\ pc'[r] = l /\ UNCHANGED msg /\ InFlight(r)
    BY DEF Moves, Goto, SerialInv, RowInv, TypeOK
  <1>2. \A q \in Requests : InFlight(q)' => InFlight(q)
    BY <1>1 DEF InFlight
  <1> QED BY <1>1, <1>2 DEF SerialInv, OneAtATime

(* A note not staged before stays so, if it is not the request's own.       *)
LEMMA MovesUnstaged ==
    ASSUME SerialInv, NEW r \in Requests, NEW l, Moves(r, l),
           \/ UNCHANGED staged
           \/ l \notin BeforeNote /\ staged' = staged \cup {r}
    PROVE  OwnNoteUnstaged'
  <1>1. /\ \A q \in Requests \ {r} : pc'[q] = pc[q]
        /\ pc'[r] = l /\ (l \in BeforeNote => pc[r] \in BeforeNote)
    BY MovesAlone DEF Moves
  <1> QED BY <1>1 DEF SerialInv, OwnNoteUnstaged

(* The histories and the rows as Conversation sees them are left alone.     *)
LEMMA QuietConversation ==
    ASSUME UNCHANGED <<table, staged, accepted>>
    PROVE  UNCHANGED Conversation!cvars
  BY DEF Conversation!cvars, NoteOf, Row

(* A step that leaves row, ring and histories alone, and either does not    *)
(* come to write, or has just read what it will write back.                 *)
LEMMA QuietSerial ==
    ASSUME SerialInv, RowInv', NEW r \in Requests, NEW l, Moves(r, l),
           UNCHANGED <<table, accepted, staged>>,
           \/ l \notin Writing /\ UNCHANGED snap
           \/ snap' = [snap EXCEPT ![r] = table[PartitionKey(r)]]
    PROVE  SerialInv' /\ [Conversation!Next]_Conversation!cvars
  <1>1. /\ \A q \in Requests \ {r} : pc'[q] = pc[q]
        /\ pc'[r] = l /\ OneAtATime'
    BY MovesAlone
  <1>2. OwnNoteUnstaged'
    BY MovesUnstaged
  <1>3. RingsRecent' /\ ReplayAbsorbed'
    BY DEF SerialInv, RingsRecent, ReplayAbsorbed, Row
  <1>4. SnapshotsCurrent'
    <2> SUFFICES ASSUME NEW q \in Requests, pc'[q] \in Writing
                 PROVE  snap'[q] = table'[PartitionKey(q)']
      BY DEF SnapshotsCurrent
    <2>1. PartitionKey(q)' = PartitionKey(q) /\ UNCHANGED table
      BY DEF PartitionKey, Moves
    <2>2. CASE q = r
      BY <1>1, <2>1, <2>2 DEF SerialInv, RowInv, TypeOK
    <2>3. CASE q # r
      BY <1>1, <2>1, <2>3 DEF SerialInv, SnapshotsCurrent, RowInv, TypeOK
    <2> QED BY <2>2, <2>3
  <1> QED BY <1>1, <1>2, <1>3, <1>4, QuietConversation DEF SerialInv

(* A step that writes the row: every other request about to write is one of *)
(* another phone.                                                           *)
LEMMA WriteCurrent ==
    ASSUME SerialInv, NEW r \in Requests, NEW l, Moves(r, l), l \notin Writing,
           UNCHANGED snap, NEW e, table' = [table EXCEPT ![PartitionKey(r)] = e]
    PROVE  SnapshotsCurrent'
  <1>1. /\ \A q \in Requests \ {r} : pc'[q] = pc[q]
        /\ pc'[r] = l /\ InFlight(r) /\ UNCHANGED msg
    BY MovesAlone DEF Moves
  <1> SUFFICES ASSUME NEW q \in Requests, pc'[q] \in Writing
               PROVE  snap'[q] = table'[PartitionKey(q)']
    BY DEF SnapshotsCurrent
  <1>2. q # r /\ pc[q] \in Writing
    BY <1>1
  <1>3. PartitionKey(q)' = PartitionKey(q)
    BY <1>1 DEF PartitionKey
  <1>4. PartitionKey(q) # PartitionKey(r)
    BY <1>1, <1>2, WritingInFlight DEF SerialInv, OneAtATime, PartitionKey
  <1>5. PartitionKey(q) \in Phones
    BY <1>2, Started DEF SerialInv, Writing
  <1>6. table'[PartitionKey(q)] = table[PartitionKey(q)]
    BY <1>4, <1>5 DEF SerialInv, RowInv, TypeOK
  <1> QED BY <1>2, <1>3, <1>6 DEF SerialInv, SnapshotsCurrent

(* The calls that touch neither the row nor a snapshot.                     *)
LEMMA QuietStepsMove ==
    ASSUME RowInv, NEW r \in Requests,
           \/ SendHint(r) \/ DiscardOld(r) \/ FetchMedia(r) \/ Transcode(r)
           \/ Upload(r) \/ Confirm(r) \/ Download(r) \/ DownloadFindsNothing(r)
           \/ Process(r) \/ ProcessRaisesAoaiError(r) \/ SendTranscript(r)
           \/ SendSummary(r) \/ SendReply(r) \/ Apologise(r) \/ Cleanup(r)
           \/ CallLost(r) \/ Crash(r)
    PROVE  /\ \E l : l \notin Writing /\ Moves(r, l)
           /\ UNCHANGED <<table, accepted, staged, snap>>
  <1> USE DEF InFlight, Awaits, TryBlock, Writing, BeforeNote, BeforeDispatch, Staging, Moves
  <1>1. CASE SendHint(r) \/ DiscardOld(r) \/ Upload(r) \/ Confirm(r)
    <2>1. UNCHANGED <<table, accepted, staged, snap, msg>>
      BY <1>1 DEF SendHint, DiscardOld, Upload, Confirm, locals
    <2>2. CASE SendHint(r)
      <3>1. pc[r] = "hint" /\ Return(r, "done")
        BY <2>2 DEF SendHint
      <3> QED BY <2>1, <3>1, ReturnGoesOn
    <2>3. CASE DiscardOld(r)
      <3>1. pc[r] = "discard" /\ Return(r, "fetch")
        BY <2>3 DEF DiscardOld
      <3> QED BY <2>1, <3>1, ReturnGoesOn
    <2>4. CASE Upload(r)
      <3>1. pc[r] = "upload" /\ Return(r, "note_read")
        BY <2>4 DEF Upload
      <3> QED BY <2>1, <3>1, ReturnGoesOn
    <2>5. CASE Confirm(r)
      <3>1. pc[r] = "confirm" /\ Return(r, "done")
        BY <2>5 DEF Confirm
      <3> QED BY <2>1, <3>1, ReturnGoesOn
    <2> QED BY <1>1, <2>2, <2>3, <2>4, <2>5
  <1>2. CASE FetchMedia(r) \/ Transcode(r) \/ Download(r) \/ Process(r)
                \/ ProcessRaisesAoaiError(r) \/ Crash(r)
    <2>1. UNCHANGED <<table, accepted, staged, snap, msg>>
      BY <1>2 DEF FetchMedia, Transcode, Download, Process,
                  ProcessRaisesAoaiError, Crash, effects, locals
    <2>2. \/ pc[r] = "fetch" /\ Goto(r, "transcode")
          \/ pc[r] = "transcode" /\ Goto(r, "upload")
          \/ pc[r] = "download" /\ Goto(r, "process")
          \/ pc[r] = "process" /\ Goto(r, "transcript")
          \/ pc[r] = "process" /\ Goto(r, "apology")
          \/ InFlight(r) /\ Goto(r, "crashed")
      BY <1>2 DEF FetchMedia, Transcode, Download, Process,
                  ProcessRaisesAoaiError, Crash, Continue
    <2> QED BY <2>1, <2>2
  <1>3. CASE SendTranscript(r) \/ SendSummary(r) \/ SendReply(r)
    <2>1. UNCHANGED <<table, accepted, staged, snap, msg>>
      BY <1>3 DEF SendTranscript, SendSummary, SendReply, SendResult, locals
    <2>2. \/ pc[r] = "transcript" /\ Return(r, "summary")
          \/ pc[r] = "summary" /\ Return(r, "reply")
          \/ pc[r] = "reply" /\ Return(r, "reset_read")
      BY <1>3 DEF SendTranscript, SendSummary, SendReply, SendResult
    <2>3. /\ pc[r] \in {"transcript", "summary", "reply"}
          /\ \/ Goto(r, "summary") \/ Goto(r, "reply")
             \/ Goto(r, "reset_read") \/ Goto(r, "failed")
      BY <2>2, ReturnGoesOn
    <2> QED BY <2>1, <2>3
  <1>4. CASE DownloadFindsNothing(r) \/ Apologise(r) \/ CallLost(r)
    <2>1. UNCHANGED <<table, accepted, staged, snap, msg>>
      BY <1>4 DEF DownloadFindsNothing, Apologise, CallLost, effects, locals
    <2>2. pc[r] \in Awaits /\ Raise(r)
      BY <1>4 DEF DownloadFindsNothing, Apologise, CallLost
    <2> QED BY <2>1, <2>2, RaiseGoes
  <1>5. CASE Cleanup(r)
    <2>1. UNCHANGED <<table, accepted, staged, snap, msg>>
      BY <1>5 DEF Cleanup, locals
    <2>2. /\ pc[r] = "cleanup"
          /\ \/ Goto(r, "failed") \/ Goto(r, "done") \/ Goto(r, "reset_read")
      BY <1>5, RaiseGoes DEF Cleanup, Continue
    <2> QED BY <2>1, <2>2
  <1> QED BY <1>1, <1>2, <1>3, <1>4, <1>5

(* The transition handlers are entered without a call.                      *)
LEMMA DispatchMoves ==
    ASSUME RowInv, NEW r \in Requests,
           DispatchIdleAudio(r) \/ DispatchIdleText(r)
              \/ DispatchAwaitingAudio(r) \/ DispatchAwaitingText(r)
    PROVE  /\ \E l : l \notin Writing /\ Moves(r, l)
           /\ UNCHANGED <<table, accepted, staged, snap>>
  <1>1. /\ pc[r] = "dispatch"
        /\ \E l \in {"fetch", "hint", "discard", "download"} : \E h \in Paths : Run(r, h, l)
    BY DEF DispatchIdleAudio, DispatchIdleText, DispatchAwaitingAudio,
           DispatchAwaitingText, Paths
  <1>2. PICK l \in {"fetch", "hint", "discard", "download"} : \E h \in Paths : Run(r, h, l)
    BY <1>1
  <1>3. Goto(r, l) /\ UNCHANGED <<table, accepted, staged, snap, msg>>
    BY <1>2 DEF Run, Continue, effects
  <1>4. l \notin Writing
    BY DEF Writing
  <1>5. Moves(r, l)
    BY <1>1, <1>3 DEF Moves, InFlight, BeforeNote, BeforeDispatch, Staging
  <1> QED BY <1>3, <1>4, <1>5

(* The calls that read the row.                                             *)
LEMMA ReadsMove ==
    ASSUME RowInv, NEW r \in Requests,
           CheckSid(r) \/ LoadState(r) \/ NoteRead(r) \/ ResetRead(r)
    PROVE  /\ \E l : Moves(r, l)
           /\ UNCHANGED <<table, accepted, staged>>
           /\ snap' = [snap EXCEPT ![r] = table[PartitionKey(r)]]
  <1>1. /\ UNCHANGED <<table, accepted, staged, msg>>
        /\ snap' = [snap EXCEPT ![r] = table[PartitionKey(r)]]
    BY DEF CheckSid, LoadState, NoteRead, ResetRead, Keep, effects
  <1>2. \/ pc[r] = "check" /\ (Goto(r, "dropped") \/ Goto(r, "record"))
        \/ pc[r] = "load" /\ Goto(r, "dispatch")
        \/ pc[r] = "note_read" /\ Goto(r, "note_write")
        \/ pc[r] = "reset_read" /\ Goto(r, "reset_write")
    BY DEF CheckSid, LoadState, NoteRead, ResetRead, Continue
  <1> QED BY <1>1, <1>2 DEF Moves, InFlight, Awaits, TryBlock, BeforeNote, BeforeDispatch, Staging

------------------------------------------------------------------------------
(* The three writes *)

(* A row replaced by an entity with the same ring leaves rings recent.      *)
LEMMA SameRing ==
    ASSUME SerialInv, NEW p \in Phones, NEW e, UNCHANGED accepted,
           table' = [table EXCEPT ![p] = e],
           EntityToRecord(e).sid_ring = Row(p).sid_ring
    PROVE  RingsRecent' /\ ReplayAbsorbed'
  <1>1. \A q \in Phones : Row(q)'.sid_ring = Row(q).sid_ring
    BY DEF Row, SerialInv, RowInv, TypeOK
  <1> QED BY <1>1 DEF SerialInv, RingsRecent, ReplayAbsorbed

(* Recording a SID: a new message of the conversation.                      *)
LEMMA RecordSerial ==
    ASSUME SerialInv, RowInv', NEW r \in Requests, RecordSid(r)
    PROVE  SerialInv' /\ [Conversation!Next]_Conversation!cvars
  <1> PICK p \in Phones : p = PartitionKey(r)
    BY Started DEF SerialInv, RecordSid
  <1> DEFINE m == msg[r]
             e == RecordedEntity(snap[r], m)
  <1>1. /\ pc[r] = "record" /\ Return(r, "load")
        /\ UNCHANGED <<staged, snap, msg>>
        /\ table' = [table EXCEPT ![p] = e]
        /\ accepted' = [accepted EXCEPT ![p] = Append(@, m)]
    BY DEF RecordSid, locals, PartitionKey
  <1>2. PICK l \in {"load", "reset_read", "failed"} : Goto(r, l)
    BY <1>1, ReturnGoesOn
  <1>3. Moves(r, l) /\ l \notin Writing
    BY <1>1, <1>2 DEF Moves, InFlight, Awaits, BeforeNote, BeforeDispatch, Staging, Writing
  <1>4. /\ m \in Messages /\ p \in Phones
        /\ snap[r] \in Entity \cup {None} /\ snap[r] = table[p]
        /\ EntityOK(snap[r]) /\ ~IsKnownSid(snap[r], m)
    BY <1>1, Started DEF SerialInv, RowInv, TypeOK, SnapshotsCurrent, Writing
  <1>5. /\ Row(p).sid_ring \in Seq(Messages) /\ accepted[p] \in Seq(Messages)
        /\ RingIsRecent(Row(p).sid_ring, accepted[p])
        /\ m \notin Range(Row(p).sid_ring)
    BY <1>4, RecordType DEF Row, IsKnownSid, Record, Ring, SerialInv, RowInv, TypeOK, RingsRecent
  <1>6. /\ EntityToRecord(e).sid_ring = AppendSid(Row(p).sid_ring, m)
        /\ EntityToRecord(e).blob_url = Row(p).blob_url
    BY <1>4, RecordedEntityFacts DEF Row, EntityOK
  <1>7. Unseen(accepted[p], m)
    BY <1>5, UnknownUnseen
  <1>8. /\ accepted'[p] = Append(accepted[p], m)
        /\ \A q \in Phones \ {p} : accepted'[q] = accepted[q]
        /\ Row(p)' = EntityToRecord(e)
        /\ \A q \in Phones \ {p} : Row(q)' = Row(q)
    BY <1>1, <1>4 DEF Row, SerialInv, RowInv, TypeOK
  <1> HIDE DEF e, m
  <1>9. RingsRecent'
    <2> SUFFICES ASSUME NEW q \in Phones
                 PROVE  RingIsRecent(Row(q)'.sid_ring, accepted'[q])
      BY DEF RingsRecent, RingIsRecent
    <2>1. CASE q = p
      <3>1. RingIsRecent(AppendSid(Row(p).sid_ring, m), Append(accepted[p], m))
        BY <1>4, <1>5, AppendRecent
      <3>2. /\ Row(q)'.sid_ring = AppendSid(Row(p).sid_ring, m)
            /\ accepted'[q] = Append(accepted[p], m)
        BY <1>6, <1>8, <2>1
      <3> QED BY <3>1, <3>2
    <2>2. CASE q # p
      BY <1>8, <2>2 DEF SerialInv, RingsRecent
    <2> QED BY <2>1, <2>2
  <1>10. ReplayAbsorbed'
    <2> SUFFICES ASSUME NEW q \in Phones
                 PROVE  \A i, j \in DOMAIN accepted'[q] :
                           i < j /\ accepted'[q][i] = accepted'[q][j] => j - i > RingSize
      BY DEF ReplayAbsorbed
    <2>1. CASE q = p
      <3> DEFINE longer == Append(accepted[p], m)
      <3>1. \A i, j \in DOMAIN longer :
               i < j /\ longer[i] = longer[j] => j - i > RingSize
        BY <1>4, <1>5, <1>7, AppendUnseen DEF SerialInv, ReplayAbsorbed
      <3>2. accepted'[q] = longer
        BY <1>8, <2>1
      <3> HIDE DEF longer
      <3> QED BY <3>1, <3>2
    <2>2. CASE q # p
      BY <1>8, <2>2 DEF SerialInv, ReplayAbsorbed
    <2> QED BY <2>1, <2>2
  <1>11. Conversation!Accept(p, m)
    <2>1. Conversation!Fresh(p, m)
      BY <1>7 DEF Conversation!Fresh, Unseen
    <2>2. \A q \in Phones : NoteOf(q)' = NoteOf(q)
      BY <1>4, <1>6, <1>8 DEF NoteOf
    <2> QED BY <1>1, <2>1, <2>2 DEF Conversation!Accept
  <1>12. OneAtATime' /\ OwnNoteUnstaged' /\ SnapshotsCurrent'
    BY <1>1, <1>3, MovesAlone, MovesUnstaged, WriteCurrent
  <1> QED BY <1>4, <1>9, <1>10, <1>11, <1>12 DEF SerialInv, Conversation!Next

(* Pointing the row to a new note: it was never staged before.              *)
LEMMA NoteSerial ==
    ASSUME SerialInv, RowInv', NEW r \in Requests, NoteWrite(r)
    PROVE  SerialInv' /\ [Conversation!Next]_Conversation!cvars
  <1> PICK p \in Phones : p = PartitionKey(r)
    BY Started DEF SerialInv, NoteWrite
  <1> DEFINE e == SetStateEntity(snap[r], Awaiting, r, now[r])
  <1>1. /\ pc[r] = "note_write" /\ Return(r, "confirm")
        /\ UNCHANGED <<accepted, snap, msg>>
        /\ table' = [table EXCEPT ![p] = e]
        /\ staged' = staged \cup {r}
    BY DEF NoteWrite, locals
  <1>2. PICK l \in {"confirm", "reset_read", "failed"} : Goto(r, l)
    BY <1>1, ReturnGoesOn
  <1>3. Moves(r, l) /\ l \notin Writing /\ l \notin BeforeNote
    BY <1>1, <1>2 DEF Moves, InFlight, Awaits, BeforeNote, BeforeDispatch, Staging, Writing
  <1>4. /\ p \in Phones /\ r \in Notes /\ now[r] \in Nat /\ Awaiting \in States
        /\ snap[r] \in Entity \cup {None} /\ snap[r] = table[p]
    BY <1>1, Started
       DEF SerialInv, RowInv, TypeOK, SnapshotsCurrent, Writing, Requests, States
  <1>5. /\ EntityToRecord(e).sid_ring = Row(p).sid_ring
        /\ EntityToRecord(e).blob_url = r
    BY <1>4, SetStateEntityFacts DEF Row
  <1>6. /\ Row(p)' = EntityToRecord(e)
        /\ \A q \in Phones \ {p} : Row(q)' = Row(q)
    BY <1>1, <1>4 DEF Row, SerialInv, RowInv, TypeOK
  <1> HIDE DEF e
  <1>7. Conversation!Stage(p, r)
    <2>1. r \notin staged
      BY <1>1 DEF SerialInv, OwnNoteUnstaged, BeforeNote, BeforeDispatch, Staging
    <2>2. [q \in Phones |-> NoteOf(q)'] = [[q \in Phones |-> NoteOf(q)] EXCEPT ![p] = r]
      BY <1>4, <1>5, <1>6 DEF NoteOf
    <2> QED BY <1>1, <2>1, <2>2 DEF Conversation!Stage
  <1>8. RingsRecent' /\ ReplayAbsorbed'
    BY <1>1, <1>4, <1>5, SameRing
  <1>9. OneAtATime' /\ OwnNoteUnstaged' /\ SnapshotsCurrent'
    BY <1>1, <1>3, MovesAlone, MovesUnstaged, WriteCurrent
  <1> QED BY <1>4, <1>7, <1>8, <1>9 DEF SerialInv, Conversation!Next, Requests

(* Resetting the row: its note, if it has one, is released.                 *)
LEMMA ResetSerial ==
    ASSUME SerialInv, RowInv', NEW r \in Requests, ResetWrite(r)
    PROVE  SerialInv' /\ [Conversation!Next]_Conversation!cvars
  <1> PICK p \in Phones : p = PartitionKey(r)
    BY Started DEF SerialInv, ResetWrite
  <1> DEFINE e == SetStateEntity(snap[r], Idle, None, None)
  <1>1. /\ pc[r] = "reset_write" /\ Return(r, "cleanup")
        /\ UNCHANGED <<accepted, staged, snap, msg>>
        /\ table' = [table EXCEPT ![p] = e]
    BY DEF ResetWrite, locals
  <1>2. PICK l \in {"cleanup", "reset_read", "failed"} : Goto(r, l)
    BY <1>1, ReturnGoesOn
  <1>3. Moves(r, l) /\ l \notin Writing
    BY <1>1, <1>2 DEF Moves, InFlight, Awaits, BeforeNote, BeforeDispatch, Staging, Writing
  <1>4. /\ p \in Phones /\ Idle \in States
        /\ snap[r] \in Entity \cup {None} /\ snap[r] = table[p]
    BY <1>1, Started DEF SerialInv, RowInv, TypeOK, SnapshotsCurrent, Writing, States
  <1>5. /\ EntityToRecord(e).sid_ring = Row(p).sid_ring
        /\ EntityToRecord(e).blob_url = None
    <2>1. EntityToRecord(e) =
             [state |-> Idle, blob_url |-> None, since |-> None,
              sid_ring |-> EntityToRecord(snap[r]).sid_ring]
      BY <1>4, SetStateEntityFacts
    <2> HIDE DEF e
    <2> QED BY <1>4, <2>1 DEF Row
  <1>6. /\ Row(p)' = EntityToRecord(e)
        /\ \A q \in Phones \ {p} : Row(q)' = Row(q)
    BY <1>1, <1>4 DEF Row, SerialInv, RowInv, TypeOK
  <1> HIDE DEF e
  <1>7. [Conversation!Next]_Conversation!cvars
    <2>1. [q \in Phones |-> NoteOf(q)'] = [[q \in Phones |-> NoteOf(q)] EXCEPT ![p] = None]
      BY <1>4, <1>5, <1>6 DEF NoteOf
    <2>2. CASE NoteOf(p) = None
      <3>1. [q \in Phones |-> NoteOf(q)'] = [q \in Phones |-> NoteOf(q)]
        BY <1>4, <2>1, <2>2
      <3> QED BY <1>1, <3>1 DEF Conversation!cvars
    <2>3. CASE NoteOf(p) # None
      <3>1. Conversation!Release(p)
        BY <1>1, <1>4, <2>1, <2>3 DEF Conversation!Release
      <3> QED BY <1>4, <3>1 DEF Conversation!Next
    <2> QED BY <2>2, <2>3
  <1>8. RingsRecent' /\ ReplayAbsorbed'
    BY <1>1, <1>4, <1>5, SameRing
  <1>9. OneAtATime' /\ OwnNoteUnstaged' /\ SnapshotsCurrent'
    BY <1>1, <1>3, MovesAlone, MovesUnstaged, WriteCurrent
  <1> QED BY <1>7, <1>8, <1>9 DEF SerialInv

------------------------------------------------------------------------------
(* All steps *)

(* A delivery starts only when no request of its phone is in flight.        *)
LEMMA NoneInFlight ==
    ASSUME MaxInFlight = 1, NEW r \in Requests, NEW m \in Messages, Deliver(r, m)
    PROVE  \A q \in Requests : InFlight(q) => Sender[msg[q]] # Sender[m]
  <1> DEFINE running == {q \in Requests : InFlight(q) /\ Sender[msg[q]] = Sender[m]}
  <1>1. IsFiniteSet(Requests) /\ running \in SUBSET Requests
    BY HandlerAssumption DEF Requests
  <1>2. IsFiniteSet(running) /\ Cardinality(running) \in Nat
    BY <1>1, FS_Subset, FS_CardinalityType
  <1>3. Cardinality(running) < 1
    BY DEF Deliver
  <1>4. Cardinality(running) = 0
    BY <1>2, <1>3
  <1> QED BY <1>2, <1>4, FS_EmptySet

LEMMA DeliverSerial ==
    ASSUME SerialInv, RowInv', MaxInFlight = 1,
           NEW r \in Requests, NEW m \in Messages, Deliver(r, m)
    PROVE  SerialInv' /\ [Conversation!Next]_Conversation!cvars
  <1>1. /\ pc[r] = "unsent" /\ pc'[r] \in {"check", "dropped"}
        /\ \A q \in Requests \ {r} : pc'[q] = pc[q] /\ msg'[q] = msg[q]
        /\ msg'[r] = m
        /\ UNCHANGED <<table, accepted, staged, snap>>
    BY DEF Deliver, Goto, effects, SerialInv, RowInv, TypeOK
  <1>2. \A q \in Requests : InFlight(q) => Sender[msg[q]] # Sender[m]
    BY NoneInFlight
  <1>3. OneAtATime'
    <2>1. \A q \in Requests \ {r} :
             InFlight(q)' => InFlight(q) /\ Sender[msg'[q]] # Sender[m]
      BY <1>1, <1>2 DEF InFlight
    <2>2. \A q \in Requests \ {r} : Sender[msg'[q]] = Sender[msg[q]]
      BY <1>1
    <2> QED BY <1>1, <2>1, <2>2 DEF OneAtATime, SerialInv
  <1>4. SnapshotsCurrent'
    <2> SUFFICES ASSUME NEW q \in Requests, pc'[q] \in Writing
                 PROVE  snap'[q] = table'[PartitionKey(q)']
      BY DEF SnapshotsCurrent
    <2>1. q # r /\ pc[q] \in Writing
      BY <1>1 DEF Writing
    <2>2. PartitionKey(q)' = PartitionKey(q)
      BY <1>1, <2>1 DEF PartitionKey
    <2> QED BY <1>1, <2>1, <2>2 DEF SerialInv, SnapshotsCurrent
  <1>5. OwnNoteUnstaged'
    BY <1>1 DEF SerialInv, OwnNoteUnstaged, BeforeNote, BeforeDispatch, Staging
  <1>6. RingsRecent' /\ ReplayAbsorbed'
    BY <1>1 DEF SerialInv, RingsRecent, ReplayAbsorbed, Row
  <1> QED BY <1>1, <1>3, <1>4, <1>5, <1>6, QuietConversation DEF SerialInv

(* A step of the clock, of the lifecycle rule, or none.                     *)
LEMMA IdleSerial ==
    ASSUME SerialInv, RowInv', UNCHANGED <<table, accepted, staged, snap, msg, pc>>
    PROVE  SerialInv' /\ [Conversation!Next]_Conversation!cvars
  <1>1. OneAtATime' /\ OwnNoteUnstaged'
    BY DEF SerialInv, OneAtATime, OwnNoteUnstaged, InFlight
  <1>2. RingsRecent' /\ ReplayAbsorbed' /\ SnapshotsCurrent'
    BY DEF SerialInv, RingsRecent, ReplayAbsorbed, SnapshotsCurrent, Row, PartitionKey
  <1> QED BY <1>1, <1>2, QuietConversation DEF SerialInv

(* A step of a request in flight, its loss and its crash included.          *)
LEMMA RequestSerial ==
    ASSUME SerialInv, RowInv', NEW r \in Requests, Step(r) \/ CallLost(r) \/ Crash(r)
    PROVE  SerialInv' /\ [Conversation!Next]_Conversation!cvars
  <1> DEFINE Quiet ==
                \/ SendHint(r) \/ DiscardOld(r) \/ FetchMedia(r) \/ Transcode(r)
                \/ Upload(r) \/ Confirm(r) \/ Download(r) \/ DownloadFindsNothing(r)
                \/ Process(r) \/ ProcessRaisesAoaiError(r) \/ SendTranscript(r)
                \/ SendSummary(r) \/ SendReply(r) \/ Apologise(r) \/ Cleanup(r)
                \/ CallLost(r) \/ Crash(r)
             Dispatch ==
                \/ DispatchIdleAudio(r) \/ DispatchIdleText(r)
                \/ DispatchAwaitingAudio(r) \/ DispatchAwaitingText(r)
             Read == CheckSid(r) \/ LoadState(r) \/ NoteRead(r) \/ ResetRead(r)
  <1>1. CASE Quiet \/ Dispatch
    <2>1. /\ \E l : l \notin Writing /\ Moves(r, l)
          /\ UNCHANGED <<table, accepted, staged, snap>>
      BY <1>1, QuietStepsMove, DispatchMoves DEF SerialInv
    <2>2. PICK l : l \notin Writing /\ Moves(r, l)
      BY <2>1
    <2> QED BY <2>1, <2>2, QuietSerial
  <1>2. CASE Read
    <2>1. /\ \E l : Moves(r, l)
          /\ UNCHANGED <<table, accepted, staged>>
          /\ snap' = [snap EXCEPT ![r] = table[PartitionKey(r)]]
      BY <1>2, ReadsMove DEF SerialInv
    <2>2. PICK l : Moves(r, l)
      BY <2>1
    <2> QED BY <2>1, <2>2, QuietSerial
  <1>3. CASE RecordSid(r)
    BY <1>3, RecordSerial
  <1>4. CASE NoteWrite(r)
    BY <1>4, NoteSerial
  <1>5. CASE ResetWrite(r)
    BY <1>5, ResetSerial
  <1> QED BY <1>1, <1>2, <1>3, <1>4, <1>5 DEF Step

LEMMA InitSerial == Init => SerialInv /\ Conversation!Init
  <1> SUFFICES ASSUME Init PROVE SerialInv /\ Conversation!Init
    OBVIOUS
  <1>1. /\ \A r \in Requests : pc[r] = "unsent"
        /\ \A p \in Phones : table[p] = None /\ accepted[p] = << >>
        /\ staged = {} /\ accepted = [p \in Phones |-> << >>]
    BY DEF Init
  <1>2. \A p \in Phones : Row(p) = DefaultRecord
    BY <1>1 DEF Row, EntityToRecord
  <1>3. RingsRecent
    BY <1>1, <1>2, RingSizeAssumption DEF RingsRecent, RingIsRecent, DefaultRecord
  <1>4. ReplayAbsorbed
    BY <1>1 DEF ReplayAbsorbed
  <1>5. OneAtATime /\ SnapshotsCurrent /\ OwnNoteUnstaged
    BY <1>1 DEF OneAtATime, SnapshotsCurrent, OwnNoteUnstaged, InFlight,
                Awaits, TryBlock, Writing
  <1>6. Conversation!Init
    BY <1>1, <1>2 DEF Conversation!Init, NoteOf, DefaultRecord
  <1> QED BY <1>3, <1>4, <1>5, <1>6, InitRowInv DEF SerialInv

(* With one request of a phone at a time, every step keeps the invariant    *)
(* and is a step of Conversation, or none.                                  *)
LEMMA NextSerial ==
    ASSUME MaxInFlight = 1, SerialInv, [Next]_vars
    PROVE  SerialInv' /\ [Conversation!Next]_Conversation!cvars
  <1>1. RowInv'
    BY NextRowInv DEF SerialInv
  <1>2. CASE UNCHANGED vars
    BY <1>1, <1>2, IdleSerial DEF vars, effects, locals
  <1>3. CASE Tick \/ Finished \/ \E b \in Requests : Sweep(b)
    BY <1>1, <1>3, IdleSerial DEF Tick, Finished, Sweep, vars, effects, locals
  <1>4. CASE \E r \in Requests : \E m \in Messages : Deliver(r, m)
    BY <1>1, <1>4, DeliverSerial
  <1>5. CASE \E r \in Requests : Step(r) \/ CallLost(r) \/ Crash(r)
    BY <1>1, <1>5, RequestSerial
  <1> QED BY <1>2, <1>3, <1>4, <1>5 DEF Next

------------------------------------------------------------------------------

(* The invariant of every state reachable with one request at a time.       *)
THEOREM SerialInvariant == ASSUME MaxInFlight = 1 PROVE Spec => []SerialInv
  <1>1. Init => SerialInv
    BY InitSerial
  <1>2. SerialInv /\ [Next]_vars => SerialInv'
    BY NextSerial
  <1> QED BY <1>1, <1>2, PTL DEF Spec

(* With one request of a phone at a time, a replayed webhook is absorbed    *)
(* until idempotency_ring_size others were taken up, whatever calls fail.   *)
THEOREM ReplaysAbsorbed == ASSUME MaxInFlight = 1 PROVE Spec => []ReplayAbsorbed
  <1>1. SerialInv => ReplayAbsorbed
    BY DEF SerialInv
  <1> QED BY <1>1, SerialInvariant, PTL

(* With one request of a phone at a time, table, ring and container keep    *)
(* what Conversation promises.                                              *)
THEOREM HandlerImplementsConversation ==
    ASSUME MaxInFlight = 1 PROVE Spec => RefinesConversation
  <1>1. Init => Conversation!Init
    BY InitSerial
  <1>2. SerialInv /\ [Next]_vars => [Conversation!Next]_Conversation!cvars
    BY NextSerial
  <1> QED BY <1>1, <1>2, SerialInvariant, PTL
          DEF Spec, RefinesConversation, Conversation!Spec
=============================================================================
