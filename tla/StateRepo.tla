------------------------------ MODULE StateRepo ------------------------------
(***************************************************************************)
(* The per-phone conversation row of the convstate table, as the           *)
(* repository in state_repo.py builds and parses it.  Every operator here  *)
(* is the pure part of a read-modify-write: what is parsed from the entity *)
(* that was read, and the entity that replaces it.  The two table calls    *)
(* themselves are steps of the module that uses these operators, because   *)
(* other requests run between them.                                        *)
(*                                                                         *)
(* "Absent" is the empty string Azure Tables stores where the program has  *)
(* None; None also stands for a row that does not exist.                   *)
(***************************************************************************)
EXTENDS Naturals, Sequences, Functions

CONSTANTS
    Messages,   \* Twilio MessageSids
    Notes,      \* names of staged voice-note blobs
    RingSize,   \* settings.idempotency_ring_size
    Absent,     \* "" on the wire
    None        \* Python's None

ASSUME RingSizeAssumption == RingSize \in Nat \ {0}
ASSUME AbsentAssumption == Absent \notin Nat /\ Absent \notin Notes
Idle == "idle"
Awaiting == "awaiting_context"
States == {Idle, Awaiting}

Ring == Seq(Messages)

Record == [state : States, blob_url : Notes \cup {None},
           since : Nat \cup {None}, sid_ring : Ring]

Entity == [state : States, blob_url : Notes \cup {Absent},
           since : Nat \cup {Absent}, sid_ring : Ring]

ASSUME NoneAssumption ==
    /\ None \notin Nat \cup Notes \cup Entity
    /\ None # Absent

\* Variant: None is handed to the table unconverted.
BuildEntityUnconverted(state, blob_url, since, ring) ==
    [state |-> state, blob_url |-> blob_url, since |-> since, sid_ring |-> ring]

BuildEntity(state, blob_url, since, ring) ==
    [state    |-> state,
     blob_url |-> IF blob_url = None THEN Absent ELSE blob_url,
     since    |-> IF since = None THEN Absent ELSE since,
     sid_ring |-> ring]

\* What get_state returns for a phone without a row.
DefaultRecord ==
    [state |-> Idle, blob_url |-> None, since |-> None, sid_ring |-> << >>]

\* get_state: the record parsed from the entity read, or the default.
EntityToRecord(e) ==
    IF e = None
    THEN DefaultRecord
    ELSE [state    |-> e.state,
          blob_url |-> IF e.blob_url = Absent THEN None ELSE e.blob_url,
          since    |-> IF e.since = Absent THEN None ELSE e.since,
          sid_ring |-> e.sid_ring]

\* Variant: the membership test of the ring is missing.
IsKnownSidNever(e, sid) == FALSE

IsKnownSid(e, sid) == sid \in Range(EntityToRecord(e).sid_ring)

\* Variant: nothing is evicted.
AppendSidUnbounded(ring, sid) == Append(ring, sid)

\* Variant: a full ring keeps its oldest entries.
AppendSidKeepsOldest(ring, sid) ==
    IF Len(ring) < RingSize THEN Append(ring, sid) ELSE ring

\* Append, then drop the oldest entries until the ring fits.
AppendSid(ring, sid) ==
    LET appended == Append(ring, sid) IN
    IF Len(appended) > RingSize
    THEN SubSeq(appended, Len(appended) - RingSize + 1, Len(appended))
    ELSE appended

\* Variant: recording a SID writes the row back as idle.
RecordedEntityResets(e, sid) ==
    BuildEntity(Idle, None, None, AppendSid(EntityToRecord(e).sid_ring, sid))

\* check_and_record_sid: the entity written for a SID that is not in the ring.
RecordedEntity(e, sid) ==
    LET rec == EntityToRecord(e) IN
    BuildEntity(rec.state, rec.blob_url, rec.since,
                IF e = None THEN <<sid>> ELSE AppendSid(rec.sid_ring, sid))

\* Variant: a merge, in which an absent field keeps its old value.
SetStateEntityMerges(e, state, blob_url, since) ==
    LET rec == EntityToRecord(e) IN
    BuildEntity(state, IF blob_url = None THEN rec.blob_url ELSE blob_url,
                since, rec.sid_ring)

\* set_state: everything is replaced but the ring, which is the one read.
SetStateEntity(e, state, blob_url, since) ==
    BuildEntity(state, blob_url, since, EntityToRecord(e).sid_ring)

------------------------------------------------------------------------------

(* A record awaits context exactly when it holds a note and the time since  *)
(* which it waits: what handlers.py calls a defensive impossibility is one. *)
Coherent(rec) ==
    /\ rec.state = Awaiting <=> rec.blob_url # None
    /\ rec.state = Awaiting <=> rec.since # None

(* A ring never outgrows its size and never holds a SID twice. *)
RingOK(ring) == Len(ring) <= RingSize /\ IsInjective(ring)
=============================================================================
