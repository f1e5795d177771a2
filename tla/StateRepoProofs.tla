--------------------------- MODULE StateRepoProofs ---------------------------
(* What the pure parts of the state repository return, for every entity. *)
EXTENDS StateRepo, SequenceTheorems, TLAPS

(* get_state yields a well-formed record for any entity or none.          *)
LEMMA RecordType ==
    ASSUME NEW e \in Entity \cup {None}
    PROVE  EntityToRecord(e) \in Record
  <1>1. << >> \in Ring
    BY DEF Ring
  <1>2. CASE e = None
    BY <1>1, <1>2 DEF EntityToRecord, DefaultRecord, Record, States
  <1>3. CASE e # None
    BY <1>3 DEF EntityToRecord, Record, Entity
  <1> QED BY <1>2, <1>3

(* _build_entity yields a well-formed entity.                             *)
LEMMA EntityType ==
    ASSUME NEW state \in States, NEW blob \in Notes \cup {None},
           NEW since \in Nat \cup {None}, NEW ring \in Ring
    PROVE  BuildEntity(state, blob, since, ring) \in Entity
  BY DEF BuildEntity, Entity

(* Parsing an entity that was just built gives back what it was built of: *)
(* the empty string and None are exchanged both ways.                     *)
LEMMA BuildThenParse ==
    ASSUME NEW state \in States, NEW blob \in Notes \cup {None},
           NEW since \in Nat \cup {None}, NEW ring \in Ring
    PROVE  EntityToRecord(BuildEntity(state, blob, since, ring)) =
               [state |-> state, blob_url |-> blob, since |-> since, sid_ring |-> ring]
  <1> DEFINE e == BuildEntity(state, blob, since, ring)
  <1>1. e # None
    BY EntityType, NoneAssumption
  <1>2. e.state = state /\ e.sid_ring = ring
    BY DEF BuildEntity
  <1>3. e.blob_url = (IF blob = None THEN Absent ELSE blob)
    BY DEF BuildEntity
  <1>4. e.since = (IF since = None THEN Absent ELSE since)
    BY DEF BuildEntity
  <1>5. EntityToRecord(e) =
            [state    |-> e.state,
             blob_url |-> IF e.blob_url = Absent THEN None ELSE e.blob_url,
             since    |-> IF e.since = Absent THEN None ELSE e.since,
             sid_ring |-> e.sid_ring]
    BY <1>1 DEF EntityToRecord
  <1> HIDE DEF e
  <1> QED BY <1>2, <1>3, <1>4, <1>5, AbsentAssumption, NoneAssumption DEF e

(* A full ring that drops its oldest entry for a SID it does not hold     *)
(* stays within its size and still repeats no SID.                        *)
LEMMA AppendSidRing ==
    ASSUME NEW ring \in Ring, NEW sid \in Messages,
           RingOK(ring), sid \notin Range(ring)
    PROVE  /\ AppendSid(ring, sid) \in Ring
           /\ RingOK(AppendSid(ring, sid))
  <1> DEFINE n == Len(ring)
             appended == Append(ring, sid)
  <1>1. /\ n \in Nat /\ RingSize \in Nat /\ RingSize >= 1 /\ n <= RingSize
        /\ DOMAIN ring = 1..n
    BY RingSizeAssumption DEF Ring, RingOK
  <1>2. /\ appended \in Seq(Messages)
        /\ Len(appended) = n + 1
        /\ \A i \in 1..n : appended[i] = ring[i]
        /\ appended[n + 1] = sid
    BY DEF Ring
  <1>3. \A i, j \in 1..(n + 1) : appended[i] = appended[j] => i = j
    <2>1. \A i, j \in 1..n : ring[i] = ring[j] => i = j
      BY <1>1 DEF RingOK, IsInjective
    <2>2. \A i \in 1..n : ring[i] # sid
      BY <1>1 DEF Range
    <2> QED BY <1>1, <1>2, <2>1, <2>2
  <1>4. CASE n + 1 <= RingSize
    <2>1. AppendSid(ring, sid) = appended
      BY <1>1, <1>2, <1>4 DEF AppendSid
    <2> QED BY <1>1, <1>2, <1>3, <1>4, <2>1 DEF RingOK, IsInjective, Ring
  <1>5. CASE n = RingSize
    <2> DEFINE tail == SubSeq(appended, 2, n + 1)
    <2>1. AppendSid(ring, sid) = tail
      BY <1>1, <1>2, <1>5 DEF AppendSid
    <2>2. /\ tail \in Seq(Messages)
          /\ Len(tail) = n
          /\ \A i \in 1..n : tail[i] = appended[i + 1]
      BY <1>1, <1>2, SubSeqProperties
    <2>3. \A i, j \in 1..n : tail[i] = tail[j] => i = j
      BY <1>1, <1>3, <2>2
    <2> HIDE DEF tail
    <2> QED BY <1>1, <1>5, <2>1, <2>2, <2>3 DEF RingOK, IsInjective, Ring
  <1> HIDE DEF n, appended
  <1> QED BY <1>1, <1>4, <1>5

(* The entity check_and_record_sid writes is well-formed, keeps the       *)
(* conversation it read, and its ring ends with the new SID.              *)
LEMMA RecordedEntityFacts ==
    ASSUME NEW e \in Entity \cup {None}, NEW sid \in Messages,
           RingOK(EntityToRecord(e).sid_ring), ~IsKnownSid(e, sid)
    PROVE  /\ RecordedEntity(e, sid) \in Entity
           /\ LET old == EntityToRecord(e)
                  new == EntityToRecord(RecordedEntity(e, sid))
              IN /\ new.state = old.state
                 /\ new.blob_url = old.blob_url
                 /\ new.since = old.since
                 /\ new.sid_ring = AppendSid(old.sid_ring, sid)
                 /\ RingOK(new.sid_ring)
  <1> DEFINE old == EntityToRecord(e)
             ring == AppendSid(old.sid_ring, sid)
  <1>1. old \in Record
    BY RecordType
  <1>2. /\ old.state \in States /\ old.blob_url \in Notes \cup {None}
        /\ old.since \in Nat \cup {None} /\ old.sid_ring \in Ring
    BY <1>1 DEF Record
  <1>3. ring \in Ring /\ RingOK(ring)
    BY <1>2, AppendSidRing DEF IsKnownSid
  <1>4. e = None => ring = <<sid>>
    <2>1. e = None => old.sid_ring = << >>
      BY DEF EntityToRecord, DefaultRecord
    <2>2. AppendSid(<< >>, sid) = <<sid>>
      <3>1. Append(<< >>, sid) = <<sid>> /\ Len(<<sid>>) = 1
        OBVIOUS
      <3> QED BY <3>1, RingSizeAssumption DEF AppendSid
    <2> QED BY <2>1, <2>2
  <1>5. RecordedEntity(e, sid) = BuildEntity(old.state, old.blob_url, old.since, ring)
    BY <1>4 DEF RecordedEntity
  <1> HIDE DEF old, ring
  <1>6. RecordedEntity(e, sid) \in Entity
    BY <1>2, <1>3, <1>5, EntityType
  <1>7. EntityToRecord(RecordedEntity(e, sid)) =
            [state |-> old.state, blob_url |-> old.blob_url,
             since |-> old.since, sid_ring |-> ring]
    <2>1. EntityToRecord(BuildEntity(old.state, old.blob_url, old.since, ring)) =
              [state |-> old.state, blob_url |-> old.blob_url,
               since |-> old.since, sid_ring |-> ring]
      BY <1>2, <1>3, BuildThenParse
    <2> QED BY <1>5, <2>1
  <1> QED BY <1>3, <1>6, <1>7 DEF old, ring

(* The entity set_state writes holds the state it was given and the ring  *)
(* that was read.                                                         *)
LEMMA SetStateEntityFacts ==
    ASSUME NEW e \in Entity \cup {None}, NEW state \in States,
           NEW blob \in Notes \cup {None}, NEW since \in Nat \cup {None}
    PROVE  /\ SetStateEntity(e, state, blob, since) \in Entity
           /\ EntityToRecord(SetStateEntity(e, state, blob, since)) =
                  [state |-> state, blob_url |-> blob, since |-> since,
                   sid_ring |-> EntityToRecord(e).sid_ring]
  <1> DEFINE ring == EntityToRecord(e).sid_ring
  <1>1. ring \in Ring
    BY RecordType DEF Record
  <1>2. SetStateEntity(e, state, blob, since) = BuildEntity(state, blob, since, ring)
    BY DEF SetStateEntity
  <1> HIDE DEF ring
  <1> QED BY <1>1, <1>2, EntityType, BuildThenParse DEF ring
=============================================================================
