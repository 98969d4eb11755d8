------------------------ MODULE EvidenceStoreProofs ------------------------
(***************************************************************************)
(* What the index of the store may be trusted for, for any number of       *)
(* clients, contents and records, and of files damaged behind its back.    *)
(***************************************************************************)
EXTENDS EvidenceStore, TLAPS

(* A client is idle, puts an artifact, or records an experiment.           *)
Putting == [at : {"staged", "published", "indexing"}, ref : Ref]
Recording ==
  [at : {"validated", "inserting", "announcing"}, experiment : Experiment, record : Record]

ClientState == {Idle} \cup Putting \cup Recording

Types ==
  /\ object \in [Content -> {"absent", "whole", "drifted"}]
  /\ artifact \in [Content -> Provenance \cup {None}]
  /\ experiment \in [Experiment -> Record \cup {NoRecord}]
  /\ client \in [Client -> ClientState]

(* A file that is not whole was damaged, or is on no client's way to a row. *)
FilesAreWhole ==
  /\ \A x \in Content :
       object[x] = "drifted" \/ (artifact[x] # None /\ object[x] # "whole") => x \in damaged
  /\ \A c \in Client :
       client[c].at \in {"published", "indexing"} =>
         \/ object[client[c].ref.content] = "whole"
         \/ client[c].ref.content \in damaged

(* The evidence of a record was indexed before it was written.             *)
Indexed(record) == artifact[record.ref.content] = record.ref.provenance

RecordsAreIndexed ==
  /\ EvidenceIsIndexed
  /\ \A c \in Client :
       client[c].at \in {"validated", "inserting", "announcing"} => Indexed(client[c].record)

StoreInv == Types /\ FilesAreWhole /\ RecordsAreIndexed

(* A new store has it.                                                     *)
LEMMA StoreInvInit == Init => StoreInv
  BY DEF Init, StoreInv, Types, FilesAreWhole, RecordsAreIndexed, EvidenceIsIndexed,
         ClientState, Idle, NoRecord

(* What becomes of a client, and of no other one.                          *)
LEMMA Moves ==
  ASSUME Types, NEW c \in Client, NEW state \in ClientState, Goes(c, state)
  PROVE  /\ client' \in [Client -> ClientState]
         /\ client'[c] = state
         /\ \A d \in Client : d # c => client'[d] = client[d]
  BY DEF Types, Goes

(* A client that puts an artifact carries its reference along.             *)
LEMMA PutGoesOn ==
  ASSUME Types, NEW c \in Client, client[c].at \in {"staged", "published", "indexing"},
         NEW a \in {"staged", "published", "indexing"}
  PROVE  /\ client[c].ref \in Ref
         /\ [client[c] EXCEPT !.at = a] \in Putting
         /\ [client[c] EXCEPT !.at = a].at = a
         /\ [client[c] EXCEPT !.at = a].ref = client[c].ref
  BY DEF Types, ClientState, Putting, Recording, Idle

(* A client that records an experiment carries its record along.           *)
LEMMA RecordGoesOn ==
  ASSUME Types, NEW c \in Client, client[c].at \in {"validated", "inserting", "announcing"},
         NEW a \in {"validated", "inserting", "announcing"}
  PROVE  /\ client[c].record \in Record /\ client[c].experiment \in Experiment
         /\ [client[c] EXCEPT !.at = a] \in Recording
         /\ [client[c] EXCEPT !.at = a].at = a
         /\ [client[c] EXCEPT !.at = a].record = client[c].record
         /\ [client[c] EXCEPT !.at = a].experiment = client[c].experiment
  BY DEF Types, ClientState, Putting, Recording, Idle

(* put_artifact.                                                           *)
LEMMA PutKeeps ==
  ASSUME StoreInv, NEW c \in Client,
         \/ \E ref \in Ref : BeginPut(c, ref)
         \/ Publish(c) \/ LookUpArtifact(c) \/ IndexArtifact(c)
  PROVE  StoreInv'
<1> USE DEF StoreInv
<1>1. ASSUME NEW ref \in Ref, BeginPut(c, ref) PROVE StoreInv'
  <2>1. PICK state \in {Idle, [at |-> "published", ref |-> ref], [at |-> "staged", ref |-> ref]} :
           Goes(c, state) /\ (state.at = "published" => object[ref.content] = "whole")
    BY <1>1 DEF BeginPut, Idle
  <2>2. state \in ClientState
    BY DEF ClientState, Putting, Idle
  <2>3. /\ client' \in [Client -> ClientState] /\ client'[c] = state
        /\ \A d \in Client : d # c => client'[d] = client[d]
    BY <2>1, <2>2, Moves
  <2>4. UNCHANGED <<object, tables, damage, damaged>>
    BY <1>1 DEF BeginPut
  <2>5. Types'
    BY <2>3, <2>4 DEF Types, tables
  <2>6. FilesAreWhole'
    BY <2>1, <2>3, <2>4 DEF FilesAreWhole, tables, Idle
  <2>7. RecordsAreIndexed'
    BY <2>1, <2>3, <2>4 DEF RecordsAreIndexed, EvidenceIsIndexed, Indexed, tables, Idle
  <2>8. QED
    BY <2>5, <2>6, <2>7
<1>2. CASE Publish(c)
  <2>1. Goes(c, [client[c] EXCEPT !.at = "published"]) /\ client[c].at = "staged"
    BY <1>2 DEF Publish
  <2>2. /\ client' \in [Client -> ClientState]
        /\ client'[c].at = "published" /\ client'[c].ref = client[c].ref
        /\ \A d \in Client : d # c => client'[d] = client[d]
    BY <2>1, PutGoesOn, Moves DEF ClientState
  <2>3. /\ object' = [object EXCEPT ![client[c].ref.content] = "whole"]
        /\ UNCHANGED <<tables, damage, damaged>>
    BY <1>2 DEF Publish
  <2>4. client[c].ref.content \in Content
    BY <2>1, PutGoesOn DEF Ref
  <2>5. Types'
    BY <2>2, <2>3 DEF Types, tables
  <2>6. FilesAreWhole'
    BY <2>2, <2>3, <2>4 DEF FilesAreWhole, tables, Types
  <2>7. RecordsAreIndexed'
    BY <2>1, <2>2, <2>3 DEF RecordsAreIndexed, EvidenceIsIndexed, Indexed, tables
  <2>8. QED
    BY <2>5, <2>6, <2>7
<1>3. CASE LookUpArtifact(c)
  <2>1. PICK state \in {Idle, [client[c] EXCEPT !.at = "indexing"]} :
           Goes(c, state) /\ client[c].at = "published"
    BY <1>3 DEF LookUpArtifact
  <2>2. state \in ClientState /\ (state = Idle \/ (state.at = "indexing" /\ state.ref = client[c].ref))
    BY <2>1, PutGoesOn DEF ClientState
  <2>3. /\ client' \in [Client -> ClientState] /\ client'[c] = state
        /\ \A d \in Client : d # c => client'[d] = client[d]
    BY <2>1, <2>2, Moves
  <2>4. UNCHANGED <<object, tables, damage, damaged>>
    BY <1>3 DEF LookUpArtifact
  <2>5. Types'
    BY <2>3, <2>4 DEF Types, tables
  <2>6. FilesAreWhole'
    BY <2>1, <2>2, <2>3, <2>4 DEF FilesAreWhole, tables, Idle
  <2>7. RecordsAreIndexed'
    BY <2>1, <2>2, <2>3, <2>4 DEF RecordsAreIndexed, EvidenceIsIndexed, Indexed, tables, Idle
  <2>8. QED
    BY <2>5, <2>6, <2>7
<1>4. CASE IndexArtifact(c)
  <2> DEFINE ref == client[c].ref
  <2>1. client[c].at = "indexing" /\ Goes(c, Idle)
    BY <1>4 DEF IndexArtifact
  <2>2. /\ client' \in [Client -> ClientState] /\ client'[c] = Idle
        /\ \A d \in Client : d # c => client'[d] = client[d]
    BY <2>1, Moves DEF ClientState
  <2>3. ref.content \in Content /\ ref.provenance \in Provenance
    BY <2>1, PutGoesOn DEF Ref
  <2>4. /\ artifact' = [artifact EXCEPT ![ref.content] = IF @ = None THEN ref.provenance ELSE @]
        /\ UNCHANGED <<object, experiment, events, damage, damaged>>
    BY <1>4 DEF IndexArtifact
  <2>5. Types'
    BY <2>2, <2>3, <2>4 DEF Types
  <2>6. FilesAreWhole'
    BY <2>1, <2>2, <2>3, <2>4 DEF FilesAreWhole, Types, Idle
  <2>7. \A record \in Record :
          Indexed(record) => artifact'[record.ref.content] = record.ref.provenance
    BY <2>3, <2>4, NoneAssumption DEF Indexed, Types, Record, Ref
  <2>8. EvidenceIsIndexed'
    BY <2>4, <2>7 DEF EvidenceIsIndexed, RecordsAreIndexed, Indexed, Types
  <2>9. ASSUME NEW d \in Client,
               client'[d].at \in {"validated", "inserting", "announcing"}
        PROVE  Indexed(client[d].record)'
    <3>1. client'[d] = client[d]
      BY <2>2, <2>9 DEF Idle
    <3>2. client[d].record \in Record
      BY <2>9, <3>1, RecordGoesOn
    <3>3. QED
      BY <2>7, <2>9, <3>1, <3>2 DEF RecordsAreIndexed, Indexed
  <2>10. QED
    BY <2>5, <2>6, <2>8, <2>9 DEF RecordsAreIndexed
<1>5. QED
  BY <1>1, <1>2, <1>3, <1>4

(* record_experiment: each of its steps but the INSERT leaves the records.  *)
LEMMA RecordKeeps ==
  ASSUME StoreInv, NEW c \in Client,
         \/ \E e \in Experiment, record \in Record : BeginRecord(c, e, record)
         \/ LookUpExperiment(c) \/ InsertExperiment(c) \/ AnnounceExperiment(c)
  PROVE  StoreInv'
<1> USE DEF StoreInv
<1>1. UNCHANGED <<object, artifact, damage, damaged>>
  BY DEF BeginRecord, LookUpExperiment, InsertExperiment, AnnounceExperiment, tables
<1>2. ASSUME NEW e \in Experiment, NEW record \in Record, BeginRecord(c, e, record)
      PROVE  StoreInv'
  <2>1. PICK state \in {Idle, [at |-> "validated", experiment |-> e, record |-> record]} :
           Goes(c, state) /\ (state.at = "validated" => Indexed(record))
    BY <1>2 DEF BeginRecord, Idle, Sound, Indexed
  <2>2. state \in ClientState
    BY DEF ClientState, Recording, Idle
  <2>3. /\ client' \in [Client -> ClientState] /\ client'[c] = state
        /\ \A d \in Client : d # c => client'[d] = client[d]
    BY <2>1, <2>2, Moves
  <2>4. UNCHANGED <<experiment, events>>
    BY <1>2 DEF BeginRecord, tables
  <2>5. Types'
    BY <1>1, <2>3, <2>4 DEF Types
  <2>6. FilesAreWhole'
    BY <1>1, <2>1, <2>3 DEF FilesAreWhole, Idle
  <2>7. RecordsAreIndexed'
    BY <1>1, <2>1, <2>3, <2>4 DEF RecordsAreIndexed, EvidenceIsIndexed, Indexed, Idle
  <2>8. QED
    BY <2>5, <2>6, <2>7
<1>3. CASE LookUpExperiment(c)
  <2>1. PICK state \in {Idle, [client[c] EXCEPT !.at = "inserting"]} :
           Goes(c, state) /\ client[c].at = "validated"
    BY <1>3 DEF LookUpExperiment
  <2>2. /\ state \in ClientState
        /\ state = Idle \/ (state.at = "inserting" /\ state.record = client[c].record)
    BY <2>1, RecordGoesOn DEF ClientState
  <2>3. /\ client' \in [Client -> ClientState] /\ client'[c] = state
        /\ \A d \in Client : d # c => client'[d] = client[d]
    BY <2>1, <2>2, Moves
  <2>4. UNCHANGED experiment
    BY <1>3 DEF LookUpExperiment
  <2>5. Types'
    BY <1>1, <2>3, <2>4 DEF Types
  <2>6. FilesAreWhole'
    BY <1>1, <2>2, <2>3 DEF FilesAreWhole, Idle
  <2>7. RecordsAreIndexed'
    BY <1>1, <2>1, <2>2, <2>3, <2>4 DEF RecordsAreIndexed, EvidenceIsIndexed, Indexed, Idle
  <2>8. QED
    BY <2>5, <2>6, <2>7
<1>4. CASE InsertExperiment(c)
  <2> DEFINE e == client[c].experiment
  <2>1. client[c].at = "inserting"
    BY <1>4 DEF InsertExperiment
  <2>2. e \in Experiment /\ client[c].record \in Record
    BY <2>1, RecordGoesOn
  <2>3. PICK state \in {Idle, [client[c] EXCEPT !.at = "announcing"]} : Goes(c, state)
    BY <1>4 DEF InsertExperiment
  <2>4. /\ state \in ClientState
        /\ state = Idle \/ (state.at = "announcing" /\ state.record = client[c].record)
    BY <2>1, RecordGoesOn DEF ClientState
  <2>5. /\ client' \in [Client -> ClientState] /\ client'[c] = state
        /\ \A d \in Client : d # c => client'[d] = client[d]
    BY <2>3, <2>4, Moves
  <2>6. experiment' = [experiment EXCEPT ![e] = IF @ = NoRecord THEN client[c].record ELSE @]
    BY <1>4 DEF InsertExperiment
  <2>7. Types'
    BY <1>1, <2>2, <2>5, <2>6 DEF Types
  <2>8. FilesAreWhole'
    BY <1>1, <2>4, <2>5 DEF FilesAreWhole, Idle
  <2>9. EvidenceIsIndexed'
    BY <1>1, <2>1, <2>2, <2>6 DEF RecordsAreIndexed, EvidenceIsIndexed, Indexed, Types
  <2>10. RecordsAreIndexed'
    BY <1>1, <2>1, <2>4, <2>5, <2>9 DEF RecordsAreIndexed, Indexed, Idle
  <2>11. QED
    BY <2>7, <2>8, <2>10
<1>5. CASE AnnounceExperiment(c)
  <2>1. Goes(c, Idle) /\ UNCHANGED experiment
    BY <1>5 DEF AnnounceExperiment
  <2>2. /\ client' \in [Client -> ClientState] /\ client'[c] = Idle
        /\ \A d \in Client : d # c => client'[d] = client[d]
    BY <2>1, Moves DEF ClientState
  <2>3. Types'
    BY <1>1, <2>1, <2>2 DEF Types
  <2>4. FilesAreWhole'
    BY <1>1, <2>2 DEF FilesAreWhole, Idle
  <2>5. RecordsAreIndexed'
    BY <1>1, <2>1, <2>2 DEF RecordsAreIndexed, EvidenceIsIndexed, Indexed, Idle
  <2>6. QED
    BY <2>3, <2>4, <2>5
<1>6. QED
  BY <1>2, <1>3, <1>4, <1>5

(* A client dies, or a file is damaged.                                    *)
LEMMA FaultKeeps ==
  ASSUME StoreInv, (\E c \in Client : Die(c)) \/ \E x \in Content : Damage(x)
  PROVE  StoreInv'
<1> USE DEF StoreInv
<1>1. ASSUME NEW c \in Client, Die(c) PROVE StoreInv'
  <2>1. /\ client' \in [Client -> ClientState] /\ client'[c] = Idle
        /\ \A d \in Client : d # c => client'[d] = client[d]
    BY <1>1, Moves DEF Die, ClientState
  <2>2. UNCHANGED <<object, tables, damage, damaged>>
    BY <1>1 DEF Die
  <2>3. Types' /\ FilesAreWhole'
    BY <2>1, <2>2 DEF Types, FilesAreWhole, tables, Idle
  <2>4. RecordsAreIndexed'
    BY <2>1, <2>2 DEF RecordsAreIndexed, EvidenceIsIndexed, Indexed, tables, Idle
  <2>5. QED
    BY <2>3, <2>4
<1>2. ASSUME NEW x \in Content, Damage(x) PROVE StoreInv'
  <2> UNCHANGED <<tables, client>>
    BY <1>2 DEF Damage
  <2>1. PICK state \in {"absent", "drifted"} : object' = [object EXCEPT ![x] = state]
    BY <1>2 DEF Damage
  <2>2. Types'
    BY <2>1 DEF Types, tables
  <2>3. FilesAreWhole'
    BY <1>2, <2>1 DEF Damage, Types, FilesAreWhole, tables
  <2>4. RecordsAreIndexed'
    BY DEF RecordsAreIndexed, EvidenceIsIndexed, Indexed, tables
  <2>5. QED
    BY <2>2, <2>3, <2>4
<1>3. QED
  BY <1>1, <1>2

(* Every step of the store.                                                *)
LEMMA StoreKept == StoreInv /\ [Next]_vars => StoreInv'
<1> SUFFICES ASSUME StoreInv, [Next]_vars PROVE StoreInv'
  OBVIOUS
<1>1. CASE Next
  BY <1>1, PutKeeps, RecordKeeps, FaultKeeps DEF Next
<1>2. CASE UNCHANGED vars
  BY <1>2 DEF StoreInv, Types, FilesAreWhole, RecordsAreIndexed, EvidenceIsIndexed, Indexed,
              vars, tables
<1>3. QED
  BY <1>1, <1>2

(* The inductive invariant of the store: files on the way to a row are     *)
(* whole or damaged, records on the way to the table are indexed.          *)
THEOREM StoreInvariant == Spec => []StoreInv
  BY StoreInvInit, StoreKept, PTL DEF Spec

(* audit() accuses no one falsely, wherever clients meet or die.           *)
THEOREM AuditIsJust == Spec => []AuditBlamesDamage
<1>1. StoreInv => AuditBlamesDamage
  BY DEF StoreInv, FilesAreWhole, AuditBlamesDamage, corrupted, missing
<1>2. QED
  BY <1>1, StoreInvariant, PTL

(* Whatever a record refers to is indexed, as the record says.             *)
THEOREM RecordsHaveEvidence == Spec => []EvidenceIsIndexed
<1>1. StoreInv => EvidenceIsIndexed
  BY DEF StoreInv, RecordsAreIndexed
<1>2. QED
  BY <1>1, StoreInvariant, PTL

(* No client, however late its INSERT, changes a recorded state.           *)
THEOREM RecordedStatesStand == Spec => RecordsStand
<1>1. ASSUME StoreInv, [Next]_vars, NEW e \in Experiment, experiment[e] # NoRecord
      PROVE  experiment'[e] = experiment[e]
  <2>1. CASE \E c \in Client : InsertExperiment(c)
    BY <1>1, <2>1 DEF InsertExperiment, StoreInv, Types
  <2>2. CASE ~ \E c \in Client : InsertExperiment(c)
    BY <1>1, <2>2
       DEF Next, vars, tables, BeginPut, BeginRecord, Publish, LookUpArtifact, IndexArtifact,
           LookUpExperiment, AnnounceExperiment, Die, Damage
  <2>3. QED
    BY <2>1, <2>2
<1>2. StoreInv /\ [Next]_vars =>
        \A e \in Experiment : experiment[e] # NoRecord => experiment'[e] = experiment[e]
  BY <1>1
<1>3. QED
  BY <1>2, StoreInvariant, PTL DEF Spec, RecordsStand

(***************************************************************************)
(* The event log.                                                          *)
(***************************************************************************)

(* One client at most is about to announce an experiment, which is         *)
(* recorded and has not been announced.                                    *)
Announcing(c) == client[c].at = "announcing"

EventType ==
  [kind : {"experiment_recorded", "experiment_deduplicated"}, experiment : Experiment]

AnnouncedOnce ==
  /\ events \in Seq(EventType)
  /\ EventsAreEarned
  /\ \A c \in Client : Announcing(c) =>
       /\ experiment[client[c].experiment] # NoRecord
       /\ \A n \in DOMAIN events :
            events[n] # [kind |-> "experiment_recorded", experiment |-> client[c].experiment]
  /\ \A c, d \in Client :
       Announcing(c) /\ Announcing(d) /\ client[c].experiment = client[d].experiment => c = d

(* A record is never mistaken for no record.                               *)
LEMMA RecordsAreSome == \A record \in Record : record # NoRecord
<1>1. ASSUME NEW record \in Record PROVE record.key # None
  BY NoneAssumption DEF Record
<1>2. NoRecord.key = None
  BY DEF NoRecord
<1>3. QED
  BY <1>1, <1>2

(* What an event tells of.                                                 *)
LEMMA EventFields ==
  ASSUME events \in Seq(EventType)
  PROVE  \A n \in DOMAIN events : events[n].experiment \in Experiment
<1>1. \A n \in DOMAIN events : events[n] \in EventType
  OBVIOUS
<1>2. QED
  BY <1>1 DEF EventType

(* A step that writes neither an event nor a record, and makes no client   *)
(* announce, changes nothing.                                              *)
LEMMA QuietSteps ==
  ASSUME AnnouncedOnce, UNCHANGED <<experiment, events>>,
         \A c \in Client : Announcing(c)' => client'[c] = client[c]
  PROVE  AnnouncedOnce'
  BY DEF AnnouncedOnce, EventsAreEarned, Announcing

(* What the sequence of events becomes.                                    *)
LEMMA Appended ==
  ASSUME NEW event \in EventType, events \in Seq(EventType), events' = Append(events, event)
  PROVE  /\ events' \in Seq(EventType)
         /\ \A n \in DOMAIN events' :
              \/ n \in DOMAIN events /\ events'[n] = events[n]
              \/ n = Len(events) + 1 /\ events'[n] = event
<1>1. /\ events' \in Seq(EventType)
      /\ DOMAIN events' = 1 .. Len(events) + 1 /\ DOMAIN events = 1 .. Len(events)
      /\ \A n \in 1 .. Len(events) : events'[n] = events[n]
      /\ events'[Len(events) + 1] = event
      /\ Len(events) \in Nat
  OBVIOUS
<1>2. \A n \in 1 .. Len(events) + 1 : n \in 1 .. Len(events) \/ n = Len(events) + 1
  BY <1>1
<1>3. QED
  BY <1>1, <1>2

(* Every step of the store, for the log.                                   *)
LEMMA EventsKept == StoreInv /\ AnnouncedOnce /\ [Next]_vars => AnnouncedOnce'
<1> SUFFICES ASSUME StoreInv, AnnouncedOnce, [Next]_vars PROVE AnnouncedOnce'
  OBVIOUS
<1> USE DEF StoreInv
<1>1. ASSUME NEW c \in Client, InsertExperiment(c) PROVE AnnouncedOnce'
  <2> DEFINE e == client[c].experiment
  <2>1. client[c].at = "inserting" /\ UNCHANGED events
    BY <1>1 DEF InsertExperiment
  <2>2. e \in Experiment /\ client[c].record \in Record /\ client[c].record # NoRecord
    BY <2>1, RecordGoesOn, RecordsAreSome
  <2>3. CASE experiment[e] = NoRecord
    <3>1. Goes(c, [client[c] EXCEPT !.at = "announcing"])
      BY <1>1, <2>3 DEF InsertExperiment
    <3>2. /\ client'[c].at = "announcing" /\ client'[c].experiment = e
          /\ \A d \in Client : d # c => client'[d] = client[d]
      <4>1. PICK state \in ClientState :
              /\ Goes(c, state)
              /\ state.at = "announcing" /\ state.experiment = e
        BY <2>1, <3>1, RecordGoesOn DEF ClientState
      <4>2. QED
        BY <4>1, Moves
    <3> \A n \in DOMAIN events : events[n].experiment \in Experiment
      BY EventFields DEF AnnouncedOnce
    <3>3. \A x \in Experiment : experiment[x] # NoRecord => experiment'[x] # NoRecord
      BY <1>1, <2>2 DEF InsertExperiment, Types
    <3>4. experiment'[e] # NoRecord
      BY <1>1, <2>2, <2>3 DEF InsertExperiment, Types
    <3>5. /\ \A n \in DOMAIN events : events[n].experiment # e
          /\ \A d \in Client : Announcing(d) => client[d].experiment # e
      BY <2>3 DEF AnnouncedOnce, EventsAreEarned
    <3>6. EventsAreEarned'
      BY <2>1, <3>3 DEF AnnouncedOnce, EventsAreEarned
    <3>7. \A d \in Client : Announcing(d)' =>
            /\ experiment'[client'[d].experiment] # NoRecord
            /\ \A n \in DOMAIN events :
                 events[n] # [kind |-> "experiment_recorded", experiment |-> client'[d].experiment]
      <4>1. ASSUME NEW d \in Client, Announcing(d)', d # c
            PROVE  Announcing(d) /\ client'[d] = client[d] /\ client[d].experiment \in Experiment
        BY <3>2, <4>1, RecordGoesOn DEF Announcing
      <4>2. QED
        BY <3>2, <3>3, <3>4, <3>5, <4>1 DEF AnnouncedOnce
    <3>8. \A b, d \in Client :
            Announcing(b)' /\ Announcing(d)' /\ client'[b].experiment = client'[d].experiment
              => b = d
      BY <3>2, <3>5 DEF AnnouncedOnce, Announcing
    <3>9. QED
      BY <2>1, <3>6, <3>7, <3>8 DEF AnnouncedOnce
  <2>4. CASE experiment[e] # NoRecord
    <3>1. Goes(c, Idle) /\ UNCHANGED events
      BY <1>1, <2>4 DEF InsertExperiment
    <3>2. UNCHANGED experiment
      BY <1>1, <2>2, <2>4 DEF InsertExperiment, Types
    <3>3. client'[c] = Idle /\ \A d \in Client : d # c => client'[d] = client[d]
      BY <3>1, Moves DEF ClientState
    <3>4. QED
      BY <3>1, <3>2, <3>3, QuietSteps DEF Announcing, Idle
  <2>5. QED
    BY <2>3, <2>4
<1>2. ASSUME NEW c \in Client, AnnounceExperiment(c) PROVE AnnouncedOnce'
  <2> DEFINE e == client[c].experiment
             event == [kind |-> "experiment_recorded", experiment |-> e]
  <2>1. Announcing(c) /\ e \in Experiment
    BY <1>2, RecordGoesOn DEF AnnounceExperiment, Announcing
  <2>2. Goes(c, Idle) /\ UNCHANGED experiment /\ events' = Append(events, event)
    BY <1>2 DEF AnnounceExperiment, Event
  <2>3. client'[c] = Idle /\ \A d \in Client : d # c => client'[d] = client[d]
    BY <2>2, Moves DEF ClientState
  <2>4. /\ events' \in Seq(EventType)
        /\ \A n \in DOMAIN events' :
             \/ n \in DOMAIN events /\ events'[n] = events[n]
             \/ n = Len(events) + 1 /\ events'[n] = event
    <3>1. event \in EventType
      BY <2>1 DEF EventType
    <3>2. QED
      BY <2>2, <3>1, Appended DEF AnnouncedOnce
  <2>5. /\ experiment[e] # NoRecord
        /\ \A n \in DOMAIN events : events[n] # event
        /\ \A d \in Client : Announcing(d) /\ d # c => client[d].experiment # e
    BY <2>1 DEF AnnouncedOnce
  <2>7. \A n \in DOMAIN events' : experiment'[events'[n].experiment] # NoRecord
    BY <2>2, <2>4, <2>5 DEF AnnouncedOnce, EventsAreEarned
  <2>8. \A n, k \in DOMAIN events' :
          events'[n] = events'[k] /\ events'[n].kind = "experiment_recorded" => n = k
    BY <2>4, <2>5 DEF AnnouncedOnce, EventsAreEarned
  <2>9. \A d \in Client : Announcing(d)' =>
          /\ experiment'[client'[d].experiment] # NoRecord
          /\ \A n \in DOMAIN events' :
               events'[n] # [kind |-> "experiment_recorded", experiment |-> client'[d].experiment]
    <3>1. ASSUME NEW d \in Client, Announcing(d)'
          PROVE  d # c /\ client'[d] = client[d] /\ Announcing(d)
      BY <2>3, <3>1 DEF Announcing, Idle
    <3>2. QED
      BY <2>2, <2>4, <2>5, <3>1 DEF AnnouncedOnce
  <2>10. \A b, d \in Client :
           Announcing(b)' /\ Announcing(d)' /\ client'[b].experiment = client'[d].experiment
             => b = d
    BY <2>3 DEF AnnouncedOnce, Announcing, Idle
  <2>11. QED
    BY <2>4, <2>7, <2>8, <2>9, <2>10 DEF AnnouncedOnce, EventsAreEarned
<1>3. ASSUME NEW c \in Client, LookUpExperiment(c) PROVE AnnouncedOnce'
  <2> DEFINE e == client[c].experiment
             event == [kind |-> "experiment_deduplicated", experiment |-> e]
  <2>1. UNCHANGED experiment /\ client[c].at = "validated"
    BY <1>3 DEF LookUpExperiment
  <2>2. e \in Experiment
    BY <2>1, RecordGoesOn
  <2>3. ~Announcing(c)' /\ \A d \in Client : d # c => client'[d] = client[d]
    <3>1. PICK state \in {Idle, [client[c] EXCEPT !.at = "inserting"]} : Goes(c, state)
      BY <1>3 DEF LookUpExperiment
    <3>2. state = Idle \/ (state \in Recording /\ state.at = "inserting")
      BY <2>1, <3>1, RecordGoesOn
    <3>3. state \in ClientState /\ state.at # "announcing"
      BY <3>2 DEF ClientState, Idle
    <3>4. QED
      BY <3>1, <3>3, Moves DEF Announcing
  <2>4. CASE UNCHANGED events
    BY <2>1, <2>3, <2>4, QuietSteps
  <2>5. CASE ~UNCHANGED events
    <3>1. /\ events' = Append(events, event) /\ experiment[e] = client[c].record
          /\ experiment[e] # NoRecord
      <4>1. events' = Append(events, event) /\ experiment[e] = client[c].record
        BY <1>3, <2>5 DEF LookUpExperiment, Event
      <4>2. client[c].record # NoRecord
        BY <2>1, RecordGoesOn, RecordsAreSome
      <4>3. QED
        BY <4>1, <4>2
    <3>2. /\ events' \in Seq(EventType)
          /\ \A n \in DOMAIN events' :
               \/ n \in DOMAIN events /\ events'[n] = events[n]
               \/ n = Len(events) + 1 /\ events'[n] = event
      <4>1. event \in EventType
        BY <2>2 DEF EventType
      <4>2. QED
        BY <3>1, <4>1, Appended DEF AnnouncedOnce
    <3>3. \A n \in DOMAIN events' :
            (n \in DOMAIN events /\ events'[n] = events[n]) \/ events'[n] = event
      BY <3>2
    <3>4. EventsAreEarned'
      BY <2>1, <3>1, <3>3 DEF AnnouncedOnce, EventsAreEarned
    <3>5. \A d \in Client : Announcing(d)' => Announcing(d) /\ client'[d] = client[d]
      BY <2>3 DEF Announcing
    <3>6. QED
      BY <2>1, <3>2, <3>3, <3>4, <3>5 DEF AnnouncedOnce
  <2>6. QED
    BY <2>4, <2>5
<1>4. CASE /\ Next
           /\ ~ \E c \in Client :
                  InsertExperiment(c) \/ AnnounceExperiment(c) \/ LookUpExperiment(c)
  <2>1. UNCHANGED <<experiment, events>>
    BY <1>4 DEF Next, BeginPut, BeginRecord, Publish, LookUpArtifact, IndexArtifact, Die,
                Damage, tables
  <2>2. ASSUME NEW c \in Client, Announcing(c)' PROVE client'[c] = client[c]
    <3>1. CASE \E x \in Content : Damage(x)
      BY <3>1 DEF Damage
    <3>2. ASSUME NEW d \in Client,
                 \/ \E ref \in Ref : BeginPut(d, ref)
                 \/ \E e \in Experiment, record \in Record : BeginRecord(d, e, record)
                 \/ Publish(d) \/ LookUpArtifact(d) \/ IndexArtifact(d) \/ Die(d)
          PROVE  client'[c] = client[c]
      <4>1. PICK state \in ClientState : Goes(d, state) /\ state.at # "announcing"
        <5>1. CASE \E ref \in Ref : BeginPut(d, ref)
          BY <5>1 DEF BeginPut, ClientState, Putting, Idle
        <5>2. CASE \E e \in Experiment, record \in Record : BeginRecord(d, e, record)
          BY <5>2 DEF BeginRecord, ClientState, Recording, Idle
        <5>3. CASE Publish(d)
          BY <5>3, PutGoesOn DEF Publish, ClientState
        <5>4. CASE LookUpArtifact(d)
          <6>1. PICK state \in {Idle, [client[d] EXCEPT !.at = "indexing"]} :
                   Goes(d, state) /\ client[d].at = "published"
            BY <5>4 DEF LookUpArtifact
          <6>2. state = Idle \/ (state \in Putting /\ state.at = "indexing")
            BY <6>1, PutGoesOn
          <6>3. QED
            BY <6>1, <6>2 DEF ClientState, Idle
        <5>5. CASE IndexArtifact(d) \/ Die(d)
          BY <5>5 DEF IndexArtifact, Die, ClientState, Idle
        <5>6. QED
          BY <3>2, <5>1, <5>2, <5>3, <5>4, <5>5
      <4>2. QED
        BY <2>2, <4>1, Moves DEF Announcing
    <3>3. QED
      BY <1>4, <3>1, <3>2 DEF Next
  <2>3. QED
    BY <2>1, <2>2, QuietSteps
<1>5. CASE UNCHANGED vars
  BY <1>5, QuietSteps DEF vars, tables
<1>6. QED
  BY <1>1, <1>2, <1>3, <1>4, <1>5

(* The log tells of recorded experiments only, and of each recording once. *)
THEOREM EventLogIsEarned == Spec => []EventsAreEarned
<1>1. Init => AnnouncedOnce
  BY DEF Init, AnnouncedOnce, EventsAreEarned, Announcing, Idle
<1>2. StoreInv /\ AnnouncedOnce /\ [Next]_vars => AnnouncedOnce'
  BY EventsKept
<1>3. AnnouncedOnce => EventsAreEarned
  BY DEF AnnouncedOnce
<1>4. QED
  BY <1>1, <1>2, <1>3, StoreInvariant, PTL DEF Spec
=============================================================================
