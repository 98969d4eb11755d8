--------------------------- MODULE EvidenceStore ---------------------------
(***************************************************************************)
(* EvidenceStore: content-addressed artifact files beside an SQLite index  *)
(* of artifacts, experiments and events, used by several clients at once.  *)
(* A file is published by renaming a staged one; each statement that       *)
(* writes the index commits on its own, so that a client may die, or       *)
(* another act, between any two of them. Files may also be damaged or lost *)
(* behind the store's back, which it must notice and never repair.         *)
(*                                                                         *)
(* A content stands for its hash: two contents never share one.            *)
(***************************************************************************)
EXTENDS Integers, Sequences, FiniteSets

CONSTANTS
  Client, Content, Provenance, Experiment, EvaluationKey,
  None,
  MaxDamage,      (* bound: files damaged or lost                          *)
  MaxEvents       (* bound: rows of the events table                       *)

ASSUME NoneAssumption == None \notin Provenance \cup EvaluationKey
ASSUME BoundAssumption == MaxDamage \in Nat /\ MaxEvents \in Nat

VARIABLES
  object,         (* artifacts/objects, by content                         *)
  artifact,       (* table artifacts: the provenance of a content          *)
  experiment,     (* table experiments                                     *)
  events,         (* table events                                          *)
  damage,         (* files damaged so far                                  *)
  damaged,        (* contents that were ever damaged or lost               *)
  client          (* what each client is doing                             *)

tables == <<artifact, experiment, events>>
vars == <<object, tables, damage, damaged, client>>

Ref == [content : Content, provenance : Provenance]
NoRecord == [key |-> None, ref |-> None]
Record == [key : EvaluationKey, ref : Ref]

Idle == [at |-> "idle"]

Init ==
  /\ object = [x \in Content |-> "absent"]
  /\ artifact = [x \in Content |-> None]
  /\ experiment = [e \in Experiment |-> NoRecord]
  /\ events = <<>>
  /\ damage = 0 /\ damaged = {}
  /\ client = [c \in Client |-> Idle]

Goes(c, state) == client' = [client EXCEPT ![c] = state]

-----------------------------------------------------------------------------
(* put_artifact: an object that is there is compared with its address; one *)
(* that is not is staged, to be renamed. Bytes that drifted are refused.   *)

BeginPut(c, ref) ==
  LET there == object[ref.content] IN
  /\ client[c] = Idle
  /\ \/ there = "drifted" /\ Goes(c, Idle)
     \/ there = "whole" /\ Goes(c, [at |-> "published", ref |-> ref])
     \/ there = "absent" /\ Goes(c, [at |-> "staged", ref |-> ref])
  /\ UNCHANGED <<object, tables, damage, damaged>>

(* os.replace: whatever has come to the address meanwhile is replaced.     *)
Publish(c) ==
  /\ client[c].at = "staged"
  /\ object' = [object EXCEPT ![client[c].ref.content] = "whole"]
  /\ Goes(c, [client[c] EXCEPT !.at = "published"])
  /\ UNCHANGED <<tables, damage, damaged>>

(* Mutant: the row is written before the file is renamed into place.       *)
LookUpUnpublished(c) ==
  LET ref == client[c].ref IN
  /\ client[c].at \in {"staged", "published"}
  /\ artifact[ref.content] \in {None, ref.provenance}
  /\ Goes(c, [client[c] EXCEPT !.at = "indexing"])
  /\ UNCHANGED <<object, tables, damage, damaged>>

(* One content has one provenance: the row that is there decides.          *)
LookUpArtifact(c) ==
  LET ref == client[c].ref IN
  /\ client[c].at = "published"
  /\ Goes(c, IF artifact[ref.content] \in {None, ref.provenance}
             THEN [client[c] EXCEPT !.at = "indexing"] ELSE Idle)
  /\ UNCHANGED <<object, tables, damage, damaged>>

(* INSERT OR IGNORE: a row that another client has added meanwhile stands. *)
IndexArtifact(c) ==
  LET ref == client[c].ref IN
  /\ client[c].at = "indexing"
  /\ artifact' = [artifact EXCEPT ![ref.content] = IF @ = None THEN ref.provenance ELSE @]
  /\ Goes(c, Idle)
  /\ UNCHANGED <<object, experiment, events, damage, damaged>>

-----------------------------------------------------------------------------
(* record_experiment, in the order of its reads and writes.                *)

(* Mutant: the bytes are checked, and not where they came from.            *)
BytesSound(ref) ==
  object[ref.content] = "whole" /\ artifact[ref.content] # None

Sound(ref) ==
  object[ref.content] = "whole" /\ artifact[ref.content] = ref.provenance

(* _validate_evidence_refs: every reference is indexed, stored, whole, and *)
(* says what the index says. References need not come from put_artifact.   *)
BeginRecord(c, e, record) ==
  /\ client[c] = Idle
  /\ Goes(c, IF Sound(record.ref)
             THEN [at |-> "validated", experiment |-> e, record |-> record] ELSE Idle)
  /\ UNCHANGED <<object, tables, damage, damaged>>

Event(kind, e) == Append(events, [kind |-> kind, experiment |-> e])

(* get_experiment reads the old record with its evidence: damage to that   *)
(* raises. The same record again is a duplicate, another one a conflict.   *)
LookUpExperiment(c) ==
  LET e == client[c].experiment
      there == experiment[e]
  IN
  /\ client[c].at = "validated"
  /\ \/ /\ there = NoRecord
        /\ Goes(c, [client[c] EXCEPT !.at = "inserting"])
        /\ UNCHANGED events
     \/ /\ there = client[c].record /\ Sound(there.ref)
        /\ Len(events) < MaxEvents
        /\ events' = Event("experiment_deduplicated", e)
        /\ Goes(c, Idle)
     \/ /\ there # NoRecord
        /\ there # client[c].record \/ ~Sound(there.ref)
        /\ Goes(c, Idle)
        /\ UNCHANGED events
  /\ UNCHANGED <<object, artifact, experiment, damage, damaged>>

(* Mutant: INSERT OR REPLACE.                                              *)
ReplaceExperiment(c) ==
  LET e == client[c].experiment IN
  /\ client[c].at = "inserting"
  /\ experiment' = [experiment EXCEPT ![e] = client[c].record]
  /\ Goes(c, [client[c] EXCEPT !.at = "announcing"])
  /\ UNCHANGED <<object, artifact, events, damage, damaged>>

(* Mutant: INSERT OR IGNORE, as for artifacts.                             *)
InsertIgnored(c) ==
  LET e == client[c].experiment IN
  /\ client[c].at = "inserting"
  /\ experiment' = [experiment EXCEPT ![e] = IF @ = NoRecord THEN client[c].record ELSE @]
  /\ Goes(c, [client[c] EXCEPT !.at = "announcing"])
  /\ UNCHANGED <<object, artifact, events, damage, damaged>>

(* The primary key: a row that another client inserted after the look      *)
(* makes this INSERT raise.                                                *)
InsertExperiment(c) ==
  LET e == client[c].experiment IN
  /\ client[c].at = "inserting"
  /\ experiment' = [experiment EXCEPT ![e] = IF @ = NoRecord THEN client[c].record ELSE @]
  /\ Goes(c, IF experiment[e] = NoRecord THEN [client[c] EXCEPT !.at = "announcing"] ELSE Idle)
  /\ UNCHANGED <<object, artifact, events, damage, damaged>>

AnnounceExperiment(c) ==
  /\ client[c].at = "announcing"
  /\ Len(events) < MaxEvents
  /\ events' = Event("experiment_recorded", client[c].experiment)
  /\ Goes(c, Idle)
  /\ UNCHANGED <<object, artifact, experiment, damage, damaged>>

-----------------------------------------------------------------------------
(* A client that dies leaves a staged file, which nothing looks at, an     *)
(* object without a row or a record without an event.                      *)
Die(c) ==
  /\ client[c] # Idle
  /\ Goes(c, Idle)
  /\ UNCHANGED <<object, tables, damage, damaged>>

Damage(x) ==
  /\ damage < MaxDamage /\ object[x] = "whole"
  /\ object' \in {[object EXCEPT ![x] = "absent"], [object EXCEPT ![x] = "drifted"]}
  /\ damage' = damage + 1 /\ damaged' = damaged \cup {x}
  /\ UNCHANGED <<tables, client>>

Next ==
  \/ \E c \in Client :
       \/ \E ref \in Ref : BeginPut(c, ref)
       \/ \E e \in Experiment, record \in Record : BeginRecord(c, e, record)
       \/ Publish(c) \/ LookUpArtifact(c) \/ IndexArtifact(c)
       \/ LookUpExperiment(c) \/ InsertExperiment(c) \/ AnnounceExperiment(c)
       \/ Die(c)
  \/ \E x \in Content : Damage(x)

Spec == Init /\ [][Next]_vars

-----------------------------------------------------------------------------
(* What audit() reports.                                                   *)
corrupted == {x \in Content : artifact[x] # None /\ object[x] = "drifted"}
missing == {x \in Content : artifact[x] # None /\ object[x] = "absent"}
orphaned == {x \in Content : artifact[x] = None /\ object[x] # "absent"}

TypeOK ==
  /\ object \in [Content -> {"absent", "whole", "drifted"}]
  /\ artifact \in [Content -> Provenance \cup {None}]
  /\ experiment \in [Experiment -> Record \cup {NoRecord}]
  /\ events \in Seq([kind : {"experiment_recorded", "experiment_deduplicated"},
                     experiment : Experiment])
  /\ damage \in Nat /\ damaged \subseteq Content

(* audit() accuses no one falsely: whatever clients do at once and         *)
(* wherever they die, a file is reported missing or corrupted only if it   *)
(* was damaged behind the store's back. (An orphan may be a crash.)        *)
AuditBlamesDamage == corrupted \cup missing \subseteq damaged

(* Evidence of a recorded experiment is indexed under the provenance that  *)
(* the record states, although records and artifacts come from different   *)
(* clients and a put that lost a race returns a reference with another.    *)
EvidenceIsIndexed ==
  \A e \in Experiment :
    experiment[e] # NoRecord => artifact[experiment[e].ref.content] = experiment[e].ref.provenance

(* "a recorded terminal state can never be contradicted": two clients may  *)
(* both have found no record before either wrote one.                      *)
RecordsStand ==
  [][\A e \in Experiment : experiment[e] # NoRecord => experiment'[e] = experiment[e]]_vars

(* The event log never tells of an experiment that is not recorded, and    *)
(* tells of its recording at most once. (A crash may leave a record that   *)
(* no event announces: record and event are two transactions.)             *)
EventsAreEarned ==
  /\ \A n \in DOMAIN events : experiment[events[n].experiment] # NoRecord
  /\ \A n, m \in DOMAIN events :
       (events[n] = events[m] /\ events[n].kind = "experiment_recorded") => n = m
=============================================================================
