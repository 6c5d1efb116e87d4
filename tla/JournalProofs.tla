---------------------------- MODULE JournalProofs ----------------------------
(***************************************************************************)
(* Theorems about Journal, for every set of runs, targets, lock keys,      *)
(* requests and backups and for journals of any length.                    *)
(***************************************************************************)
EXTENDS Journal, StoreProofs, WellFoundedInduction, NaturalsInduction

-----------------------------------------------------------------------------
(* Appending one event to the journal.                                     *)

Events == {journal_events[i] : i \in DOMAIN journal_events}

JournalIsSequence == journal_events \in Seq(Events)

LastPosition == Len(journal_events)

(* What appendEvent(event) does, position by position.                     *)
Extends(event) ==
  /\ LastPosition \in Nat /\ DOMAIN journal_events = 1..LastPosition
  /\ DOMAIN journal_events' = 1..(LastPosition + 1)
  /\ journal_events'[LastPosition + 1] = event
  /\ \A i \in 1..LastPosition : journal_events'[i] = journal_events[i]

LEMMA AppendExtends ==
  ASSUME JournalIsSequence, NEW event, appendEvent(event)
  PROVE  /\ Extends(event)
         /\ JournalIsSequence'
         /\ journal_events' # <<>>
         /\ journal_events'[Len(journal_events')] = event
<1> DEFINE all == Events \cup {event}
<1>1. journal_events \in Seq(all)
  BY DEF JournalIsSequence
<1>2. journal_events' = Append(journal_events, event) /\ event \in all
  BY DEF appendEvent
<1> HIDE DEF all
<1>3. /\ journal_events' \in Seq(all)
      /\ LastPosition \in Nat /\ DOMAIN journal_events = 1..LastPosition
      /\ Len(journal_events') = LastPosition + 1
      /\ DOMAIN journal_events' = 1..(LastPosition + 1)
      /\ journal_events'[LastPosition + 1] = event
      /\ \A i \in 1..LastPosition : journal_events'[i] = journal_events[i]
  BY <1>1, <1>2 DEF LastPosition
<1>4. journal_events' # <<>>
  BY <1>3
<1>5. JournalIsSequence'
  <2>1. \A i \in 1..Len(journal_events') : journal_events'[i] \in Events'
    BY <1>3 DEF Events
  <2> QED
    BY <1>3, <2>1 DEF JournalIsSequence
<1> QED
  BY <1>3, <1>4, <1>5 DEF Extends

-----------------------------------------------------------------------------
(* What a transaction's event must say for the queries and the unique      *)
(* indexes to stay in step with the tables.                                *)

VersionedRun(event, id) == event.maintenance_id = id /\ event.aggregate_version # 0

ObservationOf(event) ==
  [maintenance_id |-> event.maintenance_id, target_id |-> event.target_id,
   request_id |-> event.request_id, payload |-> event.payload.document]

Records(event) ==
  /\ \A id \in MaintenanceIDs :
       IF VersionedRun(event, id)
       THEN /\ event.aggregate_version = maintenance[id].version + 1
            /\ maintenance'[id].version = maintenance[id].version + 1
       ELSE maintenance'[id].version = maintenance[id].version
  /\ exercised' = IF event.type = "target.transitioned"
                  THEN exercised \cup {event.maintenance_id} ELSE exercised
  /\ observations' = IF event.type = "target.observed"
                     THEN observations \cup {ObservationOf(event)} ELSE observations
  /\ event.type = "target.observed" =>
       \A o \in observations : ~(/\ o.maintenance_id = event.maintenance_id
                                 /\ o.target_id = event.target_id
                                 /\ o.request_id = event.request_id)

OfType(type) == {i \in DOMAIN journal_events : journal_events[i].type = type}

LEMMA OfTypeGrows ==
  ASSUME NEW event, Extends(event), NEW type
  PROVE  OfType(type)' = IF event.type = type THEN OfType(type) \cup {LastPosition + 1}
                                              ELSE OfType(type)
BY DEF Extends, OfType

LEMMA QueriesFollow ==
  ASSUME QueriesMatchJournal, NEW event, Extends(event), Records(event)
  PROVE  QueriesMatchJournal'
<1> DEFINE moved == OfType("target.transitioned")
           seen == OfType("target.observed")
<1>1. /\ exercised = {journal_events[i].maintenance_id : i \in moved}
      /\ observations = {ObservationOf(journal_events[i]) : i \in seen}
  BY DEF QueriesMatchJournal, OfType, ObservationOf
<1>2. /\ moved \subseteq 1..LastPosition /\ seen \subseteq 1..LastPosition
      /\ LastPosition + 1 \notin 1..LastPosition
      /\ journal_events'[LastPosition + 1] = event
      /\ \A i \in 1..LastPosition : journal_events'[i] = journal_events[i]
  BY DEF Extends, OfType
<1>3. /\ moved' = IF event.type = "target.transitioned" THEN moved \cup {LastPosition + 1}
                                                      ELSE moved
      /\ seen' = IF event.type = "target.observed" THEN seen \cup {LastPosition + 1} ELSE seen
  BY OfTypeGrows
<1> HIDE DEF moved, seen
<1>4. exercised' = {journal_events'[i].maintenance_id : i \in moved'}
  BY <1>1, <1>2, <1>3 DEF Records
<1>5. observations' = {ObservationOf(journal_events'[i]) : i \in seen'}
  BY <1>1, <1>2, <1>3 DEF Records, ObservationOf
<1> QED
  BY <1>4, <1>5 DEF QueriesMatchJournal, OfType, ObservationOf, moved, seen

(* JournalIsDense, for one run.                                            *)
Versioned(id) ==
  {i \in DOMAIN journal_events :
     journal_events[i].maintenance_id = id /\ journal_events[i].aggregate_version # 0}

Observed(id) ==
  {i \in DOMAIN journal_events :
     journal_events[i].maintenance_id = id /\ journal_events[i].type = "target.observed"}

SameObservation(a, b) == a.target_id = b.target_id /\ a.request_id = b.request_id

LEMMA DenseFollows ==
  ASSUME TablesOK, QueriesMatchJournal, JournalIsDense,
         NEW event, Extends(event), Records(event)
  PROVE  JournalIsDense'
<1> SUFFICES
      ASSUME NEW id \in MaintenanceIDs
      PROVE  /\ {journal_events'[i].aggregate_version : i \in Versioned(id)'} =
                  1..maintenance'[id].version
             /\ \A i, j \in Versioned(id)' :
                  i < j <=> journal_events'[i].aggregate_version <
                            journal_events'[j].aggregate_version
             /\ \A i, j \in Observed(id)' :
                  SameObservation(journal_events'[i], journal_events'[j]) => i = j
  BY DEF JournalIsDense, Versioned, Observed, SameObservation
<1> DEFINE n == LastPosition + 1
           v == maintenance[id].version
<1>1. v \in Nat
  BY MaintenanceRowFields DEF TablesOK
<1>2. /\ n \in Nat
      /\ \A i \in DOMAIN journal_events : i \in Nat /\ i < n /\ journal_events'[i] = journal_events[i]
      /\ DOMAIN journal_events' = DOMAIN journal_events \cup {n}
      /\ journal_events'[n] = event
  BY DEF Extends
<1>3. /\ {journal_events[i].aggregate_version : i \in Versioned(id)} = 1..v
      /\ \A i, j \in Versioned(id) :
           i < j <=> journal_events[i].aggregate_version < journal_events[j].aggregate_version
      /\ \A i, j \in Observed(id) :
           SameObservation(journal_events[i], journal_events[j]) => i = j
  BY DEF JournalIsDense, Versioned, Observed, SameObservation
<1>4. /\ Versioned(id) \subseteq DOMAIN journal_events
      /\ Observed(id) \subseteq DOMAIN journal_events
      /\ Versioned(id)' = IF VersionedRun(event, id) THEN Versioned(id) \cup {n} ELSE Versioned(id)
      /\ Observed(id)' = IF event.maintenance_id = id /\ event.type = "target.observed"
                         THEN Observed(id) \cup {n} ELSE Observed(id)
  BY <1>2 DEF Versioned, Observed, VersionedRun
<1>5. \A i \in Versioned(id) : journal_events[i].aggregate_version \in 1..v
  BY <1>3
<1>6. event.type = "target.observed" /\ event.maintenance_id = id =>
        \A i \in Observed(id) : ~SameObservation(journal_events[i], event)
  <2> SUFFICES ASSUME event.type = "target.observed", event.maintenance_id = id,
                      NEW i \in Observed(id), SameObservation(journal_events[i], event)
               PROVE  FALSE
    OBVIOUS
  <2>1. ObservationOf(journal_events[i]) \in observations
    BY DEF QueriesMatchJournal, ObservationOf, Observed
  <2>2. /\ ObservationOf(journal_events[i]).maintenance_id = event.maintenance_id
        /\ ObservationOf(journal_events[i]).target_id = event.target_id
        /\ ObservationOf(journal_events[i]).request_id = event.request_id
    BY DEF ObservationOf, SameObservation, Observed
  <2> QED
    BY <2>1, <2>2 DEF Records
<1> HIDE DEF n
<1>7. CASE VersionedRun(event, id)
  <2>1. event.aggregate_version = v + 1 /\ maintenance'[id].version = v + 1
    BY <1>7 DEF Records
  <2> HIDE DEF v
  <2>2. \A i \in Versioned(id) : journal_events'[i].aggregate_version \in 1..v
    BY <1>2, <1>4, <1>5
  <2>3. {journal_events'[i].aggregate_version : i \in Versioned(id)'} =
          {journal_events[i].aggregate_version : i \in Versioned(id)} \cup {v + 1}
    BY <1>2, <1>4, <1>7, <2>1
  <2>4. {journal_events'[i].aggregate_version : i \in Versioned(id)'} = 1..(v + 1)
    BY <1>1, <1>3, <2>3
  <2>5. \A i, j \in Versioned(id)' :
          i < j <=> journal_events'[i].aggregate_version < journal_events'[j].aggregate_version
    <3> SUFFICES ASSUME NEW i \in Versioned(id)', NEW j \in Versioned(id)'
                 PROVE  i < j <=> journal_events'[i].aggregate_version <
                                  journal_events'[j].aggregate_version
      OBVIOUS
    <3>1. CASE i # n /\ j # n
      BY <1>2, <1>3, <1>4, <3>1
    <3>2. CASE i = n /\ j # n
      BY <1>1, <1>2, <1>4, <2>1, <2>2, <3>2
    <3>3. CASE i # n /\ j = n
      BY <1>1, <1>2, <1>4, <2>1, <2>2, <3>3
    <3>4. CASE i = n /\ j = n
      BY <1>1, <1>2, <2>1, <3>4
    <3> QED
      BY <3>1, <3>2, <3>3, <3>4
  <2>6. \A i, j \in Observed(id)' :
          SameObservation(journal_events'[i], journal_events'[j]) => i = j
    BY <1>2, <1>3, <1>4, <1>6 DEF SameObservation
  <2> QED
    BY <2>1, <2>4, <2>5, <2>6 DEF v
<1>8. CASE ~VersionedRun(event, id)
  <2>1. maintenance'[id].version = v
    BY <1>8 DEF Records
  <2> HIDE DEF v
  <2>2. {journal_events'[i].aggregate_version : i \in Versioned(id)'} = 1..v
    BY <1>2, <1>3, <1>4, <1>8
  <2>3. \A i, j \in Versioned(id)' :
          i < j <=> journal_events'[i].aggregate_version < journal_events'[j].aggregate_version
    BY <1>2, <1>3, <1>4, <1>8
  <2>4. \A i, j \in Observed(id)' :
          SameObservation(journal_events'[i], journal_events'[j]) => i = j
    BY <1>2, <1>3, <1>4, <1>6 DEF SameObservation
  <2> QED
    BY <2>1, <2>2, <2>3, <2>4
<1> QED
  BY <1>7, <1>8

-----------------------------------------------------------------------------
(* Every transaction records what it does.                                 *)

(* A transaction on one run, told by what it does to the run's version and *)
(* to what is read back from the journal.                                  *)
LEMMA RecordsByRun ==
  ASSUME NEW event, NEW id \in MaintenanceIDs,
         event.maintenance_id = id, event.aggregate_version # 0,
         event.aggregate_version = maintenance[id].version + 1,
         maintenance'[id].version = maintenance[id].version + 1,
         \A r \in MaintenanceIDs \ {id} : maintenance'[r] = maintenance[r],
         event.type # "target.observed", UNCHANGED observations,
         exercised' = IF event.type = "target.transitioned" THEN exercised \cup {id}
                                                            ELSE exercised
  PROVE  Records(event)
BY DEF Records, VersionedRun

LEMMA CreateRecords ==
  ASSUME TablesOK, NEW id \in MaintenanceIDs, NEW role, CreateMaintenance(id)
  PROVE  Records(CreatedEvent(id, role))
<1>1. maintenance[id].version = 0
  BY CreateGuard DEF CreateMaintenance, Exists
<1>2. maintenance' = [maintenance EXCEPT ![id] = [state |-> "new", version |-> 1]]
  BY DEF CreateMaintenance
<1>3. /\ maintenance'[id].version = 1
      /\ \A r \in MaintenanceIDs \ {id} : maintenance'[r] = maintenance[r]
  <2>1. "new" \in MaintenanceStates /\ 1 \in Nat \ {0}
    BY StateSets
  <2> QED
    BY <1>2, <2>1, MaintenanceUpdate
<1>4. UNCHANGED <<exercised, observations>>
  BY DEF CreateMaintenance
<1> DEFINE event == CreatedEvent(id, role)
<1>5. /\ event.maintenance_id = id /\ event.aggregate_version = 1
      /\ event.type = "maintenance.created"
  BY DEF CreatedEvent
<1> HIDE DEF event
<1> QED
  BY <1>1, <1>3, <1>4, <1>5, RecordsByRun DEF event

(* The version that a transaction on an existing run writes.               *)
LEMMA VersionWritten ==
  ASSUME TablesOK, NEW id \in MaintenanceIDs, NEW state \in MaintenanceStates,
         maintenance' = [maintenance EXCEPT
                           ![id] = [state |-> state, version |-> @.version + 1]]
  PROVE  /\ maintenance'[id].version = maintenance[id].version + 1
         /\ maintenance'[id].state = state
         /\ maintenance[id].version + 1 # 0
         /\ \A r \in MaintenanceIDs \ {id} : maintenance'[r] = maintenance[r]
<1>1. PICK version \in Nat \ {0} : version = maintenance[id].version + 1
  BY NextVersion
<1>2. maintenance' = [maintenance EXCEPT ![id] = [state |-> state, version |-> version]]
  BY <1>1
<1>3. /\ maintenance'[id].version = version /\ maintenance'[id].state = state
      /\ \A r \in MaintenanceIDs \ {id} : maintenance'[r] = maintenance[r]
  BY ONLY <1>2, TablesOK, MaintenanceUpdate
<1> QED
  BY <1>1, <1>3

LEMMA CaptureRecords ==
  ASSUME TablesOK, NEW id \in MaintenanceIDs, NEW payload, NEW role,
         CaptureMaintenance(id, payload)
  PROVE  Records(CapturedEvent(id, payload, role))
<1>1. /\ maintenance'[id].version = maintenance[id].version + 1
      /\ maintenance[id].version + 1 # 0
      /\ \A r \in MaintenanceIDs \ {id} : maintenance'[r] = maintenance[r]
  BY StateSets, VersionWritten DEF CaptureMaintenance
<1>2. UNCHANGED <<exercised, observations>>
  BY DEF CaptureMaintenance
<1> DEFINE event == CapturedEvent(id, payload, role)
<1>3. /\ event.maintenance_id = id /\ event.type = "maintenance.captured"
      /\ event.aggregate_version = maintenance[id].version + 1
  BY DEF CapturedEvent
<1> HIDE DEF event
<1> QED
  BY <1>1, <1>2, <1>3, RecordsByRun DEF event

LEMMA TransitionRecords ==
  ASSUME TablesOK, NEW id \in MaintenanceIDs, NEW change, NEW precondition, NEW role,
         TransitionMaintenance(id, change, precondition, role)
  PROVE  Records(TransitionEvent(id, change, role))
<1>1. change.state \in MaintenanceStates
  BY TransitionGuard DEF TransitionMaintenance
<1>2. /\ maintenance'[id].version = maintenance[id].version + 1
      /\ maintenance[id].version + 1 # 0
      /\ \A r \in MaintenanceIDs \ {id} : maintenance'[r] = maintenance[r]
  BY <1>1, VersionWritten DEF TransitionMaintenance
<1>3. UNCHANGED <<exercised, observations>>
  BY DEF TransitionMaintenance
<1> DEFINE event == TransitionEvent(id, change, role)
<1>4. /\ event.maintenance_id = id
      /\ event.type \notin {"target.transitioned", "target.observed"}
      /\ event.aggregate_version = maintenance[id].version + 1
  BY DEF TransitionEvent, TransitionEventType
<1> HIDE DEF event
<1> QED
  BY <1>2, <1>3, <1>4, RecordsByRun DEF event

(* The cancel guard reads what TargetEventType writes: a move that is not  *)
(* a skip, and only that.                                                  *)
LEMMA TargetRecords ==
  ASSUME TablesOK, NEW id \in MaintenanceIDs, NEW t, NEW change, NEW precondition, NEW role,
         TransitionTarget(id, t, change, precondition, role)
  PROVE  Records(TargetEvent(id, t, change, role))
<1>1. maintenance[id].version # 0
  BY TargetGuard DEF TransitionTarget, Exists
<1>2. /\ maintenance'[id].version = maintenance[id].version + 1
      /\ maintenance[id].version + 1 # 0
      /\ \A r \in MaintenanceIDs \ {id} : maintenance'[r] = maintenance[r]
  BY <1>1, AdvancedRunFacts, NextVersion DEF TransitionTarget
<1> DEFINE event == TargetEvent(id, t, change, role)
<1>3. /\ event.maintenance_id = id
      /\ event.type = TargetEventType(change.state)
      /\ event.aggregate_version = maintenance[id].version + 1
  BY DEF TargetEvent
<1>4. /\ event.type # "target.observed" /\ UNCHANGED observations
      /\ exercised' = IF event.type = "target.transitioned" THEN exercised \cup {id}
                                                            ELSE exercised
  BY <1>3 DEF TransitionTarget, TargetEventType
<1> HIDE DEF event
<1> QED
  BY <1>2, <1>3, <1>4, RecordsByRun DEF event

LEMMA ObservationRecords ==
  ASSUME NEW id \in MaintenanceIDs, NEW t, NEW request, NEW payload, NEW precondition, NEW role,
         AddObservation(id, t, request, payload, precondition)
  PROVE  Records(ObservedEvent(id, t, request, payload, role))
<1> DEFINE event == ObservedEvent(id, t, request, payload, role)
<1>1. /\ event.maintenance_id = id /\ event.target_id = t /\ event.request_id = request
      /\ event.type = "target.observed" /\ event.aggregate_version = 0
      /\ event.payload = [document |-> payload]
  BY DEF ObservedEvent
<1> HIDE DEF event
<1>2. SavedObservations(id, t, request) = {}
  BY ObservationGuard DEF AddObservation
<1>3. \A o \in observations :
        ~(o.maintenance_id = id /\ o.target_id = t /\ o.request_id = request)
  BY <1>2 DEF SavedObservations
<1>4. ObservationOf(event) = [maintenance_id |-> id, target_id |-> t,
                              request_id |-> request, payload |-> payload]
  BY <1>1 DEF ObservationOf
<1>5. /\ observations' = observations \cup {ObservationOf(event)}
      /\ UNCHANGED <<maintenance, exercised>>
  BY <1>4 DEF AddObservation
<1>6. Records(event)
  BY <1>1, <1>3, <1>5 DEF Records, VersionedRun
<1> QED
  BY <1>6 DEF event

LEMMA BackupRecords ==
  ASSUME NEW type \in {"backup.created", "backup.downloaded"}, NEW file, NEW payload,
         UNCHANGED vars
  PROVE  Records(BackupEvent(type, file, payload))
BY DEF Records, VersionedRun, BackupEvent, vars

-----------------------------------------------------------------------------
(* The journal only adds to the store: every step of Journal is a step of  *)
(* Store, or leaves the store's tables alone, and appends one event that   *)
(* records it.                                                             *)

LEMMA StoreStep == JNext => [Next]_vars
<1> SUFFICES ASSUME JNext PROVE [Next]_vars
  OBVIOUS
<1>1. CASE RunWrite
  BY <1>1 DEF RunWrite, Next
<1>2. CASE BackupWrite
  BY <1>2 DEF BackupWrite, RecordBackupCreated, RecordBackupDownload
<1> QED
  BY <1>1, <1>2 DEF JNext

LEMMA WriteRecords ==
  ASSUME TablesOK, JNext
  PROVE  \E event : appendEvent(event) /\ Records(event)
<1>1. CASE RunWrite
  <2>1. PICK id \in MaintenanceIDs, role \in WriterRoles :
          \/ CreateMaintenance(id) /\ appendEvent(CreatedEvent(id, role))
          \/ \E payload \in CapturePayloads :
               CaptureMaintenance(id, payload) /\ appendEvent(CapturedEvent(id, payload, role))
          \/ \E change \in StateChange, precondition \in Preconditions :
               \/ /\ TransitionMaintenance(id, change, precondition, role)
                  /\ appendEvent(TransitionEvent(id, change, role))
               \/ \E t \in TargetIDs :
                    /\ TransitionTarget(id, t, change, precondition, role)
                    /\ appendEvent(TargetEvent(id, t, change, role))
          \/ \E t \in TargetIDs, request \in RequestIDs, payload \in ObservationPayloads,
                precondition \in Preconditions :
               /\ AddObservation(id, t, request, payload, precondition)
               /\ appendEvent(ObservedEvent(id, t, request, payload, role))
    BY <1>1 DEF RunWrite
  <2> QED
    BY <2>1, CreateRecords, CaptureRecords, TransitionRecords, TargetRecords, ObservationRecords
<1>2. CASE BackupWrite
  BY <1>2, BackupRecords DEF BackupWrite, RecordBackupCreated, RecordBackupDownload
<1> QED
  BY <1>1, <1>2 DEF JNext

(* The inductive invariant of the journal.                                 *)
JournalInvariant ==
  StoreInvariant /\ JournalIsSequence /\ QueriesMatchJournal /\ JournalIsDense

LEMMA JournalInit == JInit => JournalInvariant
<1> SUFFICES ASSUME JInit PROVE JournalInvariant
  OBVIOUS
<1>1. StoreInvariant
  BY InvariantInit DEF JInit
<1>2. journal_events = <<>> /\ DOMAIN journal_events = {}
  BY DEF JInit
<1>3. JournalIsSequence
  BY <1>2 DEF JournalIsSequence
<1>4. QueriesMatchJournal
  BY <1>2 DEF QueriesMatchJournal, JInit, Init
<1>5. JournalIsDense
  <2>1. \A id \in MaintenanceIDs : maintenance[id].version = 0
    BY DEF JInit, Init, NoRow
  <2> QED
    BY <1>2, <2>1 DEF JournalIsDense
<1> QED
  BY <1>1, <1>3, <1>4, <1>5 DEF JournalInvariant

LEMMA JournalStep == JournalInvariant /\ [JNext]_jvars => JournalInvariant'
<1> SUFFICES ASSUME JournalInvariant, [JNext]_jvars PROVE JournalInvariant'
  OBVIOUS
<1>1. StoreInvariant /\ TablesOK
  BY DEF JournalInvariant, StoreInvariant, TypeOK
<1>2. StoreInvariant'
  BY <1>1, StoreStep, InvariantStep DEF jvars
<1>3. CASE JNext
  <2>1. PICK event : appendEvent(event) /\ Records(event)
    BY <1>1, <1>3, WriteRecords
  <2>2. Extends(event) /\ JournalIsSequence'
    BY <2>1, AppendExtends DEF JournalInvariant
  <2>3. QueriesMatchJournal'
    BY <2>1, <2>2, QueriesFollow DEF JournalInvariant
  <2>4. JournalIsDense'
    BY <1>1, <2>1, <2>2, DenseFollows DEF JournalInvariant
  <2> QED
    BY <1>2, <2>2, <2>3, <2>4 DEF JournalInvariant
<1>4. CASE UNCHANGED jvars
  BY <1>2, <1>4 DEF JournalInvariant, jvars, vars, JournalIsSequence, Events,
                    QueriesMatchJournal, JournalIsDense
<1> QED
  BY <1>3, <1>4

(* The invariant holds after every transaction of mutations.go and         *)
(* backup.go.                                                              *)
THEOREM JournalCorrect == JSpec => []JournalInvariant
BY JournalInit, JournalStep, PTL DEF JSpec

(* Adding the journal changes nothing about the tables: what is proved of  *)
(* mutations.go without its appendEvent calls holds with them.             *)
THEOREM JournalImplementsStore == JSpec => Spec
<1>1. JInit => Init
  BY DEF JInit
<1>2. [JNext]_jvars => [Next]_vars
  BY StoreStep DEF jvars
<1> QED
  BY <1>1, <1>2, PTL DEF JSpec, Spec

(* What the transactions read back from journal_events is what they would  *)
(* find in the tables.                                                     *)
THEOREM QueriesAreRight == JSpec => []QueriesMatchJournal
<1>1. JournalInvariant => QueriesMatchJournal
  BY DEF JournalInvariant
<1> QED
  BY <1>1, JournalCorrect, PTL

(* The unique indexes on journal_events never reject a legal write, and a  *)
(* run's versions are numbered without a gap.                              *)
THEOREM VersionsAreDense == JSpec => []JournalIsDense
<1>1. JournalInvariant => JournalIsDense
  BY DEF JournalInvariant
<1> QED
  BY <1>1, JournalCorrect, PTL

-----------------------------------------------------------------------------
(* The refinement.  A transaction on one run satisfies the journal's       *)
(* contract when its event is accepted by the replay of that run, and the  *)
(* replay arrives at the tables that the transaction commits.              *)

ReplayStep(id, event) ==
  /\ event.maintenance_id = id
  /\ validateEventShape(event)
  /\ maintenance_captures' \in
       {maintenance_captures, [maintenance_captures EXCEPT ![id] = maintenance_captures'[id]]}
  /\ HasCapture(id) => maintenance_captures' = maintenance_captures
  /\ Accepts(ReplayOfTables(id), event, maintenance_captures'[id])
  /\ ReplayOfTables(id)' = apply(ReplayOfTables(id), event, maintenance_captures'[id])
  /\ \A r \in MaintenanceIDs \ {id} : ReplayOfTables(r)' = ReplayOfTables(r)

(* The instance's copies of the verifier's operators are the verifier's.   *)
LEMMA SameShape ==
  ASSUME NEW event
  PROVE  Verifier!validateEventShape(event) <=> validateEventShape(event)
BY DEF Verifier!validateEventShape, Verifier!MaintenanceEventTypes, Verifier!TargetEventTypes,
       Verifier!NoStates, Verifier!NoVersions,
       validateEventShape, MaintenanceEventTypes, TargetEventTypes, NoStates, NoVersions

LEMMA SameTransitions ==
  /\ Verifier!maintenanceTransitions = maintenanceTransitions
  /\ Verifier!targetTransitions = targetTransitions
BY DEF Verifier!maintenanceTransitions, Verifier!targetTransitions,
       maintenanceTransitions, targetTransitions

LEMMA SameParse ==
  ASSUME NEW capture
  PROVE  Verifier!parseCaptureTargets(capture) = parseCaptureTargets(capture)
BY DEF Verifier!parseCaptureTargets, Verifier!CapturedIDs, Verifier!CapturedEntry,
       Verifier!InitialTargetState,
       parseCaptureTargets, CapturedIDs, CapturedEntry, InitialTargetState

LEMMA SameAccepts ==
  ASSUME NEW r, NEW event, NEW capture
  PROVE  Verifier!Accepts(r, event, capture) <=> Accepts(r, event, capture)
<1>1. Verifier!AcceptsCreated(r, event) <=> AcceptsCreated(r, event)
  BY DEF Verifier!AcceptsCreated, Verifier!NoStates, Verifier!NoVersions,
         AcceptsCreated, NoStates, NoVersions
<1>2. Verifier!AcceptsCaptured(r, event, capture) <=> AcceptsCaptured(r, event, capture)
  BY DEF Verifier!AcceptsCaptured, AcceptsCaptured
<1>3. Verifier!AcceptsTransition(r, event) <=> AcceptsTransition(r, event)
  BY SameTransitions
     DEF Verifier!AcceptsTransition, Verifier!ValidMaintenanceTransition, Verifier!AcceptsReopen,
         Verifier!ReplayStopped, Verifier!ReplayComplete, Verifier!targetCompletionAllowed,
         Verifier!isAdmin, Verifier!validEventJustification, Verifier!validJustification,
         AcceptsTransition, ValidMaintenanceTransition, AcceptsReopen, ReplayStopped,
         ReplayComplete, targetCompletionAllowed, isAdmin, validEventJustification,
         validJustification
<1>4. Verifier!AcceptsTarget(r, event) <=> AcceptsTarget(r, event)
  BY SameTransitions
     DEF Verifier!AcceptsTarget, Verifier!IsMaintenanceTerminal, Verifier!ValidTargetTransition,
         Verifier!targetPhaseAllowed, Verifier!isAdmin, Verifier!validEventJustification,
         Verifier!validJustification,
         AcceptsTarget, IsMaintenanceTerminal, ValidTargetTransition, targetPhaseAllowed,
         isAdmin, validEventJustification, validJustification
<1>5. Verifier!AcceptsObserved(r, event) <=> AcceptsObserved(r, event)
  BY DEF Verifier!AcceptsObserved, Verifier!IsMaintenanceTerminal, Verifier!NoStates,
         Verifier!NoVersions, AcceptsObserved, IsMaintenanceTerminal, NoStates, NoVersions
<1> QED
  BY <1>1, <1>2, <1>3, <1>4, <1>5 DEF Verifier!Accepts, Accepts

LEMMA SameApply ==
  ASSUME NEW r, NEW event, NEW capture
  PROVE  Verifier!apply(r, event, capture) = apply(r, event, capture)
<1>1. Verifier!ApplyCaptured(r, event, capture) = ApplyCaptured(r, event, capture)
  BY SameParse DEF Verifier!ApplyCaptured, Verifier!ReplayTarget, ApplyCaptured, ReplayTarget
<1>2. Verifier!ApplyTransition(r, event) = ApplyTransition(r, event)
  BY DEF Verifier!ApplyTransition, ApplyTransition
<1>3. Verifier!ApplyTarget(r, event) = ApplyTarget(r, event)
  BY DEF Verifier!ApplyTarget, ApplyTarget
<1> QED
  BY <1>1, <1>2, <1>3 DEF Verifier!apply, apply

-----------------------------------------------------------------------------
(* The records of the replay, field by field.                              *)

Run(state, revision, captured, rows, moved) ==
  [state |-> state, revision |-> revision, captured |-> captured,
   targets |-> rows, physicalTransition |-> moved]

LEMMA RunFields ==
  ASSUME NEW state, NEW revision, NEW captured, NEW rows, NEW moved
  PROVE  LET r == Run(state, revision, captured, rows, moved)
         IN  /\ r.state = state /\ r.revision = revision /\ r.captured = captured
             /\ r.targets = rows /\ r.physicalTransition = moved
BY DEF Run

WithState(r, x) == [r EXCEPT !.state = x]
WithRevision(r, x) == [r EXCEPT !.revision = x]
WithCaptured(r, x) == [r EXCEPT !.captured = x]
WithTargets(r, x) == [r EXCEPT !.targets = x]
WithMoved(r, x) == [r EXCEPT !.physicalTransition = x]

LEMMA RunUpdates ==
  ASSUME NEW state, NEW revision, NEW captured, NEW rows, NEW moved, NEW x
  PROVE  LET r == Run(state, revision, captured, rows, moved)
         IN  /\ WithState(r, x) = Run(x, revision, captured, rows, moved)
             /\ WithRevision(r, x) = Run(state, x, captured, rows, moved)
             /\ WithCaptured(r, x) = Run(state, revision, x, rows, moved)
             /\ WithTargets(r, x) = Run(state, revision, captured, x, moved)
             /\ WithMoved(r, x) = Run(state, revision, captured, rows, x)
BY DEF Run, WithState, WithRevision, WithCaptured, WithTargets, WithMoved

LEMMA RunCaptured ==
  ASSUME NEW state, NEW revision, NEW captured, NEW rows, NEW moved, NEW s, NEW v, NEW c, NEW d
  PROVE  LET r == Run(state, revision, captured, rows, moved)
         IN  WithTargets(WithCaptured(WithRevision(WithState(r, s), v), c), d) =
               Run(s, v, c, d, moved)
<1>1. WithRevision(WithState(Run(state, revision, captured, rows, moved), s), v) =
        Run(s, v, captured, rows, moved)
  BY RunUpdates
<1>2. WithTargets(WithCaptured(Run(s, v, captured, rows, moved), c), d) = Run(s, v, c, d, moved)
  BY RunUpdates
<1> QED
  BY <1>1, <1>2

ReplayRows(rows) == [t \in DOMAIN rows |-> ReplayTarget(rows[t])]

LEMMA ReplayIsRun ==
  ASSUME NEW id
  PROVE  ReplayOfTables(id) = Run(maintenance[id].state, maintenance[id].version, HasCapture(id),
                                  ReplayRows(targets[id]), id \in exercised)
BY DEF ReplayOfTables, Run, ReplayRows

LEMMA ReplayOfUnchanged ==
  ASSUME NEW r \in MaintenanceIDs, maintenance'[r] = maintenance[r],
         maintenance_captures'[r] = maintenance_captures[r], targets'[r] = targets[r],
         (r \in exercised') = (r \in exercised)
  PROVE  ReplayOfTables(r)' = ReplayOfTables(r)
BY DEF ReplayOfTables, HasCapture

LEMMA CreateReplays ==
  ASSUME TablesOK, NEW id \in MaintenanceIDs, NEW role, CreateMaintenance(id)
  PROVE  ReplayStep(id, CreatedEvent(id, role))
<1> DEFINE event == CreatedEvent(id, role)
           r == ReplayOfTables(id)
           capture == maintenance_captures'[id]
<1>1. /\ event.type = "maintenance.created" /\ event.resource_type = "maintenance"
      /\ event.maintenance_id = id /\ event.resource_id = id /\ event.target_id = ""
      /\ NoStates(event) /\ NoVersions(event) /\ event.aggregate_version = 1
      /\ event.payload = [id |-> id, state |-> "new", version |-> 1]
  BY DEF CreatedEvent, NoStates, NoVersions
<1> HIDE DEF event
<1>2. UNCHANGED <<maintenance_captures, targets, exercised>>
  BY DEF CreateMaintenance
<1>3. /\ maintenance'[id].state = "new" /\ maintenance'[id].version = 1
      /\ \A q \in MaintenanceIDs \ {id} : maintenance'[q] = maintenance[q]
  <2>1. maintenance' = [maintenance EXCEPT ![id] = [state |-> "new", version |-> 1]]
    BY DEF CreateMaintenance
  <2>2. "new" \in MaintenanceStates /\ 1 \in Nat \ {0}
    BY StateSets
  <2> QED
    BY <2>1, <2>2, MaintenanceUpdate
<1>4. validateEventShape(event)
  BY <1>1, IDAssumption DEF validateEventShape, MaintenanceEventTypes
<1>5. Accepts(r, event, capture)
  <2>1. maintenance[id].version = 0
    BY CreateGuard DEF CreateMaintenance, Exists
  <2>2. r.revision = 0
    BY <2>1 DEF ReplayOfTables
  <2> QED
    BY <1>1, <2>2 DEF Accepts, AcceptsCreated
<1>6. r' = apply(r, event, capture)
  <2>1. apply(r, event, capture) = WithRevision(WithState(r, "new"), 1)
    BY <1>1 DEF apply, WithRevision, WithState
  <2>2. WithRevision(WithState(r, "new"), 1) =
          Run("new", 1, HasCapture(id), ReplayRows(targets[id]), id \in exercised)
    BY ReplayIsRun, RunUpdates
  <2>3. r' = Run("new", 1, HasCapture(id), ReplayRows(targets[id]), id \in exercised)
    BY <1>2, <1>3 DEF ReplayOfTables, Run, ReplayRows, HasCapture
  <2> QED
    BY <2>1, <2>2, <2>3
<1>7. \A q \in MaintenanceIDs \ {id} : ReplayOfTables(q)' = ReplayOfTables(q)
  BY <1>2, <1>3, ReplayOfUnchanged
<1>8. ReplayStep(id, event)
  BY <1>1, <1>2, <1>4, <1>5, <1>6, <1>7 DEF ReplayStep
<1> QED
  BY <1>8 DEF event

LEMMA CaptureReplays ==
  ASSUME TablesOK, NEW id \in MaintenanceIDs, NEW payload \in CapturePayloads, NEW role,
         CaptureMaintenance(id, payload)
  PROVE  ReplayStep(id, CapturedEvent(id, payload, role))
<1> DEFINE event == CapturedEvent(id, payload, role)
           r == ReplayOfTables(id)
           capture == maintenance_captures'[id]
           version == maintenance[id].version
           parsed == parseCaptureTargets(payload)
<1>1. /\ event.type = "maintenance.captured" /\ event.resource_type = "maintenance"
      /\ event.maintenance_id = id /\ event.resource_id = id /\ event.target_id = ""
      /\ event.from_state = "new" /\ event.to_state = "captured"
      /\ event.from_version = version /\ event.to_version = version + 1
      /\ event.aggregate_version = version + 1
      /\ event.payload = [sha256 |-> payload, targets |-> Len(payload)]
  BY DEF CapturedEvent
<1> HIDE DEF event
<1>2. /\ maintenance_captures' = [maintenance_captures EXCEPT ![id] = payload]
      /\ capture = payload /\ payload # NoCapture
  BY PayloadAssumption DEF CaptureMaintenance, TablesOK
<1>3. /\ targets'[id] = parsed
      /\ \A q \in MaintenanceIDs \ {id} :
           /\ maintenance'[q] = maintenance[q]
           /\ maintenance_captures'[q] = maintenance_captures[q]
           /\ targets'[q] = targets[q]
      /\ UNCHANGED exercised
  BY CaptureFacts
<1>4. maintenance'[id].state = "captured" /\ maintenance'[id].version = version + 1
  BY StateSets, VersionWritten DEF CaptureMaintenance
<1>5. maintenance[id].state = "new" /\ ~HasCapture(id)
  BY CaptureGuard DEF CaptureMaintenance
<1>6. validateEventShape(event)
  BY <1>1, IDAssumption DEF validateEventShape, MaintenanceEventTypes
<1>7. Accepts(r, event, capture)
  <2>1. r.state = "new" /\ r.revision = version /\ r.captured = FALSE
    BY <1>5 DEF ReplayOfTables
  <2> HIDE DEF r, capture, version
  <2>2. AcceptsCaptured(r, event, capture)
    BY <1>1, <1>2, <2>1 DEF AcceptsCaptured
  <2> QED
    BY <2>2 DEF Accepts
<1>8. r' = apply(r, event, capture)
  <2> DEFINE moved == id \in exercised
             yes == TRUE
             rows == ReplayRows(parsed)
             new == Run("captured", version + 1, yes, rows, moved)
  <2>1. apply(r, event, capture) = ApplyCaptured(r, event, payload)
    BY <1>1, <1>2 DEF apply
  <2>2. ApplyCaptured(r, event, payload) =
          WithTargets(WithCaptured(WithRevision(WithState(r, "captured"), version + 1), yes), rows)
    BY <1>1 DEF ApplyCaptured, ReplayRows, WithTargets, WithCaptured, WithRevision, WithState
  <2>3. ApplyCaptured(r, event, payload) = new
    <3>1. PICK state, revision, captured, old : r = Run(state, revision, captured, old, moved)
      BY ReplayIsRun
    <3> HIDE DEF r, moved, yes, rows, version
    <3> QED
      BY <2>2, <3>1, RunCaptured
  <2>4. HasCapture(id)' = TRUE
    BY <1>2 DEF HasCapture
  <2>5. r' = new
    BY <1>3, <1>4, <2>4 DEF ReplayOfTables, Run, ReplayRows
  <2> QED
    BY <2>1, <2>2, <2>3, <2>5
<1>9. \A q \in MaintenanceIDs \ {id} : ReplayOfTables(q)' = ReplayOfTables(q)
  BY <1>3, ReplayOfUnchanged
<1>10. ReplayStep(id, event)
  BY <1>1, <1>2, <1>5, <1>6, <1>7, <1>8, <1>9 DEF ReplayStep
<1> QED
  BY <1>10 DEF event

LEMMA RunTransitioned ==
  ASSUME NEW state, NEW revision, NEW captured, NEW rows, NEW moved, NEW s, NEW v, NEW d
  PROVE  LET r == Run(state, revision, captured, rows, moved)
         IN  WithTargets(WithRevision(WithState(r, s), v), d) = Run(s, v, captured, d, moved)
<1>1. WithRevision(WithState(Run(state, revision, captured, rows, moved), s), v) =
        Run(s, v, captured, rows, moved)
  BY RunUpdates
<1> QED
  BY <1>1, RunUpdates

(* A phase of a captured run advances the version of each of its targets,  *)
(* in the tables and in the replay.                                        *)
LEMMA AdvancedRows ==
  ASSUME TablesOK, NEW id \in MaintenanceIDs, targets' = AdvancedTargets(id)
  PROVE  ReplayRows(targets'[id]) =
           IF HasCapture(id)
           THEN [t \in DOMAIN ReplayRows(targets[id]) |->
                   [ReplayRows(targets[id])[t] EXCEPT !.version = @ + 1]]
           ELSE ReplayRows(targets[id])
<1>1. CASE ~HasCapture(id)
  BY <1>1 DEF AdvancedTargets
<1>2. CASE HasCapture(id)
  <2>1. /\ DOMAIN targets'[id] = DOMAIN targets[id]
        /\ \A t \in DOMAIN targets[id] :
             /\ targets'[id][t].original_state = targets[id][t].original_state
             /\ targets'[id][t].state = targets[id][t].state
             /\ targets'[id][t].version = targets[id][t].version + 1
    BY <1>2, AdvancedTargetsFacts
  <2>2. \A t \in DOMAIN targets[id] :
          ReplayTarget(targets'[id][t]) = [ReplayTarget(targets[id][t]) EXCEPT !.version = @ + 1]
    BY <2>1 DEF ReplayTarget
  <2> QED
    BY <1>2, <2>1, <2>2 DEF ReplayRows
<1> QED
  BY <1>1, <1>2

LEMMA TransitionReplays ==
  ASSUME TablesOK, RunInvariant, NEW id \in MaintenanceIDs, NEW change, NEW precondition, NEW role,
         TransitionMaintenance(id, change, precondition, role)
  PROVE  ReplayStep(id, TransitionEvent(id, change, role))
<1> DEFINE event == TransitionEvent(id, change, role)
           r == ReplayOfTables(id)
           capture == maintenance_captures'[id]
           from == maintenance[id].state
           to == change.state
           version == maintenance[id].version
<1>1. /\ event.type = TransitionEventType(from, to) /\ event.role = role
      /\ event.resource_type = "maintenance"
      /\ event.maintenance_id = id /\ event.resource_id = id /\ event.target_id = ""
      /\ event.from_state = from /\ event.to_state = to
      /\ event.from_version = version /\ event.to_version = version + 1
      /\ event.aggregate_version = version + 1
      /\ event.payload.justification = change.justification
  BY DEF TransitionEvent
<1> HIDE DEF event
<1>2. event.type \in {"maintenance.transitioned", "maintenance.reopened", "maintenance.completed"}
  BY <1>1 DEF TransitionEventType
<1>3. /\ to \in MaintenanceStates /\ version # 0
      /\ ValidMaintenanceTransition(from, to)
      /\ from = "failed" =>
           /\ isAdmin(role) /\ validJustification(change.justification)
           /\ to = "new" => ~HasCapture(id)
           /\ to # "new" => HasCapture(id)
           /\ to \notin {"completed", "cancelled"}
      /\ from # "failed" => to # "captured"
      /\ to = "cancelled" /\ from = "captured" => CancelAllowed(id)
      /\ to = "stopped" => validateStoppedBarrier(id)
      /\ to = "completed" => validateCompletion(id)
  BY TransitionGuard DEF TransitionMaintenance, Exists
<1>4. /\ UNCHANGED <<maintenance_captures, exercised>> /\ targets' = AdvancedTargets(id)
      /\ maintenance'[id].state = to /\ maintenance'[id].version = version + 1
      /\ \A q \in MaintenanceIDs \ {id} : maintenance'[q] = maintenance[q]
  BY <1>3, VersionWritten DEF TransitionMaintenance
<1>5. validateEventShape(event)
  BY <1>1, <1>2, IDAssumption DEF validateEventShape, MaintenanceEventTypes
<1>6. /\ r.state = from /\ r.revision = version /\ r.captured = HasCapture(id)
      /\ r.targets = ReplayRows(targets[id]) /\ r.physicalTransition = (id \in exercised)
  BY DEF ReplayOfTables, ReplayRows
<1>7. /\ DOMAIN r.targets = DOMAIN targets[id]
      /\ \A t \in DOMAIN targets[id] :
           /\ r.targets[t].original_state = targets[id][t].original_state
           /\ r.targets[t].state = targets[id][t].state
  BY <1>6 DEF ReplayRows, ReplayTarget
<1>8. AcceptsReopen(r, event)
  BY <1>1, <1>3, <1>6 DEF AcceptsReopen, TransitionEventType, validEventJustification
<1>9. to = "cancelled" => ~(r.captured /\ r.physicalTransition)
  <2>1. to = "cancelled" => from \in {"new", "captured"}
    BY <1>3, MaintenanceTransitionFacts
  <2>2. HasCapture(id) => from # "new"
    BY DEF RunInvariant, RunOK
  <2> QED
    BY <1>3, <1>6, <2>1, <2>2 DEF CancelAllowed
<1>10. to = "stopped" => ReplayStopped(r)
  BY <1>3, <1>7 DEF ReplayStopped, validateStoppedBarrier
<1>11. to = "completed" => ReplayComplete(r)
  BY <1>3, <1>7 DEF ReplayComplete, validateCompletion
<1>12. /\ to = "captured" => event.type = "maintenance.reopened"
       /\ to = "completed" <=> event.type = "maintenance.completed"
  BY <1>1, <1>3 DEF TransitionEventType
<1>13. AcceptsTransition(r, event)
  <2> HIDE DEF r, to, from, version
  <2> QED
    BY <1>1, <1>2, <1>3, <1>6, <1>8, <1>9, <1>10, <1>11, <1>12 DEF AcceptsTransition
<1>14. Accepts(r, event, capture)
  BY <1>13 DEF Accepts
<1>15. r' = apply(r, event, capture)
  <2> DEFINE moved == id \in exercised
             captured == HasCapture(id)
             rows == ReplayRows(targets'[id])
             new == Run(to, version + 1, captured, rows, moved)
  <2>1. apply(r, event, capture) = ApplyTransition(r, event)
    BY <1>2 DEF apply
  <2>2. rows = IF r.captured
               THEN [t \in DOMAIN r.targets |-> [r.targets[t] EXCEPT !.version = @ + 1]]
               ELSE r.targets
    BY <1>4, <1>6, AdvancedRows
  <2>3. ApplyTransition(r, event) = WithTargets(WithRevision(WithState(r, to), version + 1), rows)
    <3> HIDE DEF r, rows, to, version
    <3> QED
      BY <1>1, <2>2 DEF ApplyTransition, WithTargets, WithRevision, WithState
  <2>4. ApplyTransition(r, event) = new
    <3>1. PICK state, revision, old : r = Run(state, revision, captured, old, moved)
      BY ReplayIsRun
    <3> HIDE DEF r, moved, captured, rows, version, to
    <3> QED
      BY <2>3, <3>1, RunTransitioned
  <2>5. r' = new
    BY <1>4 DEF ReplayOfTables, Run, ReplayRows, HasCapture
  <2> QED
    BY <2>1, <2>4, <2>5
<1>16. \A q \in MaintenanceIDs \ {id} : ReplayOfTables(q)' = ReplayOfTables(q)
  BY <1>4, AdvancedTargetsFacts, ReplayOfUnchanged
<1>17. ReplayStep(id, event)
  BY <1>1, <1>4, <1>5, <1>14, <1>15, <1>16 DEF ReplayStep
<1> QED
  BY <1>17 DEF event

LEMMA RunMoved ==
  ASSUME NEW state, NEW revision, NEW captured, NEW rows, NEW moved, NEW d, NEW v, NEW m
  PROVE  LET r == Run(state, revision, captured, rows, moved)
         IN  WithMoved(WithRevision(WithTargets(r, d), v), m) = Run(state, v, captured, d, m)
<1>1. WithRevision(WithTargets(Run(state, revision, captured, rows, moved), d), v) =
        Run(state, v, captured, d, moved)
  BY RunUpdates
<1> QED
  BY <1>1, RunUpdates

(* One target's move, in the tables and in the replay.                     *)
MovedRow(rows, t, state, version) ==
  [rows EXCEPT ![t] = [@ EXCEPT !.state = state, !.version = version]]

LEMMA MovedRows ==
  ASSUME TablesOK, NEW id \in MaintenanceIDs, NEW t, NEW change, NEW precondition, NEW role,
         TransitionTarget(id, t, change, precondition, role)
  PROVE  ReplayRows(targets'[id]) =
           MovedRow(ReplayRows(targets[id]), t, change.state, targets[id][t].version + 1)
<1> DEFINE old == targets[id]
           new == targets'[id]
<1>1. /\ DOMAIN new = DOMAIN old /\ t \in DOMAIN old
      /\ \A u \in DOMAIN old : u # t => new[u] = old[u]
      /\ new[t].original_state = old[t].original_state
      /\ new[t].state = change.state /\ new[t].version = old[t].version + 1
  <2>1. t \in DOMAIN targets[id]
    BY TargetGuard DEF TransitionTarget
  <2>2. /\ \A q \in MaintenanceIDs :
             /\ DOMAIN targets'[q] = DOMAIN targets[q]
             /\ \A u \in DOMAIN targets[q] :
                  /\ targets'[q][u].original_state = targets[q][u].original_state
                  /\ q # id \/ u # t => targets'[q][u] = targets[q][u]
        /\ targets'[id][t].state = change.state
        /\ targets'[id][t].version = targets[id][t].version + 1
    BY TransitionTargetFacts
  <2> QED
    BY <2>1, <2>2
<1> HIDE DEF old, new
<1>2. ReplayTarget(new[t]) =
        [ReplayTarget(old[t]) EXCEPT !.state = change.state, !.version = old[t].version + 1]
  <2>1. [ReplayTarget(old[t]) EXCEPT !.state = change.state] =
          [original_state |-> old[t].original_state, state |-> change.state,
           version |-> old[t].version]
    BY DEF ReplayTarget
  <2>2. [[original_state |-> old[t].original_state, state |-> change.state,
          version |-> old[t].version] EXCEPT !.version = old[t].version + 1] =
          ReplayTarget(new[t])
    BY <1>1 DEF ReplayTarget
  <2> QED
    BY <2>1, <2>2
<1>3. ReplayRows(old)[t] = ReplayTarget(old[t])
  BY <1>1 DEF ReplayRows
<1>4. ReplayRows(new) = [ReplayRows(old) EXCEPT ![t] = ReplayTarget(new[t])]
  BY <1>1 DEF ReplayRows
<1> QED
  BY <1>2, <1>3, <1>4 DEF old, new, MovedRow

LEMMA TargetReplays ==
  ASSUME TablesOK, NEW id \in MaintenanceIDs, NEW t \in TargetIDs, NEW change, NEW precondition,
         NEW role, TransitionTarget(id, t, change, precondition, role)
  PROVE  ReplayStep(id, TargetEvent(id, t, change, role))
<1> DEFINE event == TargetEvent(id, t, change, role)
           r == ReplayOfTables(id)
           capture == maintenance_captures'[id]
           target == targets[id][t]
           to == change.state
           version == maintenance[id].version
<1>1. /\ event.type = TargetEventType(to) /\ event.role = role
      /\ event.resource_type = "target"
      /\ event.maintenance_id = id /\ event.resource_id = t /\ event.target_id = t
      /\ event.from_state = target.state /\ event.to_state = to
      /\ event.from_version = target.version /\ event.to_version = target.version + 1
      /\ event.aggregate_version = version + 1
      /\ event.payload.justification = change.justification
  BY DEF TargetEvent
<1> HIDE DEF event
<1>2. /\ event.type \in {"target.transitioned", "target.skipped"}
      /\ to = "skipped" => event.type = "target.skipped"
      /\ to # "skipped" => event.type = "target.transitioned"
  BY <1>1 DEF TargetEventType
<1>3. /\ version # 0 /\ t \in DOMAIN targets[id]
      /\ ~IsMaintenanceTerminal(maintenance[id].state)
      /\ ValidTargetTransition(target.state, to)
      /\ to = "skipped" => isAdmin(role) /\ validJustification(change.justification)
      /\ to # "skipped" =>
           /\ target.original_state \notin {"degraded", "unknown", "stopped"}
           /\ targetPhaseAllowed(maintenance[id].state, to)
  BY TargetGuard DEF TransitionTarget, Exists
<1>4. /\ UNCHANGED maintenance_captures
      /\ maintenance'[id].state = maintenance[id].state /\ maintenance'[id].version = version + 1
      /\ \A q \in MaintenanceIDs \ {id} : maintenance'[q] = maintenance[q]
  BY <1>3, AdvancedRunFacts DEF TransitionTarget
<1>5. \A q \in MaintenanceIDs \ {id} :
        targets'[q] = targets[q] /\ (q \in exercised') = (q \in exercised)
  <2>1. targets' = [targets EXCEPT ![id] =
                      [targets[id] EXCEPT ![t] = MovedTarget(targets[id][t], change.state)]]
    BY DEF TransitionTarget
  <2>2. DOMAIN targets = MaintenanceIDs
    BY DEF TablesOK
  <2>3. \A q \in MaintenanceIDs \ {id} : targets'[q] = targets[q]
    BY <2>1, <2>2
  <2>4. exercised' \in {exercised, exercised \cup {id}}
    BY DEF TransitionTarget
  <2> QED
    BY <2>3, <2>4
<1>6. (id \in exercised') = (id \in exercised \/ event.type = "target.transitioned")
  BY <1>2 DEF TransitionTarget
<1>7. validateEventShape(event)
  BY <1>1, <1>2, IDAssumption DEF validateEventShape, TargetEventTypes
<1>8. /\ r.state = maintenance[id].state /\ r.revision = version
      /\ r.targets = ReplayRows(targets[id]) /\ r.physicalTransition = (id \in exercised)
  BY DEF ReplayOfTables, ReplayRows
<1>9. /\ t \in DOMAIN r.targets
      /\ r.targets[t].original_state = target.original_state
      /\ r.targets[t].state = target.state /\ r.targets[t].version = target.version
  BY <1>3, <1>8 DEF ReplayRows, ReplayTarget
<1>10. AcceptsTarget(r, event)
  <2> HIDE DEF r, target, to, version
  <2> QED
    BY <1>1, <1>2, <1>3, <1>8, <1>9 DEF AcceptsTarget, validEventJustification
<1>11. Accepts(r, event, capture)
  BY <1>10 DEF Accepts
<1>12. r' = apply(r, event, capture)
  <2> DEFINE was == id \in exercised
             moved == id \in exercised'
             captured == HasCapture(id)
             state == maintenance[id].state
             rows == ReplayRows(targets'[id])
             new == Run(state, version + 1, captured, rows, moved)
  <2>1. apply(r, event, capture) = ApplyTarget(r, event)
    BY <1>2 DEF apply
  <2>2. rows = MovedRow(r.targets, t, to, target.version + 1)
    BY <1>8, MovedRows
  <2>3. ApplyTarget(r, event) = WithMoved(WithRevision(WithTargets(r, rows), version + 1), moved)
    <3> DEFINE next == r.physicalTransition \/ event.type = "target.transitioned"
               moves == MovedRow(r.targets, event.target_id, event.to_state, event.to_version)
    <3>1. moved = next
      BY <1>6, <1>8
    <3>2. rows = moves
      BY <1>1, <2>2
    <3>3. ApplyTarget(r, event) =
            WithMoved(WithRevision(WithTargets(r, moves), event.aggregate_version), next)
      BY DEF ApplyTarget, WithMoved, WithTargets, WithRevision, MovedRow
    <3> HIDE DEF r, rows, version, moved, next, moves
    <3> QED
      BY <1>1, <3>1, <3>2, <3>3
  <2>4. ApplyTarget(r, event) = new
    <3>1. PICK revision, old : r = Run(state, revision, captured, old, was)
      BY ReplayIsRun
    <3> HIDE DEF r, moved, was, captured, rows, version, state
    <3> QED
      BY <2>3, <3>1, RunMoved
  <2>5. r' = new
    BY <1>4 DEF ReplayOfTables, Run, ReplayRows, HasCapture
  <2> QED
    BY <2>1, <2>4, <2>5
<1>13. \A q \in MaintenanceIDs \ {id} : ReplayOfTables(q)' = ReplayOfTables(q)
  BY <1>4, <1>5, ReplayOfUnchanged
<1>14. ReplayStep(id, event)
  BY <1>1, <1>4, <1>7, <1>11, <1>12, <1>13 DEF ReplayStep
<1> QED
  BY <1>14 DEF event

LEMMA ObservationReplays ==
  ASSUME TablesOK, NEW id \in MaintenanceIDs, NEW t \in TargetIDs, NEW request, NEW payload,
         NEW precondition, NEW role, AddObservation(id, t, request, payload, precondition)
  PROVE  ReplayStep(id, ObservedEvent(id, t, request, payload, role))
<1> DEFINE event == ObservedEvent(id, t, request, payload, role)
           r == ReplayOfTables(id)
           capture == maintenance_captures'[id]
<1>1. /\ event.type = "target.observed" /\ event.resource_type = "target"
      /\ event.maintenance_id = id /\ event.resource_id = t /\ event.target_id = t
      /\ NoStates(event) /\ NoVersions(event) /\ event.aggregate_version = 0
  BY DEF ObservedEvent, NoStates, NoVersions
<1> HIDE DEF event
<1>2. UNCHANGED <<maintenance, maintenance_captures, targets, exercised>>
  BY DEF AddObservation
<1>3. t \in DOMAIN targets[id] /\ ~IsMaintenanceTerminal(maintenance[id].state)
  BY ObservationGuard DEF AddObservation
<1>4. validateEventShape(event)
  BY <1>1, IDAssumption DEF validateEventShape, TargetEventTypes
<1>5. r.state = maintenance[id].state /\ DOMAIN r.targets = DOMAIN targets[id]
  BY DEF ReplayOfTables
<1>6. Accepts(r, event, capture)
  BY <1>1, <1>3, <1>5 DEF Accepts, AcceptsObserved
<1>7. \A q \in MaintenanceIDs : ReplayOfTables(q)' = ReplayOfTables(q)
  BY <1>2, ReplayOfUnchanged
<1>8. apply(r, event, capture) = r
  BY <1>1 DEF apply
<1>9. ReplayStep(id, event)
  BY <1>1, <1>2, <1>4, <1>6, <1>7, <1>8 DEF ReplayStep
<1> QED
  BY <1>9 DEF event

-----------------------------------------------------------------------------
(* Each transaction is a step of the journal's contract.                   *)

ReplayTables == [id \in MaintenanceIDs |-> ReplayOfTables(id)]

LEMMA RunStepRefines ==
  ASSUME JournalIsSequence, NEW id \in MaintenanceIDs, NEW event,
         appendEvent(event), ReplayStep(id, event)
  PROVE  Verifier!AppendRunEvent
<1>1. /\ journal_events' = Append(journal_events, event) /\ journal_events' # <<>>
      /\ journal_events'[Len(journal_events')] = event
  BY AppendExtends DEF appendEvent
<1>2. Verifier!Appended(event)
  BY <1>1, SameShape DEF ReplayStep, Verifier!Appended
<1>3. Verifier!Accepts(ReplayTables[id], event, maintenance_captures'[id])
  BY SameAccepts DEF ReplayStep, ReplayTables
<1>4. ReplayTables' = [ReplayTables EXCEPT ![id] =
                         Verifier!apply(ReplayTables[id], event, maintenance_captures'[id])]
  <2>1. /\ ReplayTables[id] = ReplayOfTables(id)
        /\ ReplayOfTables(id)' =
             Verifier!apply(ReplayOfTables(id), event, maintenance_captures'[id])
        /\ \A q \in MaintenanceIDs \ {id} : ReplayOfTables(q)' = ReplayOfTables(q)
    BY SameApply DEF ReplayStep, ReplayTables
  <2> QED
    BY <2>1 DEF ReplayTables
<1>5. event.maintenance_id = id
  BY DEF ReplayStep
<1> QED
  BY <1>1, <1>2, <1>3, <1>4, <1>5
     DEF Verifier!AppendRunEvent, ReplayStep, ReplayTables, HasCapture

(* The event of a backup, as verifyGlobalEvents wants it.                  *)
TellsOfBackup(event) ==
  event.maintenance_id = "" /\ validateEventShape(event) /\ AcceptsGlobal(event)

LEMMA BackupAppends ==
  ASSUME BackupWrite
  PROVE  \E event : appendEvent(event) /\ TellsOfBackup(event) /\ UNCHANGED vars
<1>1. PICK file \in BackupFiles : \/ RecordBackupCreated(file)
                                  \/ \E artifact \in {file, "manifest"} :
                                       RecordBackupDownload(file, artifact)
  BY DEF BackupWrite
<1>2. PICK type, payload :
        /\ appendEvent(BackupEvent(type, file, payload))
        /\ payload.filename = file /\ payload.sha256 # "" /\ payload.bytes = 1
        /\ \/ type = "backup.created" /\ payload.audit_recorded
           \/ type = "backup.downloaded" /\ payload.artifact # ""
        /\ UNCHANGED vars
  <2>1. file # ""
    BY BackupFilesAssumption
  <2>2. CASE RecordBackupCreated(file)
    <3> DEFINE manifest == [filename |-> file, sha256 |-> file, bytes |-> 1,
                            audit_recorded |-> TRUE]
    <3>1. /\ appendEvent(BackupEvent("backup.created", file, manifest))
          /\ UNCHANGED vars
      BY <2>2 DEF RecordBackupCreated
    <3>2. /\ manifest.filename = file /\ manifest.sha256 # "" /\ manifest.bytes = 1
          /\ manifest.audit_recorded
      BY <2>1
    <3> HIDE DEF manifest
    <3> QED
      BY <3>1, <3>2
  <2>3. ASSUME NEW artifact \in {file, "manifest"}, RecordBackupDownload(file, artifact)
        PROVE  \E type, payload :
                 /\ appendEvent(BackupEvent(type, file, payload))
                 /\ payload.filename = file /\ payload.sha256 # "" /\ payload.bytes = 1
                 /\ \/ type = "backup.created" /\ payload.audit_recorded
                    \/ type = "backup.downloaded" /\ payload.artifact # ""
                 /\ UNCHANGED vars
    <3> DEFINE manifest == [filename |-> file, sha256 |-> file, bytes |-> 1,
                            artifact |-> artifact]
    <3>1. /\ appendEvent(BackupEvent("backup.downloaded", file, manifest))
          /\ UNCHANGED vars
      BY <2>3 DEF RecordBackupDownload
    <3>2. /\ manifest.filename = file /\ manifest.sha256 # "" /\ manifest.bytes = 1
          /\ manifest.artifact # ""
      BY <2>1
    <3> HIDE DEF manifest
    <3> QED
      BY <3>1, <3>2
  <2> QED
    BY <1>1, <2>2, <2>3
<1> DEFINE event == BackupEvent(type, file, payload)
<1>3. /\ event.type = type /\ event.resource_type = "backup" /\ event.resource_id = file
      /\ event.maintenance_id = "" /\ event.target_id = ""
      /\ event.from_state = "" /\ event.to_state = ""
      /\ event.from_version = 0 /\ event.to_version = 0 /\ event.aggregate_version = 0
      /\ event.payload = payload
  BY DEF BackupEvent
<1> HIDE DEF event
<1>4. validateEventShape(event)
  BY <1>2, <1>3 DEF validateEventShape, NoStates, NoVersions
<1>5. AcceptsGlobal(event)
  <2>1. event.payload.bytes >= 1
    <3>1. event.payload.bytes = 1
      BY <1>2, <1>3, Zenon
    <3> QED
      BY <3>1
  <2>2. \/ event.type = "backup.created" /\ event.payload.audit_recorded
        \/ event.type = "backup.downloaded" /\ event.payload.artifact # ""
    BY <1>2, <1>3, Zenon
  <2>3. event.payload.filename = event.resource_id /\ event.payload.sha256 # ""
    BY <1>2, <1>3
  <2> QED
    BY <2>1, <2>2, <2>3 DEF AcceptsGlobal
<1>6. appendEvent(event)
  BY <1>2 DEF event
<1> QED
  BY <1>2, <1>3, <1>4, <1>5, <1>6 DEF TellsOfBackup

LEMMA SameGlobal ==
  ASSUME NEW event
  PROVE  Verifier!AcceptsGlobal(event) <=> AcceptsGlobal(event)
BY DEF Verifier!AcceptsGlobal, AcceptsGlobal

LEMMA BackupRefines ==
  ASSUME JournalIsSequence, BackupWrite
  PROVE  Verifier!AppendGlobalEvent
<1>1. PICK event : appendEvent(event) /\ TellsOfBackup(event) /\ UNCHANGED vars
  BY BackupAppends
<1>2. /\ journal_events' = Append(journal_events, event) /\ journal_events' # <<>>
      /\ journal_events'[Len(journal_events')] = event
  BY <1>1, AppendExtends DEF appendEvent
<1>3. Verifier!Appended(event)
  BY <1>1, <1>2, SameShape DEF Verifier!Appended, TellsOfBackup
<1>4. Verifier!AcceptsGlobal(event) /\ event.maintenance_id = ""
  BY <1>1, SameGlobal DEF TellsOfBackup
<1>5. UNCHANGED <<maintenance_captures, ReplayTables>>
  BY <1>1 DEF vars, ReplayTables, ReplayOfTables, HasCapture
<1> QED
  BY <1>2, <1>3, <1>4, <1>5 DEF Verifier!AppendGlobalEvent, ReplayTables

LEMMA WriteReplays ==
  ASSUME JournalInvariant, RunWrite
  PROVE  \E id \in MaintenanceIDs : \E event : appendEvent(event) /\ ReplayStep(id, event)
<1>1. TablesOK /\ RunInvariant /\ JournalIsSequence
  BY InvariantByRun DEF JournalInvariant, TypeOK
<1>2. PICK id \in MaintenanceIDs, role \in WriterRoles :
        \/ CreateMaintenance(id) /\ appendEvent(CreatedEvent(id, role))
        \/ \E payload \in CapturePayloads :
             CaptureMaintenance(id, payload) /\ appendEvent(CapturedEvent(id, payload, role))
        \/ \E change \in StateChange, precondition \in Preconditions :
             \/ /\ TransitionMaintenance(id, change, precondition, role)
                /\ appendEvent(TransitionEvent(id, change, role))
             \/ \E t \in TargetIDs :
                  /\ TransitionTarget(id, t, change, precondition, role)
                  /\ appendEvent(TargetEvent(id, t, change, role))
        \/ \E t \in TargetIDs, request \in RequestIDs, payload \in ObservationPayloads,
              precondition \in Preconditions :
             /\ AddObservation(id, t, request, payload, precondition)
             /\ appendEvent(ObservedEvent(id, t, request, payload, role))
  BY DEF RunWrite
<1>3. \E event : appendEvent(event) /\ ReplayStep(id, event)
  BY <1>1, <1>2, CreateReplays, CaptureReplays, TransitionReplays, TargetReplays,
     ObservationReplays
<1> QED
  BY <1>3

LEMMA WriteRefines ==
  ASSUME JournalInvariant, RunWrite
  PROVE  Verifier!AppendRunEvent
BY WriteReplays, RunStepRefines DEF JournalInvariant

LEMMA EmptyReplays ==
  ASSUME JInit, NEW id \in MaintenanceIDs
  PROVE  ReplayOfTables(id) = EmptyReplay
<1>1. /\ maintenance[id].state = "" /\ maintenance[id].version = 0
      /\ maintenance_captures[id] = NoCapture
      /\ targets[id] = [t \in {} |-> t] /\ id \notin exercised
  BY DEF JInit, Init, NoRow
<1>2. [t \in DOMAIN targets[id] |-> ReplayTarget(targets[id][t])] = [t \in {} |-> t]
  BY <1>1
<1> DEFINE captured == HasCapture(id)
           moved == id \in exercised
           no == FALSE
<1>3. captured = no /\ moved = no
  <2>1. ~HasCapture(id) /\ id \notin exercised
    BY <1>1 DEF HasCapture
  <2> QED
    BY <2>1
<1>4. /\ ReplayOfTables(id) =
           [state |-> maintenance[id].state, revision |-> maintenance[id].version,
            captured |-> captured,
            targets |-> [t \in DOMAIN targets[id] |-> ReplayTarget(targets[id][t])],
            physicalTransition |-> moved]
      /\ EmptyReplay =
           [state |-> "", revision |-> 0, captured |-> no, targets |-> [t \in {} |-> t],
            physicalTransition |-> no]
  BY DEF ReplayOfTables, EmptyReplay
<1> HIDE DEF captured, moved, no
<1> QED
  BY <1>1, <1>2, <1>3, <1>4

LEMMA EmptyStoreRefines == JInit => Verifier!Init
<1>1. Verifier!EmptyReplay = EmptyReplay
  BY DEF Verifier!EmptyReplay, EmptyReplay
<1> QED
  BY <1>1, EmptyReplays DEF Verifier!Init, JInit, Init

(* Every transaction that mutations.go or backup.go commits appends one    *)
(* event that verify.go accepts after the events before it, and the replay *)
(* of that event arrives at the committed tables.                          *)
THEOREM JournalImplementsReplay == JSpec => ImplementsReplay
<1>1. JournalInvariant /\ [JNext]_jvars =>
        [Verifier!AppendRunEvent \/ Verifier!AppendGlobalEvent]_(Verifier!vars)
  <2> SUFFICES ASSUME JournalInvariant, [JNext]_jvars
               PROVE  [Verifier!AppendRunEvent \/ Verifier!AppendGlobalEvent]_(Verifier!vars)
    OBVIOUS
  <2>1. CASE RunWrite
    BY <2>1, WriteRefines
  <2>2. CASE BackupWrite
    BY <2>2, BackupRefines DEF JournalInvariant
  <2>3. CASE UNCHANGED jvars
    BY <2>3 DEF jvars, vars, Verifier!vars, ReplayOfTables, HasCapture
  <2> QED
    BY <2>1, <2>2, <2>3 DEF JNext
<1> QED
  BY <1>1, EmptyStoreRefines, JournalCorrect, PTL DEF JSpec, ImplementsReplay, Verifier!Spec

-----------------------------------------------------------------------------
(* The verifier reads the journal from its first event.  Its replay after  *)
(* an append is the replay before it, one event further.                   *)

(* Every set of numbers has a least one: induction over the journal is     *)
(* done on the set of positions at which a claim fails.                    *)
LEMMA LeastNumber ==
  ASSUME NEW T \in SUBSET Nat, T # {}
  PROVE  \E x \in T : \A y \in T : x <= y
<1>1. IsWellFoundedOn({ss \in Nat \X Nat : ss[1] < ss[2]}, Nat)
  BY NatLessThanWellFounded DEF OpToRel
<1>2. PICK x \in T : \A y \in T : ~ (<<y, x>> \in {ss \in Nat \X Nat : ss[1] < ss[2]})
  BY <1>1, WFMin
<1>3. ASSUME NEW y \in T PROVE x <= y
  <2>1. x \in Nat /\ y \in Nat /\ <<y, x>> \in Nat \X Nat /\ <<y, x>>[1] = y /\ <<y, x>>[2] = x
    OBVIOUS
  <2>2. ~(y < x)
    BY <1>2, <2>1
  <2> QED BY <2>1, <2>2
<1> QED BY <1>3

LEMMA UpTo ==
  ASSUME NEW N \in Nat, NEW T, 0 \in T, \A n \in 0..N : n \in T /\ n < N => n + 1 \in T
  PROVE  0..N \subseteq T
<1> DEFINE bad == {n \in 0..N : n \notin T}
<1> SUFFICES ASSUME bad # {} PROVE FALSE
  OBVIOUS
<1>1. PICK x \in bad : \A y \in bad : x <= y
  <2>1. bad \in SUBSET Nat
    OBVIOUS
  <2> QED BY <2>1, LeastNumber
<1>2. x \in 0..N /\ x \notin T /\ x # 0
  OBVIOUS
<1>3. x - 1 \in 0..N /\ x - 1 < N /\ (x - 1) + 1 = x /\ ~(x <= x - 1)
  BY <1>2
<1>4. x - 1 \in T
  BY <1>1, <1>3
<1> QED BY <1>2, <1>3, <1>4

Replayed(run) == [ok |-> TRUE, run |-> run]

ReplayAt(id, journal, capture, g, n) ==
  IF n = 0 THEN Replayed(EmptyReplay)
  ELSE Replaying(g[n - 1], journal[n], id, capture)

(* g tells the replay after each of the first N events.                    *)
ReplaysUpTo(id, journal, capture, N, g) ==
  g = [n \in 0..N |-> ReplayAt(id, journal, capture, g, n)]

LEMMA ReplayExists ==
  ASSUME NEW id, NEW journal, NEW capture, NEW N \in Nat
  PROVE  \E g : ReplaysUpTo(id, journal, capture, N, g)
<1> DEFINE At(g, n) == ReplayAt(id, journal, capture, g, n)
           T == {k \in 0..N : \E g : g = [n \in 0..k |-> At(g, n)]}
<1>1. 0 \in T
  <2>1. PICK g : g = [n \in 0..0 |-> Replayed(EmptyReplay)]
    OBVIOUS
  <2>2. g = [n \in 0..0 |-> At(g, n)]
    BY <2>1 DEF ReplayAt
  <2> QED BY <2>2
<1>2. ASSUME NEW k \in 0..N, k \in T, k < N PROVE k + 1 \in T
  <2>1. PICK g : g = [n \in 0..k |-> At(g, n)]
    BY <1>2
  <2>2. PICK h : h = [n \in 0..(k + 1) |-> IF n = k + 1 THEN Replaying(g[k], journal[k + 1], id, capture)
                                                       ELSE g[n]]
    OBVIOUS
  <2>3. ASSUME NEW n \in 0..(k + 1) PROVE h[n] = At(h, n)
    <3>1. CASE n = k + 1
      <4>1. n # 0 /\ n - 1 = k /\ k \in 0..(k + 1) /\ k # k + 1
        BY <3>1
      <4>2. h[k] = g[k] /\ h[n] = Replaying(g[k], journal[k + 1], id, capture)
        BY <2>2, <3>1, <4>1
      <4> QED BY <3>1, <4>1, <4>2 DEF ReplayAt
    <3>2. CASE n # k + 1
      <4>1. n \in 0..k
        BY <3>2
      <4>2. h[n] = At(g, n)
        BY <2>1, <2>2, <3>2, <4>1
      <4>3. CASE n = 0
        BY <4>2, <4>3 DEF ReplayAt
      <4>4. CASE n # 0
        <5>1. n - 1 \in 0..(k + 1) /\ n - 1 # k + 1
          BY <4>1, <4>4
        <5>2. h[n - 1] = g[n - 1]
          BY <2>2, <5>1
        <5> QED BY <4>2, <4>4, <5>2 DEF ReplayAt
      <4> QED BY <4>3, <4>4
    <3> QED BY <3>1, <3>2
  <2>4. DOMAIN h = 0..(k + 1) /\ h = [n \in 0..(k + 1) |-> h[n]]
    BY <2>2
  <2>5. h = [n \in 0..(k + 1) |-> At(h, n)]
    BY <2>3, <2>4
  <2>6. k + 1 \in 0..N
    BY <1>2
  <2> QED BY <2>5, <2>6
<1>3. N \in T
  <2> HIDE DEF T
  <2>1. 0..N \subseteq T
    BY <1>1, <1>2, UpTo
  <2> QED BY <2>1
<1> QED BY <1>3 DEF ReplaysUpTo

LEMMA ReplayUnrolled ==
  ASSUME NEW id, NEW journal, NEW capture, NEW N \in Nat, N = Len(journal)
  PROVE  \E g : /\ ReplaysUpTo(id, journal, capture, N, g)
                /\ ReplayedRun(id, journal, capture) = g[N]
<1>1. PICK g : ReplaysUpTo(id, journal, capture, N, g)
  BY ReplayExists
<1> DEFINE f == CHOOSE f : f = [n \in 0..Len(journal) |-> ReplayAt(id, journal, capture, f, n)]
<1>2. ReplayedRun(id, journal, capture) = f[Len(journal)]
  BY DEF ReplayedRun, ReplayAt, Replayed
<1>3. ReplaysUpTo(id, journal, capture, N, f)
  BY <1>1 DEF ReplaysUpTo
<1> QED BY <1>2, <1>3

EventByEvent(id, journal, capture, N, g) ==
  /\ g[0] = Replayed(EmptyReplay)
  /\ \A n \in 0..N : n < N => g[n + 1] = Replaying(g[n], journal[n + 1], id, capture)

LEMMA ReplayEquation ==
  ASSUME NEW id, NEW journal, NEW capture, NEW N \in Nat, NEW g,
         ReplaysUpTo(id, journal, capture, N, g)
  PROVE  EventByEvent(id, journal, capture, N, g)
<1>1. \A n \in 0..N : g[n] = ReplayAt(id, journal, capture, g, n)
  BY DEF ReplaysUpTo
<1>2. g[0] = Replayed(EmptyReplay)
  BY <1>1 DEF ReplayAt
<1>3. ASSUME NEW n \in 0..N, n < N
      PROVE  g[n + 1] = Replaying(g[n], journal[n + 1], id, capture)
  <2>1. n + 1 \in 0..N /\ n + 1 # 0 /\ (n + 1) - 1 = n
    BY <1>3
  <2> QED BY <1>1, <2>1 DEF ReplayAt
<1> QED BY <1>2, <1>3 DEF EventByEvent

LEMMA ReplayAppended ==
  ASSUME NEW S, NEW journal \in Seq(S), NEW event \in S, NEW id, NEW capture
  PROVE  ReplayedRun(id, Append(journal, event), capture) =
           Replaying(ReplayedRun(id, journal, capture), event, id, capture)
<1>1. PICK N \in Nat : N = Len(journal)
  OBVIOUS
<1>2. PICK longer \in Seq(S) : longer = Append(journal, event)
  <2>1. Append(journal, event) \in Seq(S)
    OBVIOUS
  <2> QED BY <2>1
<1>3. /\ N + 1 = Len(longer) /\ longer[N + 1] = event /\ N + 1 \in Nat
      /\ \A n \in 0..N : n < N => longer[n + 1] = journal[n + 1]
  BY <1>1, <1>2
<1>4. PICK f : /\ ReplaysUpTo(id, journal, capture, N, f)
               /\ ReplayedRun(id, journal, capture) = f[N]
  BY <1>1, ReplayUnrolled
<1>5. PICK g : /\ ReplaysUpTo(id, longer, capture, N + 1, g)
               /\ ReplayedRun(id, longer, capture) = g[N + 1]
  BY <1>3, ReplayUnrolled
<1>6. EventByEvent(id, journal, capture, N, f)
  BY <1>4, ReplayEquation
<1>7. EventByEvent(id, longer, capture, N + 1, g)
  BY <1>3, <1>5, ReplayEquation
<1> DEFINE T == {n \in 0..N : g[n] = f[n]}
<1>8. 0 \in T
  BY <1>6, <1>7 DEF EventByEvent
<1>9. \A n \in 0..N : n \in T /\ n < N => n + 1 \in T
  <2> SUFFICES ASSUME NEW n \in 0..N, n \in T, n < N PROVE n + 1 \in T
    OBVIOUS
  <2>1. n + 1 \in 0..N /\ n \in 0..(N + 1) /\ n < N + 1
    OBVIOUS
  <2> QED BY <1>3, <1>6, <1>7, <2>1 DEF EventByEvent
<1>10. 0..N \subseteq T
  <2> HIDE DEF T
  <2> QED BY <1>8, <1>9, UpTo
<1>11. g[N] = f[N] /\ N \in 0..(N + 1) /\ N < N + 1
  BY <1>10
<1>12. g[N + 1] = Replaying(f[N], event, id, capture)
  BY <1>3, <1>7, <1>11 DEF EventByEvent
<1> QED BY <1>2, <1>4, <1>5, <1>12

-----------------------------------------------------------------------------
(* Until a run is captured its events are accepted whatever its capture    *)
(* will be: the replay may as well read the later one.                     *)

Refused(run) == [ok |-> FALSE, run |-> run]

LEMMA ReplayingFacts ==
  ASSUME NEW r, NEW event, NEW id, NEW capture
  PROVE  /\ Replaying(Refused(r), event, id, capture) = Refused(r)
         /\ event.maintenance_id # id => Replaying(Replayed(r), event, id, capture) = Replayed(r)
         /\ event.maintenance_id = id =>
              Replaying(Replayed(r), event, id, capture) =
                IF validateEventShape(event) /\ Accepts(r, event, capture)
                THEN Replayed(apply(r, event, capture)) ELSE Refused(r)
<1>1. /\ Replayed(r).run = r
      /\ Replayed(r).ok
      /\ ~Refused(r).ok
      /\ [Replayed(r) EXCEPT !.ok = FALSE] = Refused(r)
      /\ [Refused(r) EXCEPT !.ok = FALSE] = Refused(r)
  <2>1. Replayed(r).run = r
    BY DEF Replayed
  <2>2. Replayed(r).ok
    BY Zenon DEF Replayed
  <2>3. ~Refused(r).ok
    BY Zenon DEF Refused
  <2> DEFINE yes == TRUE
             no == FALSE
  <2>4. /\ Replayed(r) = [ok |-> yes, run |-> r]
        /\ Refused(r) = [ok |-> no, run |-> r]
    BY DEF Replayed, Refused
  <2>5. /\ [Replayed(r) EXCEPT !.ok = no] = Refused(r)
        /\ [Refused(r) EXCEPT !.ok = no] = Refused(r)
    <3> HIDE DEF yes, no
    <3> QED BY <2>4
  <2> QED BY <2>1, <2>2, <2>3, <2>5
<1>2. Replaying(Refused(r), event, id, capture) = Refused(r)
  BY <1>1 DEF Replaying
<1>3. event.maintenance_id # id => Replaying(Replayed(r), event, id, capture) = Replayed(r)
  BY DEF Replaying
<1>4. ASSUME event.maintenance_id = id
      PROVE  Replaying(Replayed(r), event, id, capture) =
                IF validateEventShape(event) /\ Accepts(r, event, capture)
                THEN Replayed(apply(r, event, capture)) ELSE Refused(r)
  <2>1. CASE validateEventShape(event) /\ Accepts(r, event, capture)
    <3>1. Replaying(Replayed(r), event, id, capture) =
            [ok |-> TRUE, run |-> apply(Replayed(r).run, event, capture)]
      BY <1>1, <1>4, <2>1, Zenon DEF Replaying
    <3> QED BY <1>1, <2>1, <3>1 DEF Replayed
  <2>2. CASE ~(validateEventShape(event) /\ Accepts(r, event, capture))
    <3>1. Replaying(Replayed(r), event, id, capture) = [Replayed(r) EXCEPT !.ok = FALSE]
      BY <1>1, <1>4, <2>2, Zenon DEF Replaying
    <3> QED BY <1>1, <2>2, <3>1
  <2> QED BY <2>1, <2>2
<1> QED BY <1>2, <1>3, <1>4

LEMMA EventsWithoutCapture ==
  ASSUME NEW r, NEW event, NEW capture, Accepts(r, event, NoCapture)
  PROVE  /\ Accepts(r, event, capture)
         /\ apply(r, event, capture) = apply(r, event, NoCapture)
<1>1. ~AcceptsCaptured(r, event, NoCapture)
  BY DEF AcceptsCaptured
<1>2. \/ AcceptsCreated(r, event)
      \/ AcceptsTransition(r, event)
      \/ AcceptsTarget(r, event)
      \/ AcceptsObserved(r, event)
  BY <1>1 DEF Accepts
<1>3. Accepts(r, event, capture)
  BY <1>2 DEF Accepts
<1>4. event.type # "maintenance.captured"
  BY <1>2 DEF AcceptsCreated, AcceptsTransition, AcceptsTarget, AcceptsObserved
<1> QED BY <1>3, <1>4 DEF apply

(* Reading a with no capture: it is stuck, or b reads the same.            *)
SameUnlessRefused(a, b) ==
  \/ \E r : a = Refused(r)
  \/ \E r : a = Replayed(r) /\ b = Replayed(r)

LEMMA SameAfterEvent ==
  ASSUME NEW a, NEW b, NEW event, NEW id, NEW capture, SameUnlessRefused(a, b)
  PROVE  SameUnlessRefused(Replaying(a, event, id, NoCapture), Replaying(b, event, id, capture))
<1>1. ASSUME NEW r, a = Refused(r)
      PROVE  SameUnlessRefused(Replaying(a, event, id, NoCapture),
                               Replaying(b, event, id, capture))
  BY <1>1, ReplayingFacts DEF SameUnlessRefused
<1>2. ASSUME NEW r, a = Replayed(r), b = Replayed(r)
      PROVE  SameUnlessRefused(Replaying(a, event, id, NoCapture),
                               Replaying(b, event, id, capture))
  <2>1. CASE event.maintenance_id # id
    BY <1>2, <2>1, ReplayingFacts DEF SameUnlessRefused
  <2>2. CASE event.maintenance_id = id /\ validateEventShape(event) /\ Accepts(r, event, NoCapture)
    <3>1. /\ Replaying(a, event, id, NoCapture) = Replayed(apply(r, event, NoCapture))
          /\ Replaying(b, event, id, capture) = Replayed(apply(r, event, NoCapture))
      BY <1>2, <2>2, ReplayingFacts, EventsWithoutCapture
    <3> QED BY <3>1 DEF SameUnlessRefused
  <2>3. CASE event.maintenance_id = id /\ ~(validateEventShape(event) /\ Accepts(r, event, NoCapture))
    BY <1>2, <2>3, ReplayingFacts DEF SameUnlessRefused
  <2> QED BY <2>1, <2>2, <2>3
<1> QED BY <1>1, <1>2 DEF SameUnlessRefused

LEMMA ReplayWithLaterCapture ==
  ASSUME NEW S, NEW journal \in Seq(S), NEW id, NEW capture, NEW r,
         ReplayedRun(id, journal, NoCapture) = Replayed(r)
  PROVE  ReplayedRun(id, journal, capture) = Replayed(r)
<1>1. PICK N \in Nat : N = Len(journal)
  OBVIOUS
<1>2. PICK f : /\ ReplaysUpTo(id, journal, NoCapture, N, f)
               /\ ReplayedRun(id, journal, NoCapture) = f[N]
  BY <1>1, ReplayUnrolled
<1>3. PICK g : /\ ReplaysUpTo(id, journal, capture, N, g)
               /\ ReplayedRun(id, journal, capture) = g[N]
  BY <1>1, ReplayUnrolled
<1>4. EventByEvent(id, journal, NoCapture, N, f)
  BY <1>2, ReplayEquation
<1>5. EventByEvent(id, journal, capture, N, g)
  BY <1>3, ReplayEquation
<1> DEFINE T == {n \in 0..N : SameUnlessRefused(f[n], g[n])}
<1>6. 0 \in T
  BY <1>4, <1>5 DEF EventByEvent, SameUnlessRefused
<1>7. \A n \in 0..N : n \in T /\ n < N => n + 1 \in T
  <2> SUFFICES ASSUME NEW n \in 0..N, n \in T, n < N PROVE n + 1 \in T
    OBVIOUS
  <2>1. n + 1 \in 0..N
    OBVIOUS
  <2>2. SameUnlessRefused(f[n + 1], g[n + 1])
    BY <1>4, <1>5, SameAfterEvent DEF EventByEvent
  <2> QED BY <2>1, <2>2
<1>8. 0..N \subseteq T
  <2> HIDE DEF T
  <2> QED BY <1>6, <1>7, UpTo
<1>9. SameUnlessRefused(f[N], g[N])
  BY <1>8
<1>10. \A q : Refused(q) # Replayed(r)
  <2> SUFFICES ASSUME NEW q, Refused(q) = Replayed(r) PROVE FALSE
    OBVIOUS
  <2>1. ~Refused(q).ok /\ Replayed(r).ok
    BY DEF Refused, Replayed
  <2> QED BY <2>1
<1>11. f[N] = g[N]
  BY <1>2, <1>9, <1>10 DEF SameUnlessRefused
<1> QED BY <1>2, <1>3, <1>11

-----------------------------------------------------------------------------
(* The verifier passes.  Its inductive invariant, run by run: the replay   *)
(* of the whole journal, read with the capture that is saved now, arrives  *)
(* at the tables; the targets are those of the capture; and the events of  *)
(* no run are about backups.                                               *)

ReplayIsTables(id) ==
  ReplayedRun(id, journal_events, maintenance_captures[id]) = Replayed(ReplayOfTables(id))

CaptureIsParsed(id) ==
  HasCapture(id) =>
    LET parsed == parseCaptureTargets(maintenance_captures[id])
    IN  /\ ValidCapturePayload(maintenance_captures[id])
        /\ DOMAIN targets[id] = DOMAIN parsed
        /\ \A t \in DOMAIN targets[id] :
             /\ targets[id][t].lock_key = parsed[t].lock_key
             /\ targets[id][t].original_state = parsed[t].original_state

VerifyInvariant ==
  /\ JournalInvariant
  /\ \A id \in MaintenanceIDs : ReplayIsTables(id) /\ CaptureIsParsed(id)
  /\ verifyGlobalEvents(journal_events)

LEMMA ReplayAfterAppend ==
  ASSUME JournalIsSequence, NEW event, appendEvent(event), NEW id, NEW capture
  PROVE  ReplayedRun(id, journal_events', capture) =
           Replaying(ReplayedRun(id, journal_events, capture), event, id, capture)
<1>1. PICK S : S = Events \cup {event}
  OBVIOUS
<1>2. journal_events \in Seq(S) /\ event \in S
  BY <1>1 DEF JournalIsSequence
<1>3. journal_events' = Append(journal_events, event)
  BY DEF appendEvent
<1> QED BY <1>2, <1>3, ReplayAppended

(* The run that a transaction writes.                                      *)
LEMMA OwnReplay ==
  ASSUME TablesOK, JournalIsSequence, NEW id \in MaintenanceIDs, NEW event,
         appendEvent(event), ReplayStep(id, event), ReplayIsTables(id)
  PROVE  ReplayIsTables(id)'
<1> DEFINE r == ReplayOfTables(id)
           capture == maintenance_captures'[id]
<1>1. ReplayedRun(id, journal_events, capture) = Replayed(r)
  <2>1. CASE HasCapture(id)
    BY <2>1 DEF ReplayStep, ReplayIsTables
  <2>2. CASE ~HasCapture(id)
    <3>1. ReplayedRun(id, journal_events, NoCapture) = Replayed(r)
      BY <2>2 DEF HasCapture, ReplayIsTables
    <3> HIDE DEF r, capture
    <3> QED BY <3>1, ReplayWithLaterCapture DEF JournalIsSequence
  <2> QED BY <2>1, <2>2
<1>2. /\ event.maintenance_id = id /\ validateEventShape(event)
      /\ Accepts(r, event, capture) /\ r' = apply(r, event, capture)
  BY DEF ReplayStep
<1> DEFINE next == apply(r, event, capture)
<1>3. Replaying(Replayed(r), event, id, capture) = Replayed(next)
  <2> HIDE DEF r, capture
  <2> QED BY <1>2, ReplayingFacts
<1>4. ReplayedRun(id, journal_events', capture) = Replayed(next)
  <2> HIDE DEF r, capture, next
  <2> QED BY <1>1, <1>3, ReplayAfterAppend
<1>5. ReplayedRun(id, journal_events', capture) = Replayed(r')
  BY <1>2, <1>4
<1> QED BY <1>5 DEF ReplayIsTables, Replayed

(* The other runs: the replay skips the event.                             *)
LEMMA OtherReplay ==
  ASSUME JournalIsSequence, NEW id \in MaintenanceIDs, NEW event, appendEvent(event),
         event.maintenance_id # id, maintenance_captures'[id] = maintenance_captures[id],
         ReplayOfTables(id)' = ReplayOfTables(id), ReplayIsTables(id)
  PROVE  ReplayIsTables(id)'
<1> DEFINE r == ReplayOfTables(id)
           capture == maintenance_captures[id]
<1>1. ReplayedRun(id, journal_events, capture) = Replayed(r)
  BY DEF ReplayIsTables
<1>2. ReplayedRun(id, journal_events', capture) = Replayed(r)
  <2> HIDE DEF r, capture
  <2> QED BY <1>1, ReplayAfterAppend, ReplayingFacts
<1> QED BY <1>2 DEF ReplayIsTables, Replayed

LEMMA ReplayFollows ==
  ASSUME JournalInvariant, \A id \in MaintenanceIDs : ReplayIsTables(id), JNext
  PROVE  \A id \in MaintenanceIDs : ReplayIsTables(id)'
<1>1. TablesOK /\ JournalIsSequence
  BY DEF JournalInvariant, StoreInvariant, TypeOK
<1>2. CASE RunWrite
  <2>1. PICK id \in MaintenanceIDs : \E event : appendEvent(event) /\ ReplayStep(id, event)
    BY <1>2, WriteReplays
  <2>2. PICK event : appendEvent(event) /\ ReplayStep(id, event)
    BY <2>1
  <2>3. ReplayIsTables(id)'
    BY <1>1, <2>2, OwnReplay
  <2>4. ASSUME NEW q \in MaintenanceIDs, q # id PROVE ReplayIsTables(q)'
    <3>1. event.maintenance_id # q /\ ReplayOfTables(q)' = ReplayOfTables(q)
      BY <2>2, <2>4 DEF ReplayStep
    <3>2. maintenance_captures'[q] = maintenance_captures[q]
      BY <1>1, <2>2, <2>4 DEF ReplayStep, TablesOK
    <3> QED BY <1>1, <2>2, <3>1, <3>2, OtherReplay
  <2> QED BY <2>3, <2>4
<1>3. CASE BackupWrite
  <2>1. PICK event : appendEvent(event) /\ TellsOfBackup(event) /\ UNCHANGED vars
    BY <1>3, BackupAppends
  <2> SUFFICES ASSUME NEW id \in MaintenanceIDs PROVE ReplayIsTables(id)'
    OBVIOUS
  <2>2. event.maintenance_id # id
    BY <2>1, IDAssumption DEF TellsOfBackup
  <2>3. maintenance_captures'[id] = maintenance_captures[id] /\ ReplayOfTables(id)' = ReplayOfTables(id)
    BY <2>1 DEF vars, ReplayOfTables, HasCapture
  <2> QED BY <1>1, <2>1, <2>2, <2>3, OtherReplay
<1> QED BY <1>2, <1>3 DEF JNext

LEMMA GlobalFollows ==
  ASSUME JournalInvariant, verifyGlobalEvents(journal_events), JNext
  PROVE  verifyGlobalEvents(journal_events')
<1>1. PICK event :
        /\ appendEvent(event)
        /\ event.maintenance_id = "" => validateEventShape(event) /\ AcceptsGlobal(event)
  <2>1. CASE RunWrite
    BY <2>1, WriteReplays, IDAssumption DEF ReplayStep
  <2>2. CASE BackupWrite
    BY <2>2, BackupAppends DEF TellsOfBackup
  <2> QED BY <2>1, <2>2 DEF JNext
<1>2. Extends(event)
  BY <1>1, AppendExtends DEF JournalInvariant
<1>3. \A i \in DOMAIN journal_events' :
        journal_events'[i] = event \/ \E j \in DOMAIN journal_events : journal_events'[i] = journal_events[j]
  BY <1>2 DEF Extends
<1> QED BY <1>1, <1>3 DEF verifyGlobalEvents

(* A capture is saved by CaptureMaintenance and by nothing else.           *)
LEMMA CaptureSaved ==
  ASSUME TablesOK, NEW id \in MaintenanceIDs, ~HasCapture(id), HasCapture(id)', Next
  PROVE  \E payload \in CapturePayloads : CaptureMaintenance(id, payload)
<1>1. maintenance_captures' # maintenance_captures
  BY DEF HasCapture
<1>2. PICK m \in MaintenanceIDs : \E payload \in CapturePayloads : CaptureMaintenance(m, payload)
  BY <1>1 DEF Next, CreateMaintenance, TransitionMaintenance, TransitionTarget, AddObservation
<1>3. m = id
  BY <1>2, CaptureFacts DEF HasCapture
<1> QED BY <1>2, <1>3

LEMMA ParsedFollows ==
  ASSUME StoreInvariant, NEW id \in MaintenanceIDs, CaptureIsParsed(id), Next
  PROVE  CaptureIsParsed(id)'
<1>1. TablesOK /\ KeepsRun(id)
  <2>1. [KeepsEvidence]_vars
    BY SafeStep
  <2>2. CASE KeepsEvidence
    BY <2>2 DEF KeepsEvidence, StoreInvariant, TypeOK
  <2>3. CASE UNCHANGED vars
    BY <2>3 DEF vars, KeepsRun, StoreInvariant, TypeOK
  <2> QED BY <2>1, <2>2, <2>3
<1> SUFFICES ASSUME HasCapture(id)' PROVE CaptureIsParsed(id)'
  BY DEF CaptureIsParsed
<1>2. CASE HasCapture(id)
  <2>1. /\ maintenance_captures'[id] = maintenance_captures[id]
        /\ DOMAIN targets'[id] = DOMAIN targets[id]
        /\ \A t \in DOMAIN targets[id] :
             /\ targets'[id][t].lock_key = targets[id][t].lock_key
             /\ targets'[id][t].original_state = targets[id][t].original_state
    BY <1>1, <1>2 DEF KeepsRun
  <2> QED BY <1>2, <2>1 DEF CaptureIsParsed
<1>3. CASE ~HasCapture(id)
  <2>1. PICK payload \in CapturePayloads : CaptureMaintenance(id, payload)
    BY <1>1, <1>3, CaptureSaved
  <2>2. targets'[id] = parseCaptureTargets(payload) /\ maintenance_captures'[id] = payload
    BY <1>1, <2>1, CaptureFacts DEF CaptureMaintenance, TablesOK
  <2>3. ValidCapturePayload(payload)
    BY <2>1, CaptureGuard DEF CaptureMaintenance
  <2> QED BY <2>2, <2>3 DEF CaptureIsParsed
<1> QED BY <1>2, <1>3

LEMMA VerifyInit == JInit => VerifyInvariant
<1> SUFFICES ASSUME JInit PROVE VerifyInvariant
  OBVIOUS
<1>1. JournalInvariant
  BY JournalInit
<1>2. journal_events = <<>> /\ DOMAIN journal_events = {} /\ Len(journal_events) = 0
  BY DEF JInit
<1>3. ASSUME NEW id \in MaintenanceIDs PROVE ReplayIsTables(id)
  <2>1. PICK g : /\ ReplaysUpTo(id, journal_events, maintenance_captures[id], 0, g)
                 /\ ReplayedRun(id, journal_events, maintenance_captures[id]) = g[0]
    BY <1>2, ReplayUnrolled
  <2>2. g[0] = Replayed(EmptyReplay)
    BY <2>1, ReplayEquation DEF EventByEvent
  <2>3. ReplayOfTables(id) = EmptyReplay
    BY <1>3, EmptyReplays
  <2> QED BY <2>1, <2>2, <2>3 DEF ReplayIsTables
<1>4. \A id \in MaintenanceIDs : CaptureIsParsed(id)
  BY DEF JInit, Init, CaptureIsParsed, HasCapture
<1>5. verifyGlobalEvents(journal_events)
  BY <1>2 DEF verifyGlobalEvents
<1> QED BY <1>1, <1>3, <1>4, <1>5 DEF VerifyInvariant

LEMMA VerifyStep == VerifyInvariant /\ [JNext]_jvars => VerifyInvariant'
<1> SUFFICES ASSUME VerifyInvariant, [JNext]_jvars PROVE VerifyInvariant'
  OBVIOUS
<1>1. JournalInvariant /\ StoreInvariant
  BY DEF VerifyInvariant, JournalInvariant
<1>2. JournalInvariant'
  BY <1>1, JournalStep
<1>3. CASE JNext
  <2>1. \A id \in MaintenanceIDs : ReplayIsTables(id)'
    BY <1>1, <1>3, ReplayFollows DEF VerifyInvariant
  <2>2. \A id \in MaintenanceIDs : CaptureIsParsed(id)'
    <3>1. CASE Next
      BY <1>1, <3>1, ParsedFollows DEF VerifyInvariant
    <3>2. CASE UNCHANGED vars
      BY <3>2 DEF VerifyInvariant, CaptureIsParsed, HasCapture, vars
    <3> QED BY <1>3, <3>1, <3>2, StoreStep
  <2>3. verifyGlobalEvents(journal_events')
    BY <1>1, <1>3, GlobalFollows DEF VerifyInvariant
  <2> QED BY <1>2, <2>1, <2>2, <2>3 DEF VerifyInvariant
<1>4. CASE UNCHANGED jvars
  <2>1. \A id \in MaintenanceIDs : ReplayIsTables(id)' /\ CaptureIsParsed(id)'
    BY <1>4 DEF VerifyInvariant, jvars, vars, ReplayIsTables, ReplayOfTables, CaptureIsParsed,
                HasCapture
  <2> QED BY <1>2, <1>4, <2>1 DEF VerifyInvariant, jvars
<1> QED BY <1>3, <1>4

(* What the verifier compares, for a run that exists.                      *)
LEMMA RunVerifies ==
  ASSUME VerifyInvariant, NEW id \in MaintenanceIDs, maintenance[id].version # 0
  PROVE  verifyMaintenanceReplay(id, journal_events, maintenance[id], maintenance_captures[id],
                                 targets[id])
<1> DEFINE capture == maintenance_captures[id]
           rows == targets[id]
           row == maintenance[id]
           r == ReplayOfTables(id)
           replayed == ReplayedRun(id, journal_events, capture)
           parsed == IF capture = NoCapture THEN [t \in {} |-> t] ELSE parseCaptureTargets(capture)
<1>1. TablesOK /\ CaptureCreatesTargets /\ JournalIsDense /\ CaptureIsParsed(id)
  BY DEF VerifyInvariant, JournalInvariant, StoreInvariant, TypeOK
<1>2. \E i \in DOMAIN journal_events : journal_events[i].maintenance_id = id
  <2>1. 1 \in 1..maintenance[id].version
    <3>1. maintenance[id].version \in Nat
      BY <1>1, MaintenanceRowFields DEF TablesOK
    <3> QED BY <3>1
  <2>2. 1..maintenance[id].version =
          {journal_events[i].aggregate_version : i \in Versioned(id)}
    BY <1>1 DEF JournalIsDense, Versioned
  <2>3. Versioned(id) # {}
    BY <2>1, <2>2
  <2> QED BY <2>3 DEF Versioned
<1>3. replayed = Replayed(r)
  BY DEF VerifyInvariant, ReplayIsTables
<1>4. /\ replayed.run = r
      /\ replayed.ok
  <2> HIDE DEF replayed, r
  <2>1. Replayed(r).run = r
    BY DEF Replayed
  <2>2. Replayed(r).ok
    BY Zenon DEF Replayed
  <2> QED BY <1>3, <2>1, <2>2
<1>5. /\ r.state = row.state /\ r.revision = row.version
      /\ DOMAIN r.targets = DOMAIN rows
      /\ \A t \in DOMAIN rows : r.targets[t] = ReplayTarget(rows[t])
  BY DEF ReplayOfTables
<1>6. \A t \in DOMAIN rows :
        rows[t].state = r.targets[t].state /\ rows[t].version = r.targets[t].version
  <2>1. \A target : /\ ReplayTarget(target).state = target.state
                    /\ ReplayTarget(target).version = target.version
    BY DEF ReplayTarget
  <2> HIDE DEF r, rows
  <2> QED BY <1>5, <2>1
<1>7. r.captured = (capture # NoCapture)
  BY DEF ReplayOfTables, HasCapture
<1>8. /\ capture # NoCapture => ValidCapturePayload(capture)
      /\ DOMAIN rows = DOMAIN parsed
      /\ \A t \in DOMAIN rows : /\ rows[t].lock_key = parsed[t].lock_key
                                /\ rows[t].original_state = parsed[t].original_state
  <2>1. CASE HasCapture(id)
    BY <1>1, <2>1 DEF CaptureIsParsed, HasCapture
  <2>2. CASE ~HasCapture(id)
    BY <1>1, <2>2 DEF CaptureCreatesTargets, HasCapture
  <2> QED BY <2>1, <2>2
<1> HIDE DEF capture, rows, row, r, replayed, parsed
<1>9. /\ capture # NoCapture => ValidCapturePayload(capture)
      /\ \E i \in DOMAIN journal_events : journal_events[i].maintenance_id = id
      /\ replayed.ok
      /\ replayed.run.state = row.state
      /\ replayed.run.revision = row.version
      /\ replayed.run.captured = (capture # NoCapture)
      /\ DOMAIN rows = DOMAIN parsed /\ DOMAIN rows = DOMAIN replayed.run.targets
      /\ \A t \in DOMAIN rows :
           /\ rows[t].lock_key = parsed[t].lock_key
           /\ rows[t].original_state = parsed[t].original_state
           /\ rows[t].state = replayed.run.targets[t].state
           /\ rows[t].version = replayed.run.targets[t].version
  <2>1. replayed.run.captured = (capture # NoCapture)
    BY <1>4, <1>7
  <2>2. replayed.run.state = row.state /\ replayed.run.revision = row.version
    BY <1>4, <1>5
  <2>3. DOMAIN rows = DOMAIN replayed.run.targets
    BY <1>4, <1>5
  <2>4. \A t \in DOMAIN rows : /\ rows[t].state = replayed.run.targets[t].state
                               /\ rows[t].version = replayed.run.targets[t].version
    BY <1>4, <1>6
  <2> QED BY <1>2, <1>4, <1>8, <2>1, <2>2, <2>3, <2>4
<1> QED BY <1>9, Zenon DEF verifyMaintenanceReplay, capture, rows, row, replayed, parsed

(* The application check of verify.go (verifyApplicationData: locks,       *)
(* replay of every run over its events from the first, events of no run)   *)
(* passes on the database after every transaction of mutations.go and      *)
(* backup.go, whatever the length of the journal: a failing check never    *)
(* blames a legal history.                                                 *)
THEOREM VerifyPasses == JSpec => []VerifyAlwaysPasses
<1>1. VerifyInvariant => VerifyAlwaysPasses
  <2> SUFFICES ASSUME VerifyInvariant PROVE VerifyAlwaysPasses
    OBVIOUS
  <2>1. verifyLockExclusivity(maintenance, targets)
    <3>1. LockExclusive /\ TablesOK
      BY DEF VerifyInvariant, JournalInvariant, StoreInvariant, TypeOK
    <3>2. \A id \in MaintenanceIDs :
            maintenance[id].state \notin {"", "completed", "cancelled"} => HoldsLocks(id)
      BY <3>1 DEF TablesOK, HoldsLocks, Exists
    <3>3. ASSUME NEW a \in MaintenanceIDs, NEW b \in MaintenanceIDs, NEW key \in LockKeys,
                 \A id \in {a, b} :
                   /\ maintenance[id].state \notin {"", "completed", "cancelled"}
                   /\ \E t \in DOMAIN targets[id] : targets[id][t].lock_key = key
          PROVE  a = b
      <4>1. HoldsLocks(a) /\ HoldsLocks(b)
        BY <3>2, <3>3
      <4>2. PICK t \in DOMAIN targets[a] : targets[a][t].lock_key = key
        BY <3>3
      <4>3. PICK u \in DOMAIN targets[b] : targets[b][u].lock_key = key
        BY <3>3
      <4> QED BY <3>1, <4>1, <4>2, <4>3 DEF LockExclusive
    <3> QED BY <3>3 DEF verifyLockExclusivity
  <2>2. verifyGlobalEvents(journal_events)
    BY DEF VerifyInvariant
  <2> QED BY <2>1, <2>2, RunVerifies DEF VerifyAlwaysPasses, verifyApplicationData
<1> QED BY <1>1, VerifyInit, VerifyStep, PTL DEF JSpec
=============================================================================
