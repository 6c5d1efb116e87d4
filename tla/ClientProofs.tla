----------------------------- MODULE ClientProofs -----------------------------
(***************************************************************************)
(* What is proved of the store's clients: of automation jobs, for any      *)
(* number of jobs, operations, retries and other clients, and of an        *)
(* administrator who winds a run up.                                       *)
(***************************************************************************)
EXTENDS Automation, Recovery, StoreProofs

-----------------------------------------------------------------------------
(* What every transaction does to versions.                                *)

StoreOK == TablesOK /\ RunInvariant

(* No transaction takes a version back, or shows the same version for      *)
(* something else.                                                         *)
RunGrows(r) ==
  /\ \/ maintenance'[r] = maintenance[r] /\ targets'[r] = targets[r]
     \/ maintenance'[r].version = maintenance[r].version + 1
  /\ \A t \in DOMAIN targets[r] :
       /\ t \in DOMAIN targets'[r]
       /\ \/ targets'[r][t] = targets[r][t] /\ maintenance'[r].state = maintenance[r].state
          \/ targets'[r][t].version = targets[r][t].version + 1
  /\ HasCapture(r) => maintenance_captures'[r] = maintenance_captures[r]

StoreGrows == (\A r \in MaintenanceIDs : RunGrows(r)) /\ observations \subseteq observations'

-----------------------------------------------------------------------------
(* The inductive invariant.                                                *)

Places == {"idle", "read", "write", "reconcile", "done", "failed"}

(* The kinds of writes that carry an ETag.                                 *)
Conditional == {"maintenance", "target", "observe"}

Seen == {job[j].seen : j \in Jobs}

JobRow(seen) == [pc : Places, op : Operations, etag : Nat, seen : seen]

JobsTyped ==
  /\ job \in [Jobs -> JobRow(Seen)]
  /\ tries \in [Jobs -> Nat] /\ delayed \in [Jobs -> Nat] /\ effects \in [Jobs -> Nat]

(* Whatever is still sent of the job's request will be refused.            *)
Spent(op, request, etag) ==
  /\ op.kind = "create" => Exists(op.id)
  /\ op.kind = "capture" => HasCapture(op.id)
  /\ op.kind = "observe" => SavedObservations(op.id, op.t, request) # {}
  /\ op.kind \in {"maintenance", "target"} => Readable(op) /\ etag < Current(op).version

(* What the job read, and what is left of it.                              *)
Remembers(op, etag, seen) ==
  etag # 0 =>
    /\ op.kind \in Conditional
    /\ Readable(op)
    /\ etag <= Current(op).version
    /\ etag = Current(op).version => Visible(op) = seen

(* What was reported as done.                                              *)
Durable(op, request) ==
  /\ op.kind = "create" => Exists(op.id)
  /\ op.kind = "capture" => maintenance_captures[op.id] = op.document
  /\ op.kind = "observe" =>
       \E o \in SavedObservations(op.id, op.t, request) : o.payload = op.observation

(* What a job's place says of the copies of its request.                   *)
Sent(j) ==
  /\ delayed[j] <= tries[j]
  /\ tries[j] <= Retries + 1
  /\ job[j].pc \in {"idle", "read"} => tries[j] = 0 /\ effects[j] = 0 /\ job[j].etag = 0
  /\ job[j].pc = "read" => job[j].op.kind \in Conditional
  /\ job[j].pc = "write" =>
       /\ tries[j] <= Retries
       /\ job[j].op.kind \in Conditional => job[j].etag # 0
  /\ job[j].pc = "reconcile" => job[j].op.kind \notin {"capture", "observe"}
  /\ effects[j] <= 1

JobSpent(j) == Spent(job[j].op, RequestID(j), job[j].etag)
JobRemembers(j) == Remembers(job[j].op, job[j].etag, job[j].seen)
JobDurable(j) == Durable(job[j].op, RequestID(j))

JobOK(j) ==
  /\ Sent(j)
  /\ JobRemembers(j)
  /\ effects[j] = 1 \/ job[j].pc = "reconcile" => JobSpent(j)
  /\ job[j].pc = "done" => JobDurable(j) /\ (delayed[j] = 0 \/ JobSpent(j))

AutomationInvariant ==
  /\ StoreOK
  /\ JobsTyped
  /\ \A j \in Jobs : JobOK(j)

-----------------------------------------------------------------------------
LEMMA UnchangedRunGrows ==
  ASSUME NEW r \in MaintenanceIDs,
         maintenance'[r] = maintenance[r],
         maintenance_captures'[r] = maintenance_captures[r],
         targets'[r] = targets[r]
  PROVE  RunGrows(r)
BY DEF RunGrows

LEMMA NoCaptureNoTargets ==
  ASSUME RunInvariant, NEW r \in MaintenanceIDs
  PROVE  DOMAIN targets[r] # {} => HasCapture(r)
BY DEF RunInvariant, RunOK

LEMMA CreateGrows ==
  ASSUME TablesOK, RunInvariant, NEW id \in MaintenanceIDs, CreateMaintenance(id)
  PROVE  StoreGrows
<1> SUFFICES ASSUME NEW r \in MaintenanceIDs PROVE RunGrows(r)
  BY CreateFacts DEF StoreGrows
<1>1. CASE r = id
  <2>1. RunOK(maintenance[id].state, HasCapture(id), id \in exercised, targets[id])
    BY DEF RunInvariant
  <2>2. DOMAIN targets[id] = {}
    BY <2>1, CreateFacts DEF RunOK
  <2>3. maintenance[id].version = 0
    BY CreateGuard DEF CreateMaintenance, Exists
  <2>4. maintenance'[id].version = 1
    BY DEF CreateMaintenance, TablesOK
  <2>5. maintenance'[id].version = maintenance[id].version + 1
    BY <2>3, <2>4
  <2>6. maintenance_captures' = maintenance_captures
    BY DEF CreateMaintenance
  <2> QED BY <1>1, <2>2, <2>5, <2>6 DEF RunGrows
<1>2. CASE r # id
  BY <1>2, CreateFacts, UnchangedRunGrows
<1> QED BY <1>1, <1>2

LEMMA CaptureGrows ==
  ASSUME TablesOK, RunInvariant, NEW id \in MaintenanceIDs, NEW payload \in CapturePayloads,
         CaptureMaintenance(id, payload)
  PROVE  StoreGrows
<1> SUFFICES ASSUME NEW r \in MaintenanceIDs PROVE RunGrows(r)
  BY CaptureFacts DEF StoreGrows
<1>1. CASE r = id
  <2>1. ~HasCapture(id)
    BY CaptureGuard DEF CaptureMaintenance
  <2>2. DOMAIN targets[id] = {}
    BY <2>1, NoCaptureNoTargets
  <2>3. maintenance'[id].version = maintenance[id].version + 1
    BY DEF CaptureMaintenance, TablesOK
  <2> QED BY <1>1, <2>1, <2>2, <2>3 DEF RunGrows
<1>2. CASE r # id
  BY <1>2, CaptureFacts, UnchangedRunGrows
<1> QED BY <1>1, <1>2

LEMMA TransitionGrows ==
  ASSUME TablesOK, RunInvariant, NEW id \in MaintenanceIDs, NEW change, NEW precondition, NEW role,
         TransitionMaintenance(id, change, precondition, role)
  PROVE  StoreGrows
<1> SUFFICES ASSUME NEW r \in MaintenanceIDs PROVE RunGrows(r)
  BY TransitionFacts DEF StoreGrows
<1>1. CASE r = id
  <2>1. \A t \in DOMAIN targets[id] : targets'[id][t].version = targets[id][t].version + 1
    <3>1. targets' = AdvancedTargets(id)
      BY DEF TransitionMaintenance
    <3> QED BY <3>1, NoCaptureNoTargets, AdvancedTargetsFacts
  <2> QED BY <1>1, <2>1, TransitionFacts DEF RunGrows
<1>2. CASE r # id
  BY <1>2, TransitionFacts, UnchangedRunGrows
<1> QED BY <1>1, <1>2

LEMMA TargetGrows ==
  ASSUME TablesOK, NEW id \in MaintenanceIDs, NEW t, NEW change, NEW precondition, NEW role,
         TransitionTarget(id, t, change, precondition, role)
  PROVE  StoreGrows
<1>1. UNCHANGED <<maintenance_captures, observations>>
  BY DEF TransitionTarget
<1> SUFFICES ASSUME NEW r \in MaintenanceIDs PROVE RunGrows(r)
  BY <1>1 DEF StoreGrows
<1>2. Exists(id)
  BY TargetGuard DEF TransitionTarget
<1>3. /\ \A q \in MaintenanceIDs : maintenance'[q].state = maintenance[q].state
      /\ \A q \in MaintenanceIDs : q # id => maintenance'[q] = maintenance[q]
      /\ maintenance'[id].version = maintenance[id].version + 1
  BY <1>2, AdvancedRunFacts DEF TransitionTarget, Exists
<1>4. CASE r = id
  <2>1. \A u \in DOMAIN targets[id] :
          /\ u \in DOMAIN targets'[id]
          /\ \/ targets'[id][u] = targets[id][u]
             \/ targets'[id][u].version = targets[id][u].version + 1
    BY TransitionTargetFacts
  <2> QED BY <1>1, <1>3, <1>4, <2>1 DEF RunGrows
<1>5. CASE r # id
  <2>1. targets'[r] = targets[r]
    BY <1>5 DEF TransitionTarget, TablesOK
  <2> QED BY <1>1, <1>3, <1>5, <2>1, UnchangedRunGrows
<1> QED BY <1>4, <1>5

LEMMA StoreIdles ==
  ASSUME StoreOK, UNCHANGED <<maintenance, maintenance_captures, targets, exercised>>,
         observations \subseteq observations'
  PROVE  StoreOK' /\ StoreGrows
<1>1. TablesOK'
  BY DEF StoreOK, TablesOK
<1>2. RunInvariant'
  BY DEF StoreOK, RunInvariant, RunOK, HasCapture
<1> QED BY <1>1, <1>2, UnchangedRunGrows DEF StoreOK, StoreGrows

LEMMA OperationFields ==
  ASSUME NEW op \in Operations
  PROVE  /\ op.kind \in {"create", "capture", "maintenance", "target", "observe"}
         /\ op.id \in MaintenanceIDs /\ op.t \in TargetIDs
         /\ op.document \in CapturePayloads
BY AutomationAssumption DEF Operation

LEMMA CommitGrows ==
  ASSUME StoreOK, JobsTyped, NEW j \in Jobs, Commit(j)
  PROVE  StoreOK' /\ StoreGrows
<1> DEFINE op == job[j].op
<1>1. op \in Operations
  BY DEF JobsTyped, JobRow
<1>2. op.id \in MaintenanceIDs /\ op.t \in TargetIDs /\ op.document \in CapturePayloads
  BY <1>1, OperationFields
<1>3. TablesOK /\ RunInvariant
  BY DEF StoreOK
<1>4. CASE CreateMaintenance(op.id)
  BY <1>2, <1>3, <1>4, CreateType, CreateRun, CreateGrows DEF StoreOK
<1>5. CASE CaptureMaintenance(op.id, op.document)
  BY <1>2, <1>3, <1>5, CaptureType, CaptureRun, CaptureGrows DEF StoreOK
<1>6. CASE TransitionMaintenance(op.id, Change(op), IfMatch(j), op.role)
  BY <1>2, <1>3, <1>6, TransitionMaintenanceType, TransitionRun, TransitionGrows DEF StoreOK
<1>7. CASE TransitionTarget(op.id, op.t, Change(op), IfMatch(j), op.role)
  BY <1>2, <1>3, <1>7, TransitionTargetType, TargetRun, TargetGrows DEF StoreOK
<1>8. CASE AddObservation(op.id, op.t, RequestID(j), op.observation, IfMatch(j))
  BY <1>8, StoreIdles DEF AddObservation
<1> QED BY <1>4, <1>5, <1>6, <1>7, <1>8 DEF Commit

LEMMA OtherClientGrows ==
  ASSUME StoreOK, OtherClient
  PROVE  StoreOK' /\ StoreGrows
<1>1. TablesOK /\ RunInvariant
  BY DEF StoreOK
<1> DEFINE star == [any |-> TRUE, versions |-> {}]
<1>2. ASSUME NEW id \in MaintenanceIDs, CreateMaintenance(id)
      PROVE  StoreOK' /\ StoreGrows
  BY <1>1, <1>2, CreateType, CreateRun, CreateGrows DEF StoreOK
<1>3. ASSUME NEW id \in MaintenanceIDs, NEW payload \in CapturePayloads,
             CaptureMaintenance(id, payload)
      PROVE  StoreOK' /\ StoreGrows
  BY <1>1, <1>3, CaptureType, CaptureRun, CaptureGrows DEF StoreOK
<1>4. ASSUME NEW id \in MaintenanceIDs, NEW change, NEW precondition, NEW role,
             TransitionMaintenance(id, change, precondition, role)
      PROVE  StoreOK' /\ StoreGrows
  BY <1>1, <1>4, TransitionMaintenanceType, TransitionRun, TransitionGrows DEF StoreOK
<1>5. ASSUME NEW id \in MaintenanceIDs, NEW t, NEW change, NEW precondition, NEW role,
             TransitionTarget(id, t, change, precondition, role)
      PROVE  StoreOK' /\ StoreGrows
  BY <1>1, <1>5, TransitionTargetType, TargetRun, TargetGrows DEF StoreOK
<1> QED BY <1>2, <1>3, <1>4, <1>5 DEF OtherClient

-----------------------------------------------------------------------------
(* What a job relies on stays so, whoever writes.                          *)

LEMMA VersionsAreNumbers ==
  ASSUME TablesOK, NEW op \in Operations, Readable(op)
  PROVE  Current(op).version \in Nat \ {0}
<1>1. op.id \in MaintenanceIDs
  BY OperationFields
<1>2. CASE op.kind = "maintenance"
  <2>1. maintenance[op.id] \in MaintenanceRow
    BY <1>1 DEF TablesOK
  <2>2. maintenance[op.id].version \in Nat
    BY <2>1, MaintenanceRowFields
  <2> QED BY <1>2, <2>2 DEF Current, Readable, Exists
<1>3. CASE op.kind # "maintenance"
  <2>1. op.t \in DOMAIN targets[op.id]
    BY <1>3 DEF Readable
  <2>2. targets[op.id][op.t] \in TargetRow
    BY <1>1, <2>1 DEF TablesOK
  <2>3. targets[op.id][op.t].version \in Nat \ {0}
    BY <2>2 DEF TargetRow
  <2> QED BY <1>3, <2>3 DEF Current
<1> QED BY <1>2, <1>3

LEMMA ExistsStays ==
  ASSUME TablesOK, StoreGrows, NEW r \in MaintenanceIDs, Exists(r)
  PROVE  Exists(r)'
<1>1. maintenance[r].version \in Nat
  BY MaintenanceRowFields DEF TablesOK
<1> QED BY <1>1 DEF StoreGrows, RunGrows, Exists

LEMMA CaptureStays ==
  ASSUME StoreGrows, NEW r \in MaintenanceIDs, HasCapture(r)
  PROVE  HasCapture(r)' /\ maintenance_captures'[r] = maintenance_captures[r]
BY DEF StoreGrows, RunGrows, HasCapture

LEMMA ObservationsStay ==
  ASSUME StoreGrows, NEW id, NEW t, NEW request
  PROVE  SavedObservations(id, t, request) \subseteq SavedObservations(id, t, request)'
BY DEF StoreGrows, SavedObservations

(* A resource that was read can be read again, and its version has grown   *)
(* unless it looks the same.                                               *)
LEMMA ResourceGrows ==
  ASSUME TablesOK, StoreGrows, NEW op \in Operations, Readable(op)
  PROVE  /\ Readable(op)'
         /\ \/ Current(op)'.version = Current(op).version /\ Visible(op)' = Visible(op)
            \/ Current(op)'.version = Current(op).version + 1
<1>1. op.id \in MaintenanceIDs
  BY OperationFields
<1>2. Exists(op.id) /\ Exists(op.id)'
  BY <1>1, ExistsStays DEF Readable
<1>3. RunGrows(op.id)
  BY <1>1 DEF StoreGrows
<1>4. CASE op.kind = "maintenance"
  <2>1. \/ maintenance'[op.id] = maintenance[op.id] /\ targets'[op.id] = targets[op.id]
        \/ maintenance'[op.id].version = maintenance[op.id].version + 1
    BY <1>3 DEF RunGrows
  <2> QED BY <1>2, <1>4, <2>1 DEF Readable, Current, Visible
<1>5. CASE op.kind # "maintenance"
  <2>1. op.t \in DOMAIN targets[op.id]
    BY <1>5 DEF Readable
  <2>2. /\ op.t \in DOMAIN targets'[op.id]
        /\ \/ /\ targets'[op.id][op.t] = targets[op.id][op.t]
              /\ maintenance'[op.id].state = maintenance[op.id].state
           \/ targets'[op.id][op.t].version = targets[op.id][op.t].version + 1
    BY <1>3, <2>1 DEF RunGrows
  <2> QED BY <1>2, <1>5, <2>2 DEF Readable, Current, Visible
<1> QED BY <1>4, <1>5

LEMMA OlderStays ==
  ASSUME NEW etag \in Nat, NEW v \in Nat, NEW w, w = v \/ w = v + 1
  PROVE  /\ etag < v => etag < w
         /\ etag <= v => etag <= w
         /\ etag <= v /\ etag = w => w = v
         /\ w \in Nat
         /\ w = v => w # v + 1
OBVIOUS

LEMMA SpentStays ==
  ASSUME TablesOK, StoreGrows, NEW op \in Operations, NEW request, NEW etag \in Nat,
         Spent(op, request, etag)
  PROVE  Spent(op, request, etag)'
<1>1. op.id \in MaintenanceIDs
  BY OperationFields
<1>2. op.kind = "create" => Exists(op.id)'
  BY <1>1, ExistsStays DEF Spent
<1>3. op.kind = "capture" => HasCapture(op.id)'
  BY <1>1, CaptureStays DEF Spent
<1>4. op.kind = "observe" => SavedObservations(op.id, op.t, request)' # {}
  BY ObservationsStay DEF Spent
<1>5. ASSUME op.kind \in {"maintenance", "target"}
      PROVE  Readable(op)' /\ etag < Current(op)'.version
  <2>1. Readable(op) /\ etag < Current(op).version
    BY <1>5 DEF Spent
  <2>2. Current(op).version \in Nat
    BY <2>1, VersionsAreNumbers
  <2> QED BY <2>1, <2>2, ResourceGrows, OlderStays
<1> QED BY <1>2, <1>3, <1>4, <1>5 DEF Spent

LEMMA RemembersStays ==
  ASSUME TablesOK, StoreGrows, NEW op \in Operations, NEW etag \in Nat, NEW seen,
         Remembers(op, etag, seen)
  PROVE  Remembers(op, etag, seen)'
<1> SUFFICES ASSUME etag # 0
             PROVE  /\ op.kind \in Conditional
                    /\ Readable(op)'
                    /\ etag <= Current(op)'.version
                    /\ etag = Current(op)'.version => Visible(op)' = seen
  BY DEF Remembers
<1>1. /\ op.kind \in Conditional /\ Readable(op)
      /\ etag <= Current(op).version
      /\ etag = Current(op).version => Visible(op) = seen
  BY DEF Remembers
<1>2. Current(op).version \in Nat
  BY <1>1, VersionsAreNumbers
<1>3. /\ Readable(op)'
      /\ \/ Current(op)'.version = Current(op).version /\ Visible(op)' = Visible(op)
         \/ Current(op)'.version = Current(op).version + 1
  BY <1>1, ResourceGrows
<1>4. etag <= Current(op)'.version
  BY <1>1, <1>2, <1>3, OlderStays
<1>5. ASSUME etag = Current(op)'.version
      PROVE  Visible(op)' = seen
  <2>1. Current(op)'.version = Current(op).version
    BY <1>1, <1>2, <1>3, <1>5, OlderStays
  <2>2. Current(op)'.version # Current(op).version + 1
    BY <1>1, <1>2, <2>1, OlderStays
  <2> QED BY <1>1, <1>3, <1>5, <2>1, <2>2
<1> QED BY <1>1, <1>3, <1>4, <1>5

LEMMA DurableStays ==
  ASSUME TablesOK, StoreGrows, NEW op \in Operations, NEW request, Durable(op, request)
  PROVE  Durable(op, request)'
<1>1. op.id \in MaintenanceIDs /\ op.document \in CapturePayloads
  BY OperationFields
<1>2. op.kind = "create" => Exists(op.id)'
  BY <1>1, ExistsStays DEF Durable
<1>3. op.kind = "capture" => maintenance_captures'[op.id] = op.document
  <2>1. op.kind = "capture" => HasCapture(op.id)
    BY <1>1, PayloadAssumption DEF Durable, HasCapture
  <2> QED BY <1>1, <2>1, CaptureStays DEF Durable
<1>4. op.kind = "observe" =>
        \E o \in SavedObservations(op.id, op.t, request)' : o.payload = op.observation
  BY ObservationsStay DEF Durable
<1> QED BY <1>2, <1>3, <1>4 DEF Durable

-----------------------------------------------------------------------------
(* The same, for a job that keeps its operation and what it read.          *)

KeepsRequest(j) ==
  job'[j].op = job[j].op /\ job'[j].etag = job[j].etag /\ job'[j].seen = job[j].seen

LEMMA JobFields ==
  ASSUME JobsTyped, NEW j \in Jobs
  PROVE  /\ job[j].op \in Operations /\ job[j].etag \in Nat /\ job[j].pc \in Places
         /\ tries[j] \in Nat /\ delayed[j] \in Nat /\ effects[j] \in Nat
BY DEF JobsTyped, JobRow

LEMMA PartsStay ==
  ASSUME TablesOK, StoreGrows, JobsTyped, NEW j \in Jobs, KeepsRequest(j)
  PROVE  /\ JobSpent(j) => JobSpent(j)'
         /\ JobRemembers(j) => JobRemembers(j)'
         /\ JobDurable(j) => JobDurable(j)'
<1>1. PICK op, etag, seen : op = job[j].op /\ etag = job[j].etag /\ seen = job[j].seen
  OBVIOUS
<1>2. op \in Operations /\ etag \in Nat
  BY <1>1, JobFields
<1>3. op = job'[j].op /\ etag = job'[j].etag /\ seen = job'[j].seen
  BY <1>1 DEF KeepsRequest
<1> DEFINE request == <<j, etag>>
<1>4. /\ JobSpent(j) <=> Spent(op, request, etag)
      /\ JobRemembers(j) <=> Remembers(op, etag, seen)
      /\ JobDurable(j) <=> Durable(op, request)
  BY <1>1 DEF JobSpent, JobRemembers, JobDurable, RequestID
<1>5. /\ JobSpent(j)' <=> Spent(op, request, etag)'
      /\ JobRemembers(j)' <=> Remembers(op, etag, seen)'
      /\ JobDurable(j)' <=> Durable(op, request)'
  BY <1>3 DEF JobSpent, JobRemembers, JobDurable, RequestID, Spent, Remembers, Durable,
              Exists, HasCapture, SavedObservations, Readable, Current, Visible
<1> HIDE DEF request
<1>6. Spent(op, request, etag) => Spent(op, request, etag)'
  BY <1>2, SpentStays
<1>7. Remembers(op, etag, seen) => Remembers(op, etag, seen)'
  BY <1>2, RemembersStays
<1>8. Durable(op, request) => Durable(op, request)'
  BY <1>2, DurableStays
<1> QED BY <1>4, <1>5, <1>6, <1>7, <1>8

LEMMA OthersStay ==
  ASSUME TablesOK, StoreGrows, JobsTyped, NEW j \in Jobs, JobOK(j),
         job'[j] = job[j], tries'[j] = tries[j], delayed'[j] = delayed[j], effects'[j] = effects[j]
  PROVE  JobOK(j)'
<1>1. KeepsRequest(j)
  BY DEF KeepsRequest
<1>2. Sent(j)'
  BY DEF JobOK, Sent
<1> QED BY <1>1, <1>2, PartsStay DEF JobOK

-----------------------------------------------------------------------------
(* What a commit does: it was not spent before, and is afterwards.         *)

LEMMA IfMatchFacts ==
  ASSUME NEW j, NEW version, match(IfMatch(j), version)
  PROVE  version = job[j].etag
BY DEF match, IfMatch

LEMMA CommitSpends ==
  ASSUME StoreOK, StoreOK', JobsTyped, NEW j \in Jobs, Commit(j), KeepsRequest(j)
  PROVE  ~JobSpent(j) /\ JobSpent(j)' /\ JobDurable(j)' /\ Outcome(j) = "ok"
<1>1. PICK op, etag, request :
        op = job[j].op /\ etag = job[j].etag /\ request = <<j, job[j].etag>>
  OBVIOUS
<1>2. op \in Operations /\ etag \in Nat
  BY <1>1, JobFields
<1>3. op = job'[j].op /\ etag = job'[j].etag /\ request = <<j, job'[j].etag>>
  BY <1>1 DEF KeepsRequest
<1>4. /\ JobSpent(j) <=> Spent(op, request, etag)
      /\ RequestID(j) = request
  BY <1>1 DEF JobSpent, RequestID
<1>5. /\ JobSpent(j)' <=> Spent(op, request, etag)'
      /\ JobDurable(j)' <=> Durable(op, request)'
  BY <1>3 DEF JobSpent, JobDurable, RequestID, Spent, Durable,
              Exists, HasCapture, SavedObservations, Readable, Current
<1>6. op.id \in MaintenanceIDs /\ op.document \in CapturePayloads
  BY <1>2, OperationFields
<1>7. TablesOK /\ TablesOK'
  BY DEF StoreOK
<1> SUFFICES /\ ~Spent(op, request, etag)
             /\ Spent(op, request, etag)' /\ Durable(op, request)'
             /\ Outcome(j) = "ok"
  BY <1>4, <1>5
<1>8. CASE op.kind = "create" /\ CreateMaintenance(op.id)
  <2>1. ~Exists(op.id)
    BY <1>8, CreateGuard DEF CreateMaintenance
  <2>2. Exists(op.id)'
    BY <1>6, <1>7, <1>8 DEF CreateMaintenance, TablesOK, Exists
  <2>3. Outcome(j) = "ok"
    BY <1>1, <1>8 DEF Outcome, CreateMaintenance
  <2> QED BY <1>8, <2>1, <2>2, <2>3 DEF Spent, Durable
<1>9. CASE op.kind = "capture" /\ CaptureMaintenance(op.id, op.document)
  <2>1. ~HasCapture(op.id)
    BY <1>9, CaptureGuard DEF CaptureMaintenance
  <2>2. maintenance_captures'[op.id] = op.document
    BY <1>6, <1>7, <1>9, CaptureFacts
  <2>3. HasCapture(op.id)'
    BY <1>6, <2>2, PayloadAssumption DEF HasCapture
  <2>4. Outcome(j) = "ok"
    BY <1>1, <1>9 DEF Outcome, CaptureMaintenance
  <2> QED BY <1>9, <2>1, <2>2, <2>3, <2>4 DEF Spent, Durable
<1>10. CASE /\ op.kind = "maintenance"
            /\ TransitionMaintenance(op.id, Change(op), IfMatch(j), op.role)
  <2>1. Exists(op.id) /\ match(IfMatch(j), maintenance[op.id].version)
    BY <1>10, TransitionGuard DEF TransitionMaintenance
  <2>2. maintenance[op.id].version = etag
    BY <1>1, <2>1, IfMatchFacts
  <2>3. maintenance'[op.id].version = etag + 1
    BY <1>6, <1>7, <1>10, <2>2, TransitionFacts
  <2>4. Outcome(j) = "ok"
    BY <1>1, <1>10 DEF Outcome, TransitionMaintenance
  <2>5. ~(etag < etag) /\ etag < etag + 1 /\ etag + 1 # 0
    BY <1>2
  <2>6. ~Spent(op, request, etag)
    BY <1>10, <2>2, <2>5 DEF Spent, Current
  <2>7. Spent(op, request, etag)'
    BY <1>10, <2>3, <2>5 DEF Spent, Current, Readable, Exists
  <2> QED BY <1>10, <2>4, <2>6, <2>7 DEF Durable
<1>11. CASE op.kind = "target" /\ TransitionTarget(op.id, op.t, Change(op), IfMatch(j), op.role)
  <2>1. Exists(op.id) /\ op.t \in DOMAIN targets[op.id] /\ match(IfMatch(j), targets[op.id][op.t].version)
    BY <1>11, TargetGuard DEF TransitionTarget
  <2>2. targets[op.id][op.t].version = etag
    BY <1>1, <2>1, IfMatchFacts
  <2>3. targets'[op.id][op.t].version = etag + 1 /\ op.t \in DOMAIN targets'[op.id]
    BY <1>6, <1>7, <1>11, <2>1, <2>2, TransitionTargetFacts
  <2>4. Exists(op.id)'
    <3>1. maintenance'[op.id].state = maintenance[op.id].state
      BY <1>6, <1>7, <1>11, <2>1, AdvancedRunFacts DEF TransitionTarget, Exists
    <3> QED BY <1>6, <1>7, <2>1, <3>1 DEF TablesOK, Exists
  <2>5. Outcome(j) = "ok"
    BY <1>1, <1>11 DEF Outcome, TransitionTarget
  <2>6. ~(etag < etag) /\ etag < etag + 1
    BY <1>2
  <2>7. ~Spent(op, request, etag)
    BY <1>11, <2>2, <2>6 DEF Spent, Current
  <2>8. Spent(op, request, etag)'
    BY <1>11, <2>3, <2>4, <2>6 DEF Spent, Current, Readable
  <2> QED BY <1>11, <2>5, <2>7, <2>8 DEF Durable
<1>12. CASE op.kind = "observe" /\ AddObservation(op.id, op.t, request, op.observation, IfMatch(j))
  <2>1. SavedObservations(op.id, op.t, request) = {}
    BY <1>12, ObservationGuard DEF AddObservation
  <2>2. \E o \in SavedObservations(op.id, op.t, request)' : o.payload = op.observation
    <3> DEFINE o == [maintenance_id |-> op.id, target_id |-> op.t,
                     request_id |-> request, payload |-> op.observation]
    <3>1. o \in observations'
      BY <1>12 DEF AddObservation
    <3>2. o \in SavedObservations(op.id, op.t, request)'
      BY <3>1 DEF SavedObservations
    <3> QED BY <3>2
  <2>3. Outcome(j) = "ok"
    BY <1>1, <1>4, <1>12 DEF Outcome, AddObservation
  <2> QED BY <1>12, <2>1, <2>2, <2>3 DEF Spent, Durable
<1> QED BY <1>1, <1>4, <1>8, <1>9, <1>10, <1>11, <1>12 DEF Commit

(* What an answer tells about a request that changed nothing.              *)
LEMMA RepeatedIsDone ==
  ASSUME NEW j \in Jobs, job[j].op.kind \in {"create", "capture", "maintenance", "target", "observe"},
         Outcome(j) = "repeated"
  PROVE  JobSpent(j) /\ JobDurable(j)
<1> DEFINE op == job[j].op
<1>1. op.kind # "create"
  BY DEF Outcome, CreateMaintenanceOutcome
<1>2. op.kind # "maintenance"
  BY DEF Outcome, TransitionMaintenanceOutcome, ReopenOutcome, require
<1>3. op.kind # "target"
  BY DEF Outcome, TransitionTargetOutcome, require
<1>4. CASE op.kind = "capture"
  <2>1. SavedCaptureMatches(op.id, op.document)
    BY <1>4 DEF Outcome, CaptureMaintenanceOutcome
  <2> QED BY <1>4, <2>1 DEF SavedCaptureMatches, JobSpent, JobDurable, Spent, Durable
<1>5. CASE op.kind = "observe"
  <2>1. \E o \in SavedObservations(op.id, op.t, RequestID(j)) : o.payload = op.observation
    BY <1>5 DEF Outcome, AddObservationOutcome, require
  <2> QED BY <1>5, <2>1 DEF JobSpent, JobDurable, Spent, Durable
<1> QED BY <1>1, <1>2, <1>3, <1>4, <1>5

LEMMA ConflictIsSpent ==
  ASSUME NEW j \in Jobs, JobsTyped, TablesOK, JobRemembers(j),
         \/ Outcome(j) = "conflict" /\ job[j].op.kind = "create"
         \/ /\ Outcome(j) = "version_conflict" /\ job[j].op.kind \in {"maintenance", "target"}
            /\ job[j].etag # 0
  PROVE  JobSpent(j)
<1> DEFINE op == job[j].op
           etag == job[j].etag
<1>1. CASE Outcome(j) = "conflict" /\ op.kind = "create"
  <2>1. Exists(op.id)
    BY <1>1 DEF Outcome, CreateMaintenanceOutcome
  <2> QED BY <1>1, <2>1 DEF JobSpent, Spent
<1>2. CASE Outcome(j) = "version_conflict" /\ op.kind \in {"maintenance", "target"} /\ etag # 0
  <2>1. Readable(op) /\ etag <= Current(op).version
    BY <1>2 DEF JobRemembers, Remembers
  <2>2. ~match(IfMatch(j), Current(op).version)
    <3>1. CASE op.kind = "maintenance"
      BY <1>2, <3>1 DEF Outcome, TransitionMaintenanceOutcome, ReopenOutcome, require, Current
    <3>2. CASE op.kind = "target"
      BY <1>2, <3>2 DEF Outcome, TransitionTargetOutcome, require, Current
    <3> QED BY <1>2, <3>1, <3>2
  <2>3. Current(op).version # etag
    BY <2>2 DEF match, IfMatch
  <2>4. op \in Operations /\ etag \in Nat
    BY JobFields
  <2>5. Current(op).version \in Nat
    BY <2>1, <2>4, VersionsAreNumbers
  <2>6. etag < Current(op).version
    BY <2>1, <2>3, <2>4, <2>5
  <2> QED BY <1>2, <2>1, <2>6 DEF JobSpent, Spent
<1> QED BY <1>1, <1>2

-----------------------------------------------------------------------------
(* One step of a job.                                                      *)

LEMMA PlaceChanges ==
  ASSUME JobsTyped, NEW j \in Jobs, NEW place \in Places,
         job' = [job EXCEPT ![j].pc = place]
  PROVE  /\ (job \in [Jobs -> JobRow(Seen)])'
         /\ KeepsRequest(j) /\ job'[j].pc = place
         /\ \A k \in Jobs \ {j} : job'[k] = job[k]
<1>1. job \in [Jobs -> JobRow(Seen)]
  BY DEF JobsTyped
<1>2. /\ DOMAIN job' = Jobs /\ job' = [k \in Jobs |-> job'[k]]
      /\ job'[j] = [job[j] EXCEPT !.pc = place]
      /\ \A k \in Jobs \ {j} : job'[k] = job[k]
  BY <1>1
<1>3. job[j] \in JobRow(Seen)
  BY <1>1
<1>4. job'[j] \in JobRow(Seen) /\ KeepsRequest(j) /\ job'[j].pc = place
  BY <1>2, <1>3 DEF JobRow, KeepsRequest
<1>5. \A k \in Jobs : job'[k].seen = job[k].seen
  BY <1>2, <1>4 DEF KeepsRequest
<1>6. Seen' = Seen
  BY <1>5 DEF Seen
<1>7. \A k \in Jobs : job'[k] \in JobRow(Seen)
  BY <1>1, <1>2, <1>4
<1>8. job' \in [Jobs -> JobRow(Seen)]
  BY <1>2, <1>7
<1>9. (JobRow(Seen))' = JobRow(Seen)
  BY <1>6 DEF JobRow
<1> QED BY <1>2, <1>4, <1>8, <1>9

(* The rest of the invariant, when job j has taken a step.                 *)
OthersUntouched(j) ==
  \A k \in Jobs \ {j} :
    /\ job'[k] = job[k] /\ tries'[k] = tries[k]
    /\ delayed'[k] = delayed[k] /\ effects'[k] = effects[k]

LEMMA JobSteps ==
  ASSUME AutomationInvariant, NEW j \in Jobs, StoreOK', StoreGrows, OthersUntouched(j),
         JobsTyped', JobOK(j)'
  PROVE  AutomationInvariant'
<1>1. TablesOK /\ JobsTyped /\ \A k \in Jobs : JobOK(k)
  BY DEF AutomationInvariant, StoreOK
<1>2. \A k \in Jobs \ {j} : JobOK(k)'
  BY <1>1, OthersStay DEF OthersUntouched
<1> QED BY <1>2 DEF AutomationInvariant

(* A step that only moves j to another place.                              *)
LEMMA PlaceSteps ==
  ASSUME AutomationInvariant, NEW j \in Jobs, NEW place \in Places,
         job' = [job EXCEPT ![j].pc = place], UNCHANGED <<vars, tries, delayed, effects>>
  PROVE  /\ StoreOK' /\ StoreGrows /\ JobsTyped' /\ OthersUntouched(j)
         /\ job'[j].pc = place /\ KeepsRequest(j)
         /\ JobRemembers(j)'
         /\ JobSpent(j) => JobSpent(j)'
         /\ JobDurable(j) => JobDurable(j)'
         /\ Sent(j) /\ JobOK(j)
<1>1. StoreOK /\ TablesOK /\ JobsTyped /\ JobOK(j)
  BY DEF AutomationInvariant, StoreOK
<1>2. StoreOK' /\ StoreGrows
  BY <1>1, StoreIdles DEF vars
<1>3. /\ (job \in [Jobs -> JobRow(Seen)])' /\ KeepsRequest(j) /\ job'[j].pc = place
      /\ \A k \in Jobs \ {j} : job'[k] = job[k]
  BY <1>1, PlaceChanges
<1>4. JobsTyped'
  BY <1>1, <1>3 DEF JobsTyped
<1>5. OthersUntouched(j)
  BY <1>3 DEF OthersUntouched
<1>6. /\ JobRemembers(j)'
      /\ JobSpent(j) => JobSpent(j)'
      /\ JobDurable(j) => JobDurable(j)'
  BY <1>1, <1>2, <1>3, PartsStay DEF JobOK
<1> QED BY <1>1, <1>2, <1>3, <1>4, <1>5, <1>6 DEF JobOK

LEMMA LaunchKeeps ==
  ASSUME AutomationInvariant, NEW j \in Jobs, Launch(j)
  PROVE  AutomationInvariant'
<1> DEFINE place == IF job[j].op.kind \in {"create", "capture"} THEN "write" ELSE "read"
<1>1. /\ place \in Places /\ job' = [job EXCEPT ![j].pc = place]
      /\ UNCHANGED <<vars, tries, delayed, effects>>
      /\ job[j].pc = "idle"
  BY DEF Launch, Places
<1>2. place \in {"write", "read"}
  OBVIOUS
<1>3. JobsTyped
  BY DEF AutomationInvariant
<1>4. job[j].op.kind \in {"create", "capture", "maintenance", "target", "observe"}
  BY <1>3, JobFields, OperationFields
<1>5. place = "read" => job[j].op.kind \in Conditional
  BY <1>4 DEF Conditional
<1>6. place = "write" => job[j].op.kind \notin Conditional
  BY <1>4 DEF Conditional
<1> HIDE DEF place
<1>7. /\ StoreOK' /\ StoreGrows /\ JobsTyped' /\ OthersUntouched(j)
      /\ job'[j].pc = place /\ KeepsRequest(j) /\ JobRemembers(j)' /\ Sent(j)
  BY <1>1, PlaceSteps
<1>8. tries[j] = 0 /\ effects[j] = 0 /\ job[j].etag = 0 /\ delayed[j] <= tries[j]
  BY <1>1, <1>7 DEF Sent
<1>9. 0 <= Retries /\ 0 <= Retries + 1
  BY AutomationAssumption
<1>10. Sent(j)'
  BY <1>1, <1>2, <1>5, <1>6, <1>7, <1>8, <1>9 DEF Sent, KeepsRequest
<1>11. effects'[j] # 1 /\ job'[j].pc \notin {"reconcile", "done"}
  BY <1>1, <1>2, <1>7, <1>8
<1>12. JobOK(j)'
  BY <1>7, <1>10, <1>11 DEF JobOK
<1> QED BY <1>7, <1>12, JobSteps

(* A read that does not lead to a write.                                   *)
LEMMA JobEnds ==
  ASSUME AutomationInvariant, NEW j \in Jobs, NEW place \in {"failed", "done"},
         job' = [job EXCEPT ![j].pc = place], UNCHANGED <<vars, tries, delayed, effects>>,
         place = "done" => JobDurable(j) /\ (delayed[j] = 0 \/ JobSpent(j))
  PROVE  AutomationInvariant'
<1>1. /\ StoreOK' /\ StoreGrows /\ JobsTyped' /\ OthersUntouched(j)
      /\ job'[j].pc = place /\ KeepsRequest(j) /\ JobRemembers(j)'
      /\ JobSpent(j) => JobSpent(j)'
      /\ JobDurable(j) => JobDurable(j)'
      /\ Sent(j) /\ JobOK(j)
  BY PlaceSteps DEF Places
<1>2. Sent(j)'
  BY <1>1 DEF Sent
<1>3. JobOK(j)'
  BY <1>1, <1>2 DEF JobOK
<1> QED BY <1>1, <1>3, JobSteps

LEMMA ReconcileKeeps ==
  ASSUME AutomationInvariant, NEW j \in Jobs, Reconcile(j)
  PROVE  AutomationInvariant'
<1>1. job[j].pc = "reconcile" /\ UNCHANGED <<vars, tries, delayed, effects>>
  BY DEF Reconcile
<1>2. PICK place \in {"failed", "done"} : job' = [job EXCEPT ![j].pc = place]
  BY DEF Reconcile
<1>3. JobSpent(j)
  BY <1>1 DEF AutomationInvariant, JobOK
<1>4. job[j].op.kind \notin {"capture", "observe"}
  BY <1>1 DEF AutomationInvariant, JobOK, Sent
<1>5. JobDurable(j)
  BY <1>3, <1>4 DEF JobSpent, JobDurable, Spent, Durable
<1> QED BY <1>1, <1>2, <1>3, <1>5, JobEnds

LEMMA UnavailableKeeps ==
  ASSUME AutomationInvariant, NEW j \in Jobs, Unavailable(j)
  PROVE  AutomationInvariant'
BY JobEnds DEF Unavailable

LEMMA ReadKeeps ==
  ASSUME AutomationInvariant, NEW j \in Jobs, Read(j)
  PROVE  AutomationInvariant'
<1> DEFINE op == job[j].op
<1>1. job[j].pc = "read" /\ UNCHANGED <<vars, tries, delayed, effects>>
  BY DEF Read
<1>2. JobsTyped /\ JobOK(j) /\ StoreOK
  BY DEF AutomationInvariant
<1>3. /\ tries[j] = 0 /\ effects[j] = 0 /\ delayed[j] <= tries[j]
      /\ op.kind \in Conditional
  BY <1>1, <1>2 DEF JobOK, Sent
<1>4. delayed[j] = 0
  BY <1>2, <1>3, JobFields
<1>5. CASE ~Readable(op) \/ ~Approved(op)
  <2>1. job' = [job EXCEPT ![j].pc = "failed"]
    BY <1>5 DEF Read
  <2> QED BY <1>1, <2>1, JobEnds
<1>6. CASE Readable(op) /\ Approved(op) /\ op.kind # "observe" /\ Current(op).state = op.state
  <2>1. job' = [job EXCEPT ![j].pc = "done"]
    BY <1>6 DEF Read
  <2>2. JobDurable(j)
    BY <1>3, <1>6 DEF JobDurable, Durable, Conditional
  <2> QED BY <1>1, <1>4, <2>1, <2>2, JobEnds
<1>7. CASE Readable(op) /\ Approved(op) /\ ~(op.kind # "observe" /\ Current(op).state = op.state)
  <2> DEFINE row == [job[j] EXCEPT !.pc = "write", !.etag = Current(op).version, !.seen = Visible(op)]
  <2>1. job \in [Jobs -> JobRow(Seen)] /\ op \in Operations
    BY <1>2, JobFields DEF JobsTyped
  <2>2. job' = [job EXCEPT ![j] = row]
    BY <1>7 DEF Read
  <2>3. Current(op).version \in Nat \ {0}
    BY <1>2, <1>7, <2>1, VersionsAreNumbers DEF StoreOK
  <2>4. /\ row.pc = "write" /\ row.op = op
        /\ row.etag = Current(op).version /\ row.seen = Visible(op)
        /\ row \in JobRow({Visible(op)})
    BY <2>1, <2>3 DEF JobRow, Places
  <2> HIDE DEF row
  <2>5. /\ DOMAIN job' = Jobs /\ job' = [k \in Jobs |-> job'[k]] /\ job'[j] = row
        /\ \A k \in Jobs \ {j} : job'[k] = job[k]
    BY <2>1, <2>2
  <2>6. (job \in [Jobs -> JobRow(Seen)])'
    <3>1. \A k \in Jobs : job'[k] \in JobRow(Seen')
      <4> SUFFICES ASSUME NEW k \in Jobs PROVE job'[k] \in JobRow(Seen')
        OBVIOUS
      <4>1. job'[k].seen \in Seen'
        BY DEF Seen
      <4>2. \E seen : job'[k] \in JobRow(seen)
        BY <2>1, <2>4, <2>5
      <4> QED BY <4>1, <4>2 DEF JobRow
    <3>2. job' \in [Jobs -> JobRow(Seen')]
      BY <2>5, <3>1
    <3> QED BY <3>2 DEF JobRow
  <2>7. JobsTyped'
    BY <1>1, <1>2, <2>6 DEF JobsTyped
  <2>8. StoreOK' /\ StoreGrows
    BY <1>1, <1>2, StoreIdles DEF vars
  <2>9. OthersUntouched(j)
    BY <1>1, <2>5 DEF OthersUntouched
  <2>10. JobRemembers(j)'
    <3>1. PICK o : o = op
      OBVIOUS
    <3>2. job'[j].op = o /\ job'[j].etag = Current(o).version /\ job'[j].seen = Visible(o)
      BY <2>4, <2>5, <3>1
    <3>3. Readable(o)' /\ Current(o)' = Current(o) /\ Visible(o)' = Visible(o)
      BY <1>1, <1>7, <3>1 DEF vars, Readable, Current, Visible, Exists
    <3>4. Current(o).version <= Current(o).version
      BY <2>3, <3>1
    <3>5. Remembers(o, job[j].etag, job[j].seen)'
      BY <1>3, <3>1, <3>2, <3>3, <3>4 DEF Remembers
    <3> QED BY <3>1, <3>2, <3>5 DEF JobRemembers, Remembers, Readable, Current, Visible, Exists
  <2>11. Sent(j)'
    <3>1. 0 <= Retries /\ 0 <= Retries + 1 /\ 0 <= 1
      BY AutomationAssumption
    <3> QED BY <1>1, <1>3, <2>3, <2>4, <2>5, <3>1 DEF Sent
  <2>12. effects'[j] # 1 /\ job'[j].pc = "write"
    BY <1>1, <1>3, <2>4, <2>5
  <2>13. JobOK(j)'
    BY <2>10, <2>11, <2>12 DEF JobOK
  <2> QED BY <2>7, <2>8, <2>9, <2>13, JobSteps
<1> QED BY <1>5, <1>6, <1>7

-----------------------------------------------------------------------------
(* One request is processed, in time or late.                              *)

Committed(j) ==
  /\ Outcome(j) = "ok" /\ ~JobSpent(j) /\ JobSpent(j)' /\ JobDurable(j)'
  /\ effects[j] = 0 /\ effects'[j] = 1

LEMMA HandleFacts ==
  ASSUME AutomationInvariant, NEW j \in Jobs, Handle(j), KeepsRequest(j)
  PROVE  /\ StoreOK' /\ StoreGrows
         /\ effects' \in [Jobs -> Nat] /\ \A k \in Jobs \ {j} : effects'[k] = effects[k]
         /\ JobRemembers(j)'
         /\ JobSpent(j) => JobSpent(j)'
         /\ JobDurable(j) => JobDurable(j)'
         /\ Committed(j) \/ (Outcome(j) # "ok" /\ effects' = effects)
<1>1. StoreOK /\ TablesOK /\ JobsTyped /\ JobOK(j)
  BY DEF AutomationInvariant, StoreOK
<1>2. effects \in [Jobs -> Nat]
  BY <1>1 DEF JobsTyped
<1>3. CASE Commit(j) /\ effects' = [effects EXCEPT ![j] = @ + 1]
  <2>1. StoreOK' /\ StoreGrows
    BY <1>1, <1>3, CommitGrows
  <2>2. ~JobSpent(j) /\ JobSpent(j)' /\ JobDurable(j)' /\ Outcome(j) = "ok"
    BY <1>1, <1>3, <2>1, CommitSpends
  <2>3. effects[j] # 1 /\ effects[j] <= 1
    BY <1>1, <2>2 DEF JobOK, Sent
  <2>4. effects[j] = 0
    BY <1>2, <2>3
  <2>5. /\ effects' \in [Jobs -> Nat] /\ \A k \in Jobs \ {j} : effects'[k] = effects[k]
        /\ effects'[j] = 1
    BY <1>2, <1>3, <2>4
  <2>6. Committed(j)
    BY <2>2, <2>4, <2>5 DEF Committed
  <2> QED BY <1>1, <2>1, <2>5, <2>6, PartsStay DEF JobOK
<1>4. CASE Outcome(j) # "ok" /\ UNCHANGED <<vars, effects>>
  <2>1. StoreOK' /\ StoreGrows
    BY <1>1, <1>4, StoreIdles DEF vars
  <2> QED BY <1>1, <1>2, <1>4, <2>1, PartsStay DEF JobOK
<1> QED BY <1>3, <1>4 DEF Handle

LEMMA WriteKeeps ==
  ASSUME AutomationInvariant, NEW j \in Jobs, Write(j)
  PROVE  AutomationInvariant'
<1>1. StoreOK /\ TablesOK /\ JobsTyped /\ JobOK(j)
  BY DEF AutomationInvariant, StoreOK
<1>2. job[j].pc = "write" /\ Handle(j) /\ UNCHANGED <<tries, delayed>>
  BY DEF Write
<1> DEFINE place == AfterWrite(job[j].op, Outcome(j))
<1>3. job' = [job EXCEPT ![j].pc = place] /\ place \in {"done", "reconcile", "failed"}
  BY DEF Write, AfterWrite
<1>4. /\ (job \in [Jobs -> JobRow(Seen)])' /\ KeepsRequest(j) /\ job'[j].pc = place
      /\ \A k \in Jobs \ {j} : job'[k] = job[k]
  BY <1>1, <1>3, PlaceChanges DEF Places
<1>5. /\ StoreOK' /\ StoreGrows
      /\ effects' \in [Jobs -> Nat] /\ \A k \in Jobs \ {j} : effects'[k] = effects[k]
      /\ JobRemembers(j)'
      /\ JobSpent(j) => JobSpent(j)'
      /\ JobDurable(j) => JobDurable(j)'
      /\ Committed(j) \/ (Outcome(j) # "ok" /\ effects' = effects)
  BY <1>2, <1>4, HandleFacts
<1>6. JobsTyped'
  BY <1>1, <1>2, <1>4, <1>5 DEF JobsTyped
<1>7. OthersUntouched(j)
  BY <1>2, <1>4, <1>5 DEF OthersUntouched
<1>8. Sent(j) /\ (job[j].op.kind \in Conditional => job[j].etag # 0)
  BY <1>1, <1>2 DEF JobOK, Sent
<1>9. place = "reconcile" =>
        \/ Outcome(j) = "conflict" /\ job[j].op.kind = "create"
        \/ /\ Outcome(j) = "version_conflict" /\ job[j].op.kind \in {"maintenance", "target"}
           /\ job[j].etag # 0
  BY <1>8 DEF AfterWrite, Conditional
<1>10. place = "done" => Outcome(j) \in {"ok", "repeated"}
  BY DEF AfterWrite
<1>11. Outcome(j) = "ok" => place = "done"
  BY DEF AfterWrite
<1> HIDE DEF place
<1>12. place = "reconcile" => JobSpent(j)
  BY <1>1, <1>9, ConflictIsSpent DEF JobOK
<1>13. Outcome(j) = "repeated" => JobSpent(j) /\ JobDurable(j)
  BY <1>1, JobFields, OperationFields, RepeatedIsDone
<1>14. Sent(j)'
  <2>1. place = "reconcile" => job[j].op.kind \notin {"capture", "observe"}
    BY <1>9
  <2>2. effects'[j] <= 1
    BY <1>5, <1>8 DEF Committed, Sent
  <2> QED BY <1>2, <1>3, <1>4, <1>8, <2>1, <2>2 DEF Sent, KeepsRequest
<1>15. effects'[j] = 1 \/ job'[j].pc = "reconcile" => JobSpent(j)'
  BY <1>1, <1>4, <1>5, <1>12 DEF JobOK, Committed
<1>16. job'[j].pc = "done" => JobDurable(j)' /\ JobSpent(j)'
  BY <1>4, <1>5, <1>10, <1>13 DEF Committed
<1>17. JobOK(j)'
  BY <1>5, <1>14, <1>15, <1>16 DEF JobOK
<1> QED BY <1>5, <1>6, <1>7, <1>17, JobSteps

LEMMA Counting ==
  ASSUME NEW t \in Nat, NEW d \in Nat, d <= t, NEW r \in Nat
  PROVE  /\ t + 1 \in Nat /\ d + 1 \in Nat /\ d + 1 <= t + 1
         /\ t <= r => t + 1 <= r + 1
         /\ t < r => t + 1 <= r
         /\ d > 0 => d - 1 \in Nat /\ d - 1 <= t /\ d # 0
OBVIOUS

LEMMA UnansweredKeeps ==
  ASSUME AutomationInvariant, NEW j \in Jobs, Unanswered(j)
  PROVE  AutomationInvariant'
<1>1. StoreOK /\ TablesOK /\ JobsTyped /\ JobOK(j) /\ Sent(j)
  BY DEF AutomationInvariant, StoreOK, JobOK
<1>2. job[j].pc = "write" /\ UNCHANGED <<vars, effects>>
  BY DEF Unanswered
<1> DEFINE place == IF tries[j] < Retries THEN "write" ELSE "failed"
<1>3. job' = [job EXCEPT ![j].pc = place] /\ place \in {"write", "failed"}
  BY DEF Unanswered
<1>4. /\ (job \in [Jobs -> JobRow(Seen)])' /\ KeepsRequest(j) /\ job'[j].pc = place
      /\ \A k \in Jobs \ {j} : job'[k] = job[k]
  BY <1>1, <1>3, PlaceChanges DEF Places
<1>5. StoreOK' /\ StoreGrows
  BY <1>1, <1>2, StoreIdles DEF vars
<1>6. /\ tries \in [Jobs -> Nat] /\ delayed \in [Jobs -> Nat]
      /\ tries[j] <= Retries /\ delayed[j] <= tries[j] /\ Retries \in Nat
  BY <1>1, <1>2, AutomationAssumption DEF JobsTyped, Sent
<1>7. /\ tries' \in [Jobs -> Nat] /\ delayed' \in [Jobs -> Nat]
      /\ tries'[j] = tries[j] + 1 /\ delayed'[j] = delayed[j] + 1
      /\ \A k \in Jobs \ {j} : tries'[k] = tries[k] /\ delayed'[k] = delayed[k]
  BY <1>6 DEF Unanswered
<1>8. /\ delayed'[j] <= tries'[j] /\ tries'[j] <= Retries + 1
      /\ place = "write" => tries'[j] <= Retries
  BY <1>6, <1>7, Counting
<1> HIDE DEF place
<1>9. JobsTyped'
  BY <1>1, <1>2, <1>4, <1>7 DEF JobsTyped
<1>10. OthersUntouched(j)
  BY <1>2, <1>4, <1>7 DEF OthersUntouched
<1>11. Sent(j)'
  BY <1>1, <1>2, <1>3, <1>4, <1>8 DEF Sent, KeepsRequest
<1>12. JobRemembers(j)' /\ (JobSpent(j) => JobSpent(j)')
  BY <1>1, <1>4, <1>5, PartsStay DEF JobOK
<1>13. JobOK(j)'
  BY <1>1, <1>2, <1>3, <1>4, <1>11, <1>12 DEF JobOK
<1> QED BY <1>5, <1>9, <1>10, <1>13, JobSteps

LEMMA LateDeliveryKeeps ==
  ASSUME AutomationInvariant, NEW j \in Jobs, LateDelivery(j)
  PROVE  AutomationInvariant' /\ (job[j].pc = "done" => effects' = effects)
<1>1. StoreOK /\ TablesOK /\ JobsTyped /\ JobOK(j) /\ Sent(j)
  BY DEF AutomationInvariant, StoreOK, JobOK
<1>2. delayed[j] > 0 /\ Handle(j) /\ UNCHANGED <<job, tries>>
  BY DEF LateDelivery
<1>3. KeepsRequest(j)
  BY <1>2 DEF KeepsRequest
<1>4. /\ StoreOK' /\ StoreGrows
      /\ effects' \in [Jobs -> Nat] /\ \A k \in Jobs \ {j} : effects'[k] = effects[k]
      /\ JobRemembers(j)'
      /\ JobSpent(j) => JobSpent(j)'
      /\ JobDurable(j) => JobDurable(j)'
      /\ Committed(j) \/ (Outcome(j) # "ok" /\ effects' = effects)
  BY <1>2, <1>3, HandleFacts
<1>5. /\ tries \in [Jobs -> Nat] /\ delayed \in [Jobs -> Nat]
      /\ delayed[j] <= tries[j]
  BY <1>1 DEF JobsTyped, Sent
<1>6. /\ delayed[j] - 1 \in Nat /\ delayed[j] - 1 <= tries[j] /\ delayed[j] # 0 /\ tries[j] # 0
  BY <1>2, <1>5
<1>7. /\ delayed' \in [Jobs -> Nat] /\ delayed'[j] = delayed[j] - 1
      /\ \A k \in Jobs \ {j} : delayed'[k] = delayed[k]
  BY <1>5, <1>6 DEF LateDelivery
<1>8. (job \in [Jobs -> JobRow(Seen)])'
  BY <1>1, <1>2 DEF JobsTyped, JobRow, Seen
<1>9. JobsTyped'
  BY <1>1, <1>2, <1>4, <1>7, <1>8 DEF JobsTyped
<1>10. OthersUntouched(j)
  BY <1>2, <1>4, <1>7 DEF OthersUntouched
<1>11. Sent(j)'
  <2>1. effects'[j] <= 1
    BY <1>1, <1>4 DEF Committed, Sent
  <2>2. job[j].pc \notin {"idle", "read"}
    BY <1>1, <1>6 DEF Sent
  <2> QED BY <1>1, <1>2, <1>6, <1>7, <2>1, <2>2 DEF Sent
<1>12. job[j].pc \in {"reconcile", "done"} => JobSpent(j)
  BY <1>1, <1>6 DEF JobOK
<1>13. effects'[j] = 1 \/ job'[j].pc = "reconcile" => JobSpent(j)'
  BY <1>1, <1>2, <1>4, <1>12 DEF JobOK, Committed
<1>14. job'[j].pc = "done" => JobDurable(j)' /\ JobSpent(j)'
  BY <1>1, <1>2, <1>4, <1>12 DEF JobOK
<1>15. JobOK(j)'
  BY <1>4, <1>11, <1>13, <1>14 DEF JobOK
<1>16. job[j].pc = "done" => effects' = effects
  BY <1>4, <1>12 DEF Committed
<1> QED BY <1>4, <1>9, <1>10, <1>15, <1>16, JobSteps

LEMMA AllJobsStay ==
  ASSUME AutomationInvariant, StoreOK', StoreGrows, UNCHANGED <<job, tries, delayed, effects>>
  PROVE  AutomationInvariant'
<1>1. TablesOK /\ JobsTyped /\ \A k \in Jobs : JobOK(k)
  BY DEF AutomationInvariant, StoreOK
<1>2. \A k \in Jobs : JobOK(k)'
  BY <1>1, OthersStay
<1>3. JobsTyped'
  BY <1>1 DEF JobsTyped, JobRow, Seen
<1> QED BY <1>2, <1>3 DEF AutomationInvariant

-----------------------------------------------------------------------------
LEMMA AutomationInit == AInit => AutomationInvariant
<1> SUFFICES ASSUME AInit PROVE AutomationInvariant
  OBVIOUS
<1>1. StoreOK
  <2>1. StoreInvariant
    BY InvariantInit DEF AInit
  <2> QED BY <2>1, InvariantByRun DEF TypeOK, StoreOK
<1>2. /\ job \in [Jobs -> [pc : {"idle"}, op : Operations, etag : {0}, seen : {<<>>}]]
      /\ tries = [j \in Jobs |-> 0] /\ delayed = [j \in Jobs |-> 0]
      /\ effects = [j \in Jobs |-> 0]
  BY DEF AInit
<1>3. \A j \in Jobs : /\ job[j] \in [pc : {"idle"}, op : Operations, etag : {0}, seen : {<<>>}]
                      /\ job[j].pc = "idle" /\ job[j].etag = 0 /\ job[j].seen \in Seen
                      /\ job[j].op \in Operations
  BY <1>2 DEF Seen
<1>4. \A j \in Jobs : job[j] \in JobRow(Seen)
  BY <1>3 DEF JobRow, Places
<1>5. JobsTyped
  BY <1>2, <1>4 DEF JobsTyped
<1>6. ASSUME NEW j \in Jobs PROVE JobOK(j)
  <2>1. 0 <= 0 /\ 0 <= Retries + 1 /\ 0 <= 1
    BY AutomationAssumption
  <2>2. Sent(j)
    BY <1>2, <1>3, <2>1 DEF Sent
  <2>3. JobRemembers(j)
    BY <1>3 DEF JobRemembers, Remembers
  <2> QED BY <1>2, <1>3, <2>2, <2>3 DEF JobOK
<1> QED BY <1>1, <1>5, <1>6 DEF AutomationInvariant

LEMMA AutomationStep == AutomationInvariant /\ [ANext]_avars => AutomationInvariant'
<1> SUFFICES ASSUME AutomationInvariant, [ANext]_avars PROVE AutomationInvariant'
  OBVIOUS
<1>1. StoreOK
  BY DEF AutomationInvariant
<1>2. CASE OtherClient
  <2>1. StoreOK' /\ StoreGrows
    BY <1>1, <1>2, OtherClientGrows
  <2>2. UNCHANGED <<job, tries, delayed, effects>>
    BY <1>2 DEF OtherClient
  <2> QED BY <2>1, <2>2, AllJobsStay
<1>3. CASE UNCHANGED avars
  <2>1. UNCHANGED <<vars, job, tries, delayed, effects>>
    BY <1>3 DEF avars
  <2>2. StoreOK' /\ StoreGrows
    BY <1>1, <2>1, StoreIdles DEF vars
  <2> QED BY <2>1, <2>2, AllJobsStay
<1> QED
  BY <1>2, <1>3, LaunchKeeps, ReadKeeps, WriteKeeps, UnansweredKeeps, LateDeliveryKeeps,
     ReconcileKeeps, UnavailableKeeps DEF ANext

(* Every job is in a state that its operation and the store allow, and a   *)
(* request that had its effect is one that the handlers will refuse.       *)
THEOREM AutomationCorrect == ASpec => []AutomationInvariant
<1> QED BY AutomationInit, AutomationStep, PTL DEF ASpec

(* The playbooks' retries stay within their bound, and there are no more   *)
(* late copies of a request than answers 500 or 503.                       *)
THEOREM AutomationTyped == ASpec => []AutomationTypeOK
<1>1. AutomationInvariant => AutomationTypeOK
  <2> SUFFICES ASSUME AutomationInvariant PROVE AutomationTypeOK
    OBVIOUS
  <2>1. JobsTyped /\ \A j \in Jobs : Sent(j)
    BY DEF AutomationInvariant, JobOK
  <2>2. \A j \in Jobs : tries[j] \in 0..(Retries + 1) /\ delayed[j] \in 0..tries[j]
    <3> SUFFICES ASSUME NEW j \in Jobs
                 PROVE  tries[j] \in 0..(Retries + 1) /\ delayed[j] \in 0..tries[j]
      OBVIOUS
    <3>1. delayed[j] <= tries[j] /\ tries[j] <= Retries + 1
      BY <2>1 DEF Sent
    <3>2. tries[j] \in Nat /\ delayed[j] \in Nat /\ Retries \in Nat
      BY <2>1, JobFields, AutomationAssumption
    <3> QED BY <3>1, <3>2
  <2>3. tries \in [Jobs -> 0..(Retries + 1)]
    BY <2>1, <2>2 DEF JobsTyped
  <2>4. job \in [Jobs -> JobRow(Seen)]
    BY <2>1 DEF JobsTyped
  <2> QED BY <2>2, <2>3, <2>4 DEF AutomationTypeOK, JobRow, Seen, Places
<1> QED BY <1>1, AutomationCorrect, PTL

(* However often a playbook sends a request and however late a copy of it  *)
(* arrives, the handlers commit it at most once, for any number of retries *)
(* and of other clients.                                                   *)
THEOREM AtMostOneEffect == ASpec => []AppliedAtMostOnce
<1>1. AutomationInvariant => AppliedAtMostOnce
  BY DEF AutomationInvariant, JobOK, Sent, AppliedAtMostOnce
<1> QED BY <1>1, AutomationCorrect, PTL

(* As long as the ETag of a job matches, the phase and the target states   *)
(* are those that the job read: versions identify states.                  *)
THEOREM ETagsIdentify == ASpec => []ETagIdentifiesState
<1>1. AutomationInvariant => ETagIdentifiesState
  BY DEF AutomationInvariant, JobOK, JobRemembers, Remembers, ETagIdentifiesState
<1> QED BY <1>1, AutomationCorrect, PTL

(* What a playbook reported as done is in the database and stays there.    *)
THEOREM DoneStaysDone == ASpec => []DoneIsDurable
<1>1. AutomationInvariant => DoneIsDurable
  BY DEF AutomationInvariant, JobOK, JobDurable, Durable, DoneIsDurable
<1> QED BY <1>1, AutomationCorrect, PTL

(* No copy of a request that arrives after the job reported its success    *)
(* changes anything.                                                       *)
THEOREM LateCopiesAreRefused == ASpec => DoneJobsHaveNoLateEffect
<1> DEFINE Quietly == \A j \in Jobs : job[j].pc = "done" => effects'[j] = effects[j]
<1>1. AutomationInvariant /\ [ANext]_avars => [Quietly]_avars
  <2> SUFFICES ASSUME AutomationInvariant, ANext, NEW j \in Jobs, job[j].pc = "done"
               PROVE  effects'[j] = effects[j]
    OBVIOUS
  <2>1. effects \in [Jobs -> Nat]
    BY DEF AutomationInvariant, JobsTyped
  <2>2. CASE OtherClient
    BY <2>2 DEF OtherClient
  <2>3. ASSUME NEW k \in Jobs, Launch(k) \/ Read(k) \/ Unanswered(k) \/ Reconcile(k) \/ Unavailable(k)
        PROVE  effects'[j] = effects[j]
    BY <2>3 DEF Launch, Read, Unanswered, Reconcile, Unavailable
  <2>4. ASSUME NEW k \in Jobs, Write(k)
        PROVE  effects'[j] = effects[j]
    <3>1. k # j
      BY <2>4 DEF Write
    <3> QED BY <2>1, <2>4, <3>1 DEF Write, Handle
  <2>5. ASSUME NEW k \in Jobs, LateDelivery(k)
        PROVE  effects'[j] = effects[j]
    <3>1. CASE k = j
      BY <2>5, <3>1, LateDeliveryKeeps
    <3>2. CASE k # j
      BY <2>1, <2>5, <3>2 DEF LateDelivery, Handle
    <3> QED BY <3>1, <3>2
  <2> QED BY <2>2, <2>3, <2>4, <2>5 DEF ANext
<1> QED BY <1>1, AutomationCorrect, PTL DEF ASpec, DoneJobsHaveNoLateEffect

-----------------------------------------------------------------------------
(***************************************************************************)
(* The administrator of Recovery.  The inductive invariant is the store's, *)
(* which holds whoever writes, and one fact more.                          *)
(***************************************************************************)

(* A journal with a 'target.transitioned' event is one of a run that has   *)
(* targets.                                                                *)
ExercisedHasTargets ==
  \A id \in MaintenanceIDs : id \in exercised => DOMAIN targets[id] # {}

RecoveryInvariant == StoreInvariant /\ ExercisedHasTargets

(* What TransitionMaintenance keeps, whoever calls it.                     *)
LEMMA RunWriteKeeps ==
  ASSUME RecoveryInvariant, NEW id \in MaintenanceIDs,
         NEW change, NEW precondition, NEW role,
         TransitionMaintenance(id, change, precondition, role)
  PROVE  RecoveryInvariant'
<1>0. TypeOK /\ TablesOK /\ LockExclusive /\ RunInvariant /\ ExercisedHasTargets
  BY InvariantByRun DEF TypeOK, RecoveryInvariant
<1>1. LockExclusive' /\ RunInvariant'
  BY <1>0, TransitionLocks, TransitionRun
<1>2. TypeOK'
  <2>1. TablesOK'
    BY <1>0, TransitionMaintenanceType
  <2> QED BY <1>0, <2>1 DEF TypeOK, TransitionMaintenance
<1>3. ExercisedHasTargets'
  <2> SUFFICES ASSUME NEW r \in MaintenanceIDs, (r \in exercised)'
               PROVE  DOMAIN targets'[r] # {}
    BY DEF ExercisedHasTargets
  <2>1. exercised' = exercised /\ DOMAIN targets'[r] = DOMAIN targets[r]
    BY <1>0, TransitionFacts
  <2> QED BY <1>0, <2>1 DEF ExercisedHasTargets
<1>4. TypeOK' /\ LockExclusive' /\ RunInvariant' => StoreInvariant'
  BY InvariantByRun, PTL
<1> QED BY <1>1, <1>2, <1>3, <1>4 DEF RecoveryInvariant

LEMMA TargetWriteKeeps ==
  ASSUME RecoveryInvariant, NEW id \in MaintenanceIDs,
         NEW t, NEW change, NEW precondition, NEW role,
         TransitionTarget(id, t, change, precondition, role)
  PROVE  RecoveryInvariant'
<1>0. TypeOK /\ TablesOK /\ LockExclusive /\ RunInvariant /\ ExercisedHasTargets
  BY InvariantByRun DEF TypeOK, RecoveryInvariant
<1>1. LockExclusive' /\ RunInvariant'
  BY <1>0, TargetLocks, TargetRun
<1>2. TypeOK'
  <2>1. TablesOK'
    BY <1>0, TransitionTargetType
  <2> QED BY <1>0, <2>1 DEF TypeOK, TransitionTarget
<1>3. ExercisedHasTargets'
  <2> SUFFICES ASSUME NEW r \in MaintenanceIDs, (r \in exercised)'
               PROVE  DOMAIN targets'[r] # {}
    BY DEF ExercisedHasTargets
  <2>1. DOMAIN targets'[r] = DOMAIN targets[r]
    BY <1>0, TransitionTargetFacts
  <2>2. r \in exercised \/ r = id
    BY DEF TransitionTarget
  <2>3. t \in DOMAIN targets[id]
    BY TargetGuard DEF TransitionTarget
  <2> QED BY <1>0, <2>1, <2>2, <2>3 DEF ExercisedHasTargets
<1>4. TypeOK' /\ LockExclusive' /\ RunInvariant' => StoreInvariant'
  BY InvariantByRun, PTL
<1> QED BY <1>1, <1>2, <1>3, <1>4 DEF RecoveryInvariant

LEMMA OthersKeep ==
  ASSUME RecoveryInvariant, Next PROVE RecoveryInvariant'
<1>0. TablesOK /\ RunInvariant /\ ExercisedHasTargets
  BY InvariantByRun DEF TypeOK, RecoveryInvariant
<1>1. StoreInvariant'
  BY InvariantStep DEF RecoveryInvariant
<1>2. ASSUME NEW id \in MaintenanceIDs, CreateMaintenance(id)
      PROVE  ExercisedHasTargets'
  BY <1>0, <1>2 DEF CreateMaintenance, ExercisedHasTargets
<1>3. ASSUME NEW id \in MaintenanceIDs, NEW payload \in CapturePayloads,
             CaptureMaintenance(id, payload)
      PROVE  ExercisedHasTargets'
  <2> SUFFICES ASSUME NEW r \in MaintenanceIDs, (r \in exercised)'
               PROVE  DOMAIN targets'[r] # {}
    BY DEF ExercisedHasTargets
  <2>1. ~HasCapture(id)
    BY <1>3, CaptureGuard DEF CaptureMaintenance
  <2>2. id \notin exercised
    BY <1>0, <2>1 DEF RunInvariant, RunOK
  <2>3. r \in exercised
    BY <1>0, <1>3, CaptureFacts
  <2>4. targets'[r] = targets[r]
    BY <1>0, <1>3, <2>2, <2>3, CaptureFacts
  <2> QED BY <1>0, <2>3, <2>4 DEF ExercisedHasTargets
<1>4. ASSUME NEW id \in MaintenanceIDs, NEW change, NEW precondition, NEW role,
             TransitionMaintenance(id, change, precondition, role)
      PROVE  ExercisedHasTargets'
  BY <1>4, RunWriteKeeps DEF RecoveryInvariant
<1>5. ASSUME NEW id \in MaintenanceIDs, NEW t, NEW change, NEW precondition, NEW role,
             TransitionTarget(id, t, change, precondition, role)
      PROVE  ExercisedHasTargets'
  BY <1>5, TargetWriteKeeps DEF RecoveryInvariant
<1>6. ASSUME UNCHANGED <<targets, exercised>>
      PROVE  ExercisedHasTargets'
  BY <1>0, <1>6 DEF ExercisedHasTargets
<1>7. ExercisedHasTargets'
  BY <1>2, <1>3, <1>4, <1>5, <1>6 DEF Next, AddObservation
<1> QED BY <1>1, <1>7 DEF RecoveryInvariant

(* Each of the administrator's actions is one write of the store.          *)
LEMMA AdministratorWrites ==
  ASSUME NEW id, Administrator(id)
  PROVE  \/ NothingDone(id) /\ MoveRun(id, "cancelled")
         \/ DoesNotGetOn(id) /\ MoveRun(id, "failed")
         \/ maintenance[id].state = "failed" /\ MoveRun(id, ReopenedState(id))
         \/ maintenance[id].state = "starting" /\ \E t \in Unreconciled(id) : Skip(id, t)
         \/ maintenance[id].state = "starting" /\ MoveRun(id, "completed")
BY DEF Administrator, Abandon, RecordFailure, Reopen, WindUp

LEMMA AdministratorKeeps ==
  ASSUME RecoveryInvariant, NEW id \in MaintenanceIDs, Administrator(id)
  PROVE  RecoveryInvariant'
<1>1. ASSUME NEW state, MoveRun(id, state) PROVE RecoveryInvariant'
  <2>1. PICK length \in Justifications :
          TransitionMaintenance(id, [state |-> state, justification |-> length],
                                ReadTag(maintenance[id].version), "admin")
    BY <1>1 DEF MoveRun
  <2> QED BY <2>1, RunWriteKeeps
<1>2. ASSUME NEW t, Skip(id, t) PROVE RecoveryInvariant'
  <2>1. PICK length \in Justifications :
          TransitionTarget(id, t, [state |-> "skipped", justification |-> length],
                           ReadTag(targets[id][t].version), "admin")
    BY <1>2 DEF Skip
  <2> QED BY <2>1, TargetWriteKeeps
<1> QED BY <1>1, <1>2, AdministratorWrites

LEMMA RecoveryStep == RecoveryInvariant /\ [RNext]_rvars => RecoveryInvariant'
<1> SUFFICES ASSUME RecoveryInvariant, [RNext]_rvars PROVE RecoveryInvariant'
  OBVIOUS
<1>1. CASE Others
  BY <1>1, OthersKeep DEF Others
<1>2. ASSUME NEW id \in MaintenanceIDs, Administrator(id) PROVE RecoveryInvariant'
  BY <1>2, AdministratorKeeps
<1>3. CASE UNCHANGED rvars
  <2>1. UNCHANGED vars
    BY <1>3 DEF rvars
  <2>2. StoreInvariant'
    BY <2>1, InvariantStep DEF RecoveryInvariant
  <2> QED BY <2>1, <2>2 DEF vars, RecoveryInvariant, ExercisedHasTargets
<1> QED BY <1>1, <1>2, <1>3 DEF RNext

(* The safety of the store does not depend on who calls it, nor on when.   *)
THEOREM RecoveryCorrect == RSpec => []RecoveryInvariant
<1>1. RInit => RecoveryInvariant
  BY InvariantInit DEF RInit, Init, RecoveryInvariant, ExercisedHasTargets
<1> QED BY <1>1, RecoveryStep, PTL DEF RSpec

-----------------------------------------------------------------------------
(* What the early returns let through.                                     *)

LEMMA ReadTagMatches ==
  ASSUME NEW version PROVE require(ReadTag(version), version) = "ok"
BY DEF require, match, ReadTag

LEMMA RunMoves ==
  ASSUME NEW id \in MaintenanceIDs, NEW state, Exists(id),
         ValidMaintenanceTransition(maintenance[id].state, state),
         \/ /\ maintenance[id].state = "failed"
            /\ HasCapture(id) => state \notin {"new", "completed", "cancelled"}
            /\ ~HasCapture(id) => state = "new"
         \/ ~IsMaintenanceTerminal(maintenance[id].state) /\ state # "captured",
         state = "cancelled" => CancelAllowed(id),
         state # "stopped",
         state = "completed" => validateCompletion(id)
  PROVE  MayMoveRun(id, state)
<1>1. PICK length \in Justifications : validJustification(length)
  BY RecoveryAssumption
<1> DEFINE change == [state |-> state, justification |-> length]
           tag == ReadTag(maintenance[id].version)
<1>2. change.state = state /\ change.justification = length
  OBVIOUS
<1>3. state \in MaintenanceStates
  BY MaintenanceTransitionFacts
<1>4. require(tag, maintenance[id].version) = "ok"
  BY ReadTagMatches
<1> HIDE DEF change, tag
<1>5. maintenance[id].state = "failed" => ReopenOutcome(id, change, "admin") = "ok"
  BY <1>1, <1>2 DEF ReopenOutcome, isAdmin, IsMaintenanceTerminal
<1>6. TransitionMaintenanceOutcome(id, change, tag, "admin") = "ok"
  BY <1>2, <1>3, <1>4, <1>5 DEF TransitionMaintenanceOutcome, IsMaintenanceTerminal
<1> QED BY <1>1, <1>6 DEF MayMoveRun, change, tag

LEMMA TargetSkips ==
  ASSUME TablesOK, NEW id \in MaintenanceIDs, Exists(id),
         ~IsMaintenanceTerminal(maintenance[id].state),
         NEW t \in DOMAIN targets[id], targets[id][t].state \notin {"healthy", "skipped"}
  PROVE  MaySkip(id, t)
<1>1. PICK length \in Justifications : validJustification(length)
  BY RecoveryAssumption
<1> DEFINE change == [state |-> "skipped", justification |-> length]
           tag == ReadTag(targets[id][t].version)
<1>2. change.state = "skipped" /\ change.justification = length
  OBVIOUS
<1>3. require(tag, targets[id][t].version) = "ok"
  BY ReadTagMatches
<1>4. ValidTargetTransition(targets[id][t].state, "skipped")
  <2>1. targets[id][t] \in TargetRow
    BY DEF TablesOK
  <2>2. targets[id][t].state \in TargetStates
    BY <2>1, TargetRowFields
  <2> QED BY <2>2 DEF ValidTargetTransition, TargetStates, targetTransitions
<1>5. "skipped" \in TargetStates
  BY StateSets
<1> HIDE DEF change, tag
<1>6. TransitionTargetOutcome(id, t, change, tag, "admin") = "ok"
  BY <1>1, <1>2, <1>3, <1>4, <1>5 DEF TransitionTargetOutcome, isAdmin
<1> QED BY <1>1, <1>6 DEF MaySkip, change, tag

(* What a run in phase "starting" lacks is a target that can be skipped.   *)
LEMMA UnreconciledSkips ==
  ASSUME RecoveryInvariant, NEW id \in MaintenanceIDs, Exists(id),
         maintenance[id].state = "starting", NEW t \in Unreconciled(id)
  PROVE  MaySkip(id, t)
<1>0. TablesOK /\ RunInvariant
  BY InvariantByRun DEF TypeOK, RecoveryInvariant
<1>1. /\ t \in DOMAIN targets[id]
      /\ ~targetCompletionAllowed(targets[id][t].original_state, targets[id][t].state)
  BY DEF Unreconciled
<1>2. targets[id][t].state # "healthy"
  <2>1. targets[id][t] \in TargetRow
    BY <1>0, <1>1 DEF TablesOK
  <2>2. targets[id][t].original_state \in OriginalStates
    BY <2>1, TargetRowFields
  <2>3. targets[id][t].original_state # "running" => Untouched(targets[id][t])
    BY <1>0, <1>1 DEF RunInvariant, RunOK
  <2> QED BY <1>1, <2>2, <2>3 DEF Untouched, InitialTargetState, targetCompletionAllowed
<1>3. targets[id][t].state # "skipped"
  BY <1>1 DEF targetCompletionAllowed
<1>4. ~IsMaintenanceTerminal(maintenance[id].state)
  BY DEF IsMaintenanceTerminal
<1> QED BY <1>0, <1>1, <1>2, <1>3, <1>4, TargetSkips

LEMMA FindsAWayOut ==
  ASSUME RecoveryInvariant, NEW id \in MaintenanceIDs, HoldsLocks(id)
  PROVE  WayOut(id)
<1> DEFINE state == maintenance[id].state
<1>0. TablesOK /\ RunInvariant /\ ExercisedHasTargets
  BY InvariantByRun DEF TypeOK, RecoveryInvariant
<1>1. Exists(id) /\ state \notin {"completed", "cancelled"}
  BY DEF HoldsLocks
<1>2. state \in {"new", "captured", "stopping", "stopped", "waiting", "starting", "failed"}
  <2>1. maintenance[id] \in MaintenanceRow /\ state # ""
    BY <1>0, <1>1 DEF TablesOK, Exists
  <2>2. state \in MaintenanceStates
    BY <2>1, MaintenanceRowFields
  <2> QED BY <1>1, <2>2, StateSets
<1> HIDE DEF state
<1>3. CASE NothingDone(id)
  <2>1. ValidMaintenanceTransition(state, "cancelled")
    BY <1>3 DEF NothingDone, ValidMaintenanceTransition, maintenanceTransitions, state
  <2>2. ~IsMaintenanceTerminal(state)
    BY <1>3 DEF NothingDone, IsMaintenanceTerminal, state
  <2>3. CancelAllowed(id)
    BY <1>3 DEF NothingDone, CancelAllowed
  <2>4. MayMoveRun(id, "cancelled")
    BY <1>1, <2>1, <2>2, <2>3, RunMoves DEF state
  <2> QED BY <1>3, <2>4 DEF WayOut
<1>4. CASE DoesNotGetOn(id)
  <2>1. state \in {"captured", "stopping", "stopped", "waiting", "starting"}
    BY <1>4 DEF DoesNotGetOn, state
  <2>2. ValidMaintenanceTransition(state, "failed") /\ ~IsMaintenanceTerminal(state)
    BY <2>1 DEF ValidMaintenanceTransition, maintenanceTransitions, IsMaintenanceTerminal
  <2>3. MayMoveRun(id, "failed")
    BY <1>1, <2>2, RunMoves DEF state
  <2> QED BY <1>4, <2>3 DEF WayOut
<1>5. CASE state = "failed"
  <2>1. ValidMaintenanceTransition(state, ReopenedState(id))
    BY <1>5 DEF ReopenedState, ValidMaintenanceTransition, maintenanceTransitions
  <2>2. /\ HasCapture(id) => ReopenedState(id) \in {"starting", "captured"}
        /\ ~HasCapture(id) => ReopenedState(id) = "new"
    BY DEF ReopenedState
  <2>3. MayMoveRun(id, ReopenedState(id))
    BY <1>1, <1>5, <2>1, <2>2, RunMoves DEF state
  <2> QED BY <1>5, <2>3 DEF WayOut, state
<1>6. CASE state = "starting" /\ DOMAIN targets[id] # {}
  <2>1. CASE Unreconciled(id) # {}
    BY <1>1, <1>6, <2>1, UnreconciledSkips DEF WayOut, state
  <2>2. CASE Unreconciled(id) = {}
    <3>1. HasCapture(id)
      BY <1>0, <1>6 DEF RunInvariant, RunOK
    <3>2. validateCompletion(id)
      BY <1>6, <2>2, <3>1 DEF validateCompletion, Unreconciled
    <3>3. ValidMaintenanceTransition(state, "completed") /\ ~IsMaintenanceTerminal(state)
      BY <1>6 DEF ValidMaintenanceTransition, maintenanceTransitions, IsMaintenanceTerminal
    <3>4. MayMoveRun(id, "completed")
      BY <1>1, <3>2, <3>3, RunMoves DEF state
    <3> QED BY <1>6, <2>2, <3>4 DEF WayOut, state
  <2> QED BY <2>1, <2>2
<1>7. state = "new" => NothingDone(id)
  BY <1>0 DEF RunInvariant, RunOK, NothingDone, state
<1> QED BY <1>2, <1>3, <1>4, <1>5, <1>6, <1>7 DEF NothingDone, DoesNotGetOn, state

(* Whatever was written before, TransitionMaintenance or TransitionTarget  *)
(* takes the administrator's next write: no run is stuck with its locks.   *)
THEOREM WayOutExists == RSpec => []AlwaysAWayOut
<1>1. RecoveryInvariant => AlwaysAWayOut
  BY FindsAWayOut DEF AlwaysAWayOut
<1> QED BY <1>1, RecoveryCorrect, PTL

-----------------------------------------------------------------------------
(* The administrator's writes get the run nearer to its end.               *)

(* What an accepted move of the administrator does to the run.             *)
LEMMA MoveRunFacts ==
  ASSUME RecoveryInvariant, NEW id \in MaintenanceIDs, NEW state, MoveRun(id, state)
  PROVE  /\ HoldsLocks(id)
         /\ Exists(id)'
         /\ maintenance'[id].state = state
         /\ DOMAIN targets'[id] = DOMAIN targets[id]
         /\ exercised' = exercised
         /\ state = "completed" => DOMAIN targets[id] # {}
<1>0. TablesOK /\ TablesOK'
  <2>1. TablesOK
    BY DEF RecoveryInvariant, StoreInvariant, TypeOK
  <2>2. PICK length \in Justifications :
          TransitionMaintenance(id, [state |-> state, justification |-> length],
                                ReadTag(maintenance[id].version), "admin")
    BY DEF MoveRun
  <2> QED BY <2>1, <2>2, TransitionMaintenanceType
<1>1. PICK length \in Justifications :
        TransitionMaintenance(id, [state |-> state, justification |-> length],
                              ReadTag(maintenance[id].version), "admin")
  BY DEF MoveRun
<1> DEFINE change == [state |-> state, justification |-> length]
<1>2. change.state = state
  OBVIOUS
<1> HIDE DEF change
<1>3. TransitionMaintenance(id, change, ReadTag(maintenance[id].version), "admin")
  BY <1>1 DEF change
<1>4. /\ maintenance'[id].state = state
      /\ maintenance'[id].version = maintenance[id].version + 1
      /\ DOMAIN targets'[id] = DOMAIN targets[id]
      /\ exercised' = exercised
  BY <1>0, <1>2, <1>3, TransitionFacts
<1>5. /\ Exists(id)
      /\ ValidMaintenanceTransition(maintenance[id].state, state)
      /\ state = "completed" => validateCompletion(id)
  BY <1>2, <1>3, TransitionGuard DEF TransitionMaintenance
<1>6. maintenance[id].state \notin {"completed", "cancelled"}
  BY <1>5, MaintenanceTransitionFacts
<1>7. Exists(id)'
  BY <1>0, <1>4, NextVersion DEF Exists
<1> QED BY <1>4, <1>5, <1>6, <1>7 DEF HoldsLocks, validateCompletion

LEMMA MovesGetNearer ==
  ASSUME RecoveryInvariant, NEW id \in MaintenanceIDs, NEW state, MoveRun(id, state),
         \/ NothingDone(id) /\ state = "cancelled"
         \/ DoesNotGetOn(id) /\ state = "failed"
         \/ maintenance[id].state = "failed" /\ state = ReopenedState(id)
         \/ maintenance[id].state = "starting" /\ state = "completed"
  PROVE  Stage(id)' < Stage(id)
<1>0. /\ HoldsLocks(id) /\ Exists(id)'
      /\ maintenance'[id].state = state
      /\ DOMAIN targets'[id] = DOMAIN targets[id]
      /\ exercised' = exercised
      /\ state = "completed" => DOMAIN targets[id] # {}
  BY MoveRunFacts
<1>1. CASE state \in {"cancelled", "completed"}
  <2>1. Stage(id)' = 0
    BY <1>0, <1>1 DEF Stage, HoldsLocks
  <2>2. ReopenedState(id) \in {"new", "captured", "starting"}
    BY DEF ReopenedState
  <2>3. \/ NothingDone(id)
        \/ maintenance[id].state = "starting" /\ DOMAIN targets[id] # {}
    BY <1>0, <1>1, <2>2
  <2>4. Stage(id) = 1
    BY <1>0, <2>3 DEF Stage
  <2> QED BY <2>1, <2>4
<1>2. CASE DoesNotGetOn(id) /\ state = "failed"
  <2>1. Stage(id)' = 2
    BY <1>0, <1>2 DEF Stage, HoldsLocks, NothingDone
  <2>2. Stage(id) = 3
    BY <1>0, <1>2 DEF Stage, DoesNotGetOn, NothingDone
  <2> QED BY <2>1, <2>2
<1>3. CASE maintenance[id].state = "failed" /\ state = ReopenedState(id)
  <2>1. HoldsLocks(id)'
    BY <1>0, <1>3 DEF HoldsLocks, ReopenedState
  <2>2. ~HasCapture(id) => id \notin exercised
    BY InvariantByRun DEF RecoveryInvariant, RunInvariant, RunOK
  <2>3. id \in exercised => DOMAIN targets[id] # {}
    BY DEF RecoveryInvariant, ExercisedHasTargets
  <2>4. \/ NothingDone(id)'
        \/ maintenance'[id].state = "starting" /\ DOMAIN targets'[id] # {}
    BY <1>0, <1>3, <2>2, <2>3 DEF ReopenedState, NothingDone
  <2>5. Stage(id)' = 1
    BY <2>1, <2>4 DEF Stage
  <2>6. Stage(id) = 2
    BY <1>0, <1>3 DEF Stage, NothingDone
  <2> QED BY <2>5, <2>6
<1> QED BY <1>1, <1>2, <1>3

LEMMA SkipGetsNearer ==
  ASSUME RecoveryInvariant, NEW id \in MaintenanceIDs, maintenance[id].state = "starting",
         NEW t \in Unreconciled(id), Skip(id, t)
  PROVE  Nearer(id)
<1>0. TablesOK
  BY DEF RecoveryInvariant, StoreInvariant, TypeOK
<1>1. PICK length \in Justifications :
        TransitionTarget(id, t, [state |-> "skipped", justification |-> length],
                         ReadTag(targets[id][t].version), "admin")
  BY DEF Skip
<1> DEFINE change == [state |-> "skipped", justification |-> length]
<1>2. change.state = "skipped"
  OBVIOUS
<1> HIDE DEF change
<1>3. TransitionTarget(id, t, change, ReadTag(targets[id][t].version), "admin")
  BY <1>1 DEF change
<1>4. Exists(id) /\ t \in DOMAIN targets[id]
  BY <1>3, TargetGuard DEF TransitionTarget
<1>5. /\ maintenance'[id].state = "starting"
      /\ maintenance'[id].version = maintenance[id].version + 1
  BY <1>0, <1>3, <1>4, AdvancedRunFacts DEF TransitionTarget, Exists
<1>6. Exists(id)'
  BY <1>0, <1>5, NextVersion DEF Exists
<1>7. /\ DOMAIN targets'[id] = DOMAIN targets[id]
      /\ targets'[id][t].state = "skipped"
      /\ \A u \in DOMAIN targets[id] \ {t} : targets'[id][u] = targets[id][u]
  BY <1>0, <1>2, <1>3, TransitionTargetFacts
<1>8. Stage(id)' = Stage(id)
  <2>1. HoldsLocks(id) /\ HoldsLocks(id)'
    BY <1>4, <1>5, <1>6 DEF HoldsLocks
  <2>2. Stage(id) = 1 /\ Stage(id)' = 1
    BY <1>4, <1>5, <1>7, <2>1 DEF Stage
  <2> QED BY <2>2
<1>9. t \notin Unreconciled(id)'
  BY <1>7 DEF Unreconciled, targetCompletionAllowed
<1>10. Unreconciled(id)' \subseteq Unreconciled(id)
  BY <1>7, <1>9 DEF Unreconciled
<1> QED BY <1>8, <1>9, <1>10 DEF Nearer

(* Each write of the administrator brings the run to an earlier stage or   *)
(* waives one more target, so it is a bounded number of writes from        *)
(* releasing its locks.                                                    *)
THEOREM WritesGetNearer == RSpec => EveryWriteGetsNearer
<1>1. RecoveryInvariant /\ [RNext]_rvars =>
        [\A id \in MaintenanceIDs : Administrator(id) => Nearer(id)]_rvars
  <2> SUFFICES ASSUME RecoveryInvariant, NEW id \in MaintenanceIDs, Administrator(id)
               PROVE  Nearer(id)
    OBVIOUS
  <2>1. ASSUME NEW t \in Unreconciled(id), maintenance[id].state = "starting", Skip(id, t)
        PROVE  Nearer(id)
    BY <2>1, SkipGetsNearer
  <2>2. \/ Nearer(id)
        \/ Stage(id)' < Stage(id)
    BY <2>1, AdministratorWrites, MovesGetNearer
  <2> QED BY <2>2 DEF Nearer
<1> QED BY <1>1, RecoveryCorrect, PTL DEF RSpec, EveryWriteGetsNearer
=============================================================================
