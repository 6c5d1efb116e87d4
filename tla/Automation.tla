------------------------------ MODULE Automation ------------------------------
(***************************************************************************)
(* Automation jobs that write through the API: the playbooks of            *)
(* examples/ansible against the handlers of internal/api.                  *)
(*                                                                         *)
(* A job reads a resource and its ETag, sends one conditional write and    *)
(* repeats the same request when the answer is 500 or 503.  Such an answer *)
(* says nothing about the request: it may have been refused by a draining  *)
(* server, may have committed before its answer was lost, or may still be  *)
(* under way behind a proxy and commit later, even after the job ended.    *)
(* Everyone else who writes (other jobs, administrators) is OtherClient.   *)
(***************************************************************************)
EXTENDS Store

CONSTANTS
  Jobs,        \* the jobs that run a playbook
  Operations,  \* what a job may be launched to do
  Retries      \* `retries' of the uri tasks

(* A playbook run: the resource, what it wants, and its credentials.  The  *)
(* fields a kind does not use are ignored.                                 *)
Operation ==
  [kind : {"create", "capture", "maintenance", "target", "observe"},
   id : MaintenanceIDs, t : TargetIDs, state : MaintenanceStates \cup TargetStates,
   justification : Justifications, role : WriterRoles,
   document : CapturePayloads, observation : ObservationPayloads]

ASSUME AutomationAssumption ==
  /\ Retries \in Nat
  /\ \A op \in Operations : op \in Operation

VARIABLES
  job,      \* job -> its program counter, operation, and what it read
  tries,    \* job -> answers 500 or 503 so far
  delayed,  \* job -> copies of its request that may still be processed
  effects   \* job -> how often its request committed a change (history)

avars == <<vars, job, tries, delayed, effects>>

(* The job's request id is a hash of the job, the resource and the ETag.   *)
RequestID(j) == <<j, job[j].etag>>

IfMatch(j) == [any |-> FALSE, versions |-> {job[j].etag}]

Change(op) == [state |-> op.state, justification |-> op.justification]

AInit ==
  /\ Init
  /\ job \in [Jobs -> [pc : {"idle"}, op : Operations, etag : {0}, seen : {<<>>}]]
  /\ tries = [j \in Jobs |-> 0]
  /\ delayed = [j \in Jobs |-> 0]
  /\ effects = [j \in Jobs |-> 0]

-----------------------------------------------------------------------------
(* The server's side: a handler passes the request to the store and maps   *)
(* the error to a status, which the outcome stands for.                    *)

Outcome(j) ==
  LET op == job[j].op
  IN  IF op.kind = "create" THEN CreateMaintenanceOutcome(op.id)
      ELSE IF op.kind = "capture" THEN CaptureMaintenanceOutcome(op.id, op.document)
      ELSE IF op.kind = "maintenance"
           THEN TransitionMaintenanceOutcome(op.id, Change(op), IfMatch(j), op.role)
      ELSE IF op.kind = "target"
           THEN TransitionTargetOutcome(op.id, op.t, Change(op), IfMatch(j), op.role)
      ELSE AddObservationOutcome(op.id, op.t, RequestID(j), op.observation, IfMatch(j))

Commit(j) ==
  LET op == job[j].op
  IN  \/ op.kind = "create" /\ CreateMaintenance(op.id)
      \/ op.kind = "capture" /\ CaptureMaintenance(op.id, op.document)
      \/ op.kind = "maintenance" /\ TransitionMaintenance(op.id, Change(op), IfMatch(j), op.role)
      \/ op.kind = "target" /\ TransitionTarget(op.id, op.t, Change(op), IfMatch(j), op.role)
      \/ op.kind = "observe" /\
           AddObservation(op.id, op.t, RequestID(j), op.observation, IfMatch(j))

Handle(j) ==
  \/ /\ Commit(j)
     /\ effects' = [effects EXCEPT ![j] = @ + 1]
  \/ /\ Outcome(j) # "ok"
     /\ UNCHANGED <<vars, effects>>

-----------------------------------------------------------------------------
(* The job's side.                                                         *)

(* The state and version a GET returns, with all the job could see of the  *)
(* run: GetMaintenanceAggregate reads the run and its targets in one       *)
(* transaction.  A job that looks at one target depends on that target and *)
(* on the phase that the workflow is in.                                   *)
Current(op) == IF op.kind = "maintenance" THEN maintenance[op.id] ELSE targets[op.id][op.t]

Visible(op) ==
  IF op.kind = "maintenance" THEN <<maintenance[op.id].state, targets[op.id]>>
  ELSE <<maintenance[op.id].state, targets[op.id][op.t].state>>

Readable(op) == Exists(op.id) /\ (op.kind # "maintenance" => op.t \in DOMAIN targets[op.id])

(* maintenance_state.yml and target_state.yml insist on the administrator  *)
(* token and a justification before they reopen a run or skip a target.    *)
Approved(op) ==
  (\/ op.kind = "target" /\ op.state = "skipped"
   \/ op.kind = "maintenance" /\ maintenance[op.id].state = "failed" /\ op.state # "failed")
  => isAdmin(op.role) /\ op.justification > 0

Launch(j) ==
  /\ job[j].pc = "idle"
  /\ job' = [job EXCEPT ![j].pc =
               IF job[j].op.kind \in {"create", "capture"} THEN "write" ELSE "read"]
  /\ UNCHANGED <<vars, tries, delayed, effects>>

Read(j) ==
  LET op == job[j].op
  IN  /\ job[j].pc = "read"
      /\ job' = [job EXCEPT ![j] =
           IF ~Readable(op) \/ ~Approved(op) THEN [@ EXCEPT !.pc = "failed"]
           ELSE IF op.kind # "observe" /\ Current(op).state = op.state
                THEN [@ EXCEPT !.pc = "done"]
           ELSE [@ EXCEPT !.pc = "write", !.etag = Current(op).version, !.seen = Visible(op)]]
      /\ UNCHANGED <<vars, tries, delayed, effects>>

(* What the playbook does with the status of its write.  create.yml looks  *)
(* again after a 409 and the state playbooks after a 412; any other        *)
(* refusal fails the job.                                                  *)
AfterWrite(op, outcome) ==
  IF outcome \in {"ok", "repeated"} THEN "done"
  ELSE IF \/ outcome = "conflict" /\ op.kind = "create"
          \/ outcome = "version_conflict" /\ op.kind \in {"maintenance", "target"}
       THEN "reconcile"
  ELSE "failed"

Write(j) ==
  /\ job[j].pc = "write"
  /\ Handle(j)
  /\ job' = [job EXCEPT ![j].pc = AfterWrite(job[j].op, Outcome(j))]
  /\ UNCHANGED <<tries, delayed>>

(* 500 or 503: the job sends the same request again, or gives up.          *)
Unanswered(j) ==
  /\ job[j].pc = "write"
  /\ tries' = [tries EXCEPT ![j] = @ + 1]
  /\ delayed' = [delayed EXCEPT ![j] = @ + 1]
  /\ job' = [job EXCEPT ![j].pc = IF tries[j] < Retries THEN "write" ELSE "failed"]
  /\ UNCHANGED <<vars, effects>>

(* A request that the job heard nothing good of is processed after all.    *)
LateDelivery(j) ==
  /\ delayed[j] > 0
  /\ Handle(j)
  /\ delayed' = [delayed EXCEPT ![j] = @ - 1]
  /\ UNCHANGED <<job, tries>>

(* The second look: is the resource as wanted?  The change ticket and the  *)
(* workflow version that create.yml compares are not in Store, so its      *)
(* answer may be either.                                                   *)
AsWanted(op) == IF op.kind = "create" THEN BOOLEAN ELSE {Current(op).state = op.state}

Reconcile(j) ==
  /\ job[j].pc = "reconcile"
  /\ \E wanted \in AsWanted(job[j].op) :
       job' = [job EXCEPT ![j].pc = IF wanted THEN "done" ELSE "failed"]
  /\ UNCHANGED <<vars, tries, delayed, effects>>

(* A read that is answered 500 or 503 until its retries are used up.       *)
Unavailable(j) ==
  /\ job[j].pc \in {"read", "reconcile"}
  /\ job' = [job EXCEPT ![j].pc = "failed"]
  /\ UNCHANGED <<vars, tries, delayed, effects>>

(* Anybody else: every write but observations, which affect no job, with   *)
(* the condition `*' that is the hardest on the others.                    *)
OtherClient ==
  /\ \E id \in MaintenanceIDs :
       LET star == [any |-> TRUE, versions |-> {}]
       IN  \/ CreateMaintenance(id)
           \/ \E payload \in CapturePayloads : CaptureMaintenance(id, payload)
           \/ \E change \in StateChange, role \in WriterRoles :
                \/ TransitionMaintenance(id, change, star, role)
                \/ \E t \in TargetIDs : TransitionTarget(id, t, change, star, role)
  /\ UNCHANGED <<job, tries, delayed, effects>>

ANext ==
  \/ OtherClient
  \/ \E j \in Jobs :
       \/ Launch(j) \/ Read(j) \/ Write(j)
       \/ Unanswered(j) \/ LateDelivery(j) \/ Reconcile(j) \/ Unavailable(j)

ASpec == AInit /\ [][ANext]_avars

-----------------------------------------------------------------------------
(* Properties *)

(* Jobs are in a known place and counters stay within the retries.         *)
AutomationTypeOK ==
  /\ job \in [Jobs -> [pc : {"idle", "read", "write", "reconcile", "done", "failed"},
                       op : Operations, etag : Nat,
                       seen : {job[j].seen : j \in Jobs}]]
  /\ tries \in [Jobs -> 0..(Retries + 1)]
  /\ \A j \in Jobs : delayed[j] \in 0..tries[j]

(* However often a request is sent again, and however late a copy of it    *)
(* arrives, it changes the database at most once: by the ETag, by the      *)
(* request id of an observation, by the saved capture, or by the run's id. *)
AppliedAtMostOnce == \A j \in Jobs : effects[j] <= 1

(* A request whose ETag still matches acts on what the job saw: the run is *)
(* in the phase, and the targets in the states, that the job based its     *)
(* decision on.  In particular a late stop or start request never acts in  *)
(* another phase, however the run failed and was reopened in between.      *)
ETagIdentifiesState ==
  \A j \in Jobs :
    job[j].etag # 0 /\ Current(job[j].op).version = job[j].etag =>
      Visible(job[j].op) = job[j].seen

(* What a job reported as done stays done: the run it created exists, the  *)
(* saved capture is the document it sent, its observation is in the        *)
(* journal under its request id.                                           *)
DoneIsDurable ==
  \A j \in Jobs :
    LET op == job[j].op
    IN  job[j].pc = "done" =>
          /\ op.kind = "create" => Exists(op.id)
          /\ op.kind = "capture" => maintenance_captures[op.id] = op.document
          /\ op.kind = "observe" =>
               \E o \in SavedObservations(op.id, op.t, RequestID(j)) : o.payload = op.observation

(* Once a job is done, no late copy of its request changes anything.       *)
DoneJobsHaveNoLateEffect ==
  [][ \A j \in Jobs : job[j].pc = "done" => effects'[j] = effects[j] ]_avars
=============================================================================
