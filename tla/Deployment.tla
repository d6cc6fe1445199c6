------------------------------ MODULE Deployment ------------------------------
(* A deployment of an artifact on the Mac: the node asks the privileged broker
   over a socket, the broker stops the service, moves the active file into a
   rollback slot, installs the artifact, starts it and checks its health, and
   undoes all that when a step fails.

   The process that deploys is the broker of the product (OneShot), which serves
   one request and exits, so its records_ are empty at every request; or it has
   DeploymentService embedded and lives on, with the manual rollback() only such
   a process can offer. *)
EXTENDS SlotStore, Naturals

CONSTANTS
  FirstContent,   \* what is active before the first deployment
  Hosts,          \* what may deploy: "broker", "embedded"
  ReuseIds,       \* the node may submit an id it submitted before
  MaxTimeouts,    \* bound: calls the node gives up
  MaxCrashes      \* bound: deaths of the process that deploys

ASSUME DeploymentAssumption ==
  /\ FirstContent \in Contents
  /\ Hosts \subseteq {"broker", "embedded"} /\ ReuseIds \in BOOLEAN
  /\ MaxTimeouts \in Nat /\ MaxCrashes \in Nat

VARIABLES
  files,       \* the runtime directory
  running,     \* the content the service runs, NoFile when it is stopped
  worker,      \* the deploying process: its place in deploy() or rollback()
  records,     \* DeploymentService::records_
  endpoint,    \* the socket path exists
  call,        \* the node's connection: idle, queued, left, accepted or closed
  ledger,      \* the last deployment the node recorded
  prior,       \* history: what was active when an id's deployment began
  submitted,   \* history: the ids the node has submitted
  faults       \* timeouts and crashes so far

vars == <<files, running, worker, records, endpoint, call, ledger, prior,
          submitted, faults>>

Forward == {"stop", "stage", "copy", "install", "start", "health"}
Undo == {"undo_stop", "quarantine", "restore", "undo_start", "undo_health"}
Status == {"none", "deploying", "active", "rolled_back", "failed"}
NoRecords == [i \in Ids |-> "none"]

OneShot == worker.host = "broker"

TypeOK ==
  /\ files \in Files
  /\ running \in Slot
  /\ worker \in [host: Hosts, pc: Forward \cup Undo \cup {"off", "ready", "reply"},
                 id: Ids, artifact: Contents, status: Status]
  /\ records \in [Ids -> Status]
  /\ endpoint \in BOOLEAN
  /\ call \in [state: {"idle", "queued", "left", "accepted", "closed"}, id: Ids, artifact: Contents]
  /\ ledger \in [id: Ids, artifact: Contents, status: Status]
  /\ prior \in [Ids -> Slot]
  /\ submitted \subseteq Ids
  /\ faults \in [timeouts: Nat, crashes: Nat]

Init ==
  /\ files = InitialFiles(FirstContent)
  /\ running = FirstContent
  /\ worker \in [host: Hosts, pc: {"off"}, id: Ids, artifact: {FirstContent}, status: {"none"}]
  /\ records = NoRecords
  /\ endpoint = FALSE
  /\ call = [state |-> "idle", id |-> worker.id, artifact |-> FirstContent]
  /\ ledger = [id |-> worker.id, artifact |-> FirstContent, status |-> "none"]
  /\ prior = [i \in Ids |-> NoFile]
  /\ submitted = {}
  /\ faults = [timeouts |-> 0, crashes |-> 0]

-----------------------------------------------------------------------------
(* The process and its callers. *)

(* serve_once() binds its socket and refuses a path that exists; the embedded
   service only needs an active file (the backend's constructor). *)
Launch ==
  /\ worker.pc = "off"
  /\ IF OneShot THEN ~endpoint ELSE files.active # NoFile
  /\ worker' = [worker EXCEPT !.pc = "ready"]
  /\ endpoint' = OneShot
  /\ UNCHANGED <<files, running, records, call, ledger, prior, submitted, faults>>

(* An operator removes the socket a dead broker has left. *)
RemoveStaleSocket ==
  /\ worker.pc = "off" /\ endpoint
  /\ endpoint' = FALSE
  /\ UNCHANGED <<files, running, worker, records, call, ledger, prior, submitted, faults>>

(* The node connects: to a busy broker too, which listens with a backlog. *)
NodeCalls(id, artifact) ==
  /\ OneShot /\ call.state = "idle" /\ worker.pc # "off"
  /\ ReuseIds \/ id \notin submitted
  /\ call' = [state |-> "queued", id |-> id, artifact |-> artifact]
  /\ submitted' = submitted \cup {id}
  /\ UNCHANGED <<files, running, worker, records, endpoint, ledger, prior, faults>>

(* SO_RCVTIMEO: the node gives up, the broker goes on.  The request of a call
   nobody has accepted yet stays in the socket. *)
NodeTimesOut ==
  /\ call.state \in {"queued", "accepted"} /\ faults.timeouts < MaxTimeouts
  /\ call' = [call EXCEPT !.state = IF @ = "queued" THEN "left" ELSE "idle"]
  /\ faults' = [faults EXCEPT !.timeouts = @ + 1]
  /\ UNCHANGED <<files, running, worker, records, endpoint, ledger, prior, submitted>>

(* The broker went away, and the connection with it. *)
NodeSeesClose ==
  /\ call.state = "closed"
  /\ call' = [call EXCEPT !.state = "idle"]
  /\ UNCHANGED <<files, running, worker, records, endpoint, ledger, prior, submitted, faults>>

(* deploy() refuses an id it has a record of, which changes nothing. *)
Begin(id, artifact) ==
  /\ records[id] = "none"
  /\ worker' = [worker EXCEPT !.pc = "stop", !.id = id, !.artifact = artifact, !.status = "deploying"]
  /\ prior' = [prior EXCEPT ![id] = files.active]

Closed == [call EXCEPT !.state = IF @ \in {"idle", "left"} THEN "idle" ELSE "closed"]

Exit ==
  /\ worker' = [worker EXCEPT !.pc = "off"]
  /\ records' = NoRecords

(* execute_deployment(): the backend is constructed for this one request. *)
BrokerAccepts ==
  /\ OneShot /\ worker.pc = "ready" /\ call.state \in {"queued", "left"}
  /\ files.active # NoFile
  /\ Begin(call.id, call.artifact)
  /\ call' = [call EXCEPT !.state = IF @ = "queued" THEN "accepted" ELSE "idle"]
  /\ UNCHANGED <<files, running, records, endpoint, ledger, submitted, faults>>

(* The request is refused: the artifact is not the one it names, or there is no
   active file and the backend's constructor throws.  Or the broker has waited
   for accept_timeout. *)
BrokerGivesUp ==
  /\ OneShot /\ worker.pc = "ready"
  /\ Exit
  /\ endpoint' = FALSE
  /\ call' = Closed
  /\ UNCHANGED <<files, running, ledger, prior, submitted, faults>>

Deploy(id, artifact) ==
  /\ ~OneShot /\ worker.pc = "ready"
  /\ Begin(id, artifact)
  /\ UNCHANGED <<files, running, records, endpoint, call, ledger, submitted, faults>>

Rollback(id) ==
  /\ ~OneShot /\ worker.pc = "ready"
  /\ records[id] = "active"
  /\ worker' = [worker EXCEPT !.pc = "undo_stop", !.id = id, !.status = "active"]
  /\ UNCHANGED <<files, running, records, endpoint, call, ledger, prior, submitted, faults>>

-----------------------------------------------------------------------------
(* The steps of deploy() and of its undoing. *)

Goto(pc) == worker' = [worker EXCEPT !.pc = pc] /\ UNCHANGED records

Finish(status) ==
  /\ worker' = [worker EXCEPT !.pc = "reply", !.status = status]
  /\ records' = [records EXCEPT ![worker.id] = status]

(* A step that throws: the first catch starts the undoing, the second one and
   the catch of rollback() give up. *)
FailsRolledBack ==
  IF worker.pc \in Forward THEN Goto("undo_stop") ELSE Finish("rolled_back")

Fails == IF worker.pc \in Forward THEN Goto("undo_stop") ELSE Finish("failed")

UnchangedCallers == UNCHANGED <<endpoint, call, ledger, prior, submitted, faults>>

(* The stop command: it may fail after it has stopped the service. *)
StopIgnoresFailure ==
  /\ \/ /\ worker.pc = "stop" /\ running' \in {running, NoFile} /\ Goto("stage")
     \/ /\ worker.pc = "undo_stop" /\ running' \in {running, NoFile} /\ Goto("quarantine")
  /\ UNCHANGED files /\ UnchangedCallers

StopService ==
  /\ \/ /\ worker.pc = "stop" /\ running' = NoFile /\ Goto("stage")
     \/ /\ worker.pc = "undo_stop" /\ running' = NoFile /\ Goto("quarantine")
     \/ /\ worker.pc \in {"stop", "undo_stop"} /\ running' \in {running, NoFile} /\ Fails
  /\ UNCHANGED files /\ UnchangedCallers

(* A file step: one of its results, and the next step or the failure. *)
FileStep(pc, results, next) ==
  /\ worker.pc = pc
  /\ \E r \in results :
       /\ files' = r.files
       /\ IF r.end = "returned" THEN Goto(next) ELSE Fails
  /\ UNCHANGED running /\ UnchangedCallers

StagePreviousStep == FileStep("stage", StagePrevious(files, worker.id), "copy")
CopyStep == FileStep("copy", CopyArtifact(files, worker.id), "install")
InstallStep == FileStep("install", Install(files, worker.id, worker.artifact), "start")
QuarantineStep == FileStep("quarantine", Quarantine(files, worker.id), "restore")
RestoreStep == FileStep("restore", RestorePrevious(files, worker.id), "undo_start")

(* The start command runs the active file, unless the service still runs; it may
   fail after it has started it. *)
Started == IF running = NoFile THEN files.active ELSE running

StartService ==
  /\ \/ /\ worker.pc = "start" /\ running' = Started /\ Goto("health")
     \/ /\ worker.pc = "undo_start" /\ running' = Started /\ Goto("undo_health")
     \/ /\ worker.pc \in {"start", "undo_start"} /\ running' \in {running, Started} /\ Fails
  /\ UNCHANGED files /\ UnchangedCallers

(* The health command fails as it likes and passes only a running service. *)
CheckHealth ==
  /\ \/ /\ worker.pc = "health" /\ running # NoFile /\ Finish("active")
     \/ /\ worker.pc = "undo_health" /\ running # NoFile /\ Finish("rolled_back")
     \/ /\ worker.pc \in {"health", "undo_health"} /\ Fails
  /\ UNCHANGED <<files, running>> /\ UnchangedCallers

(* rollback() appends its audit event inside the try: when the audit sink
   throws, a completed rollback is recorded as failed. *)
RollbackAuditFails ==
  /\ ~OneShot /\ worker.pc = "undo_health" /\ running # NoFile
  /\ records[worker.id] = "active"
  /\ Finish("failed")
  /\ UNCHANGED <<files, running>> /\ UnchangedCallers

(* execute_deployment(): whatever is neither active nor rolled back failed. *)
WireStatusUndone(status) == IF status = "active" THEN "active" ELSE "rolled_back"

WireStatus(status) == IF status \in {"active", "rolled_back"} THEN status ELSE "failed"

(* The broker answers and exits; the node records the answer if it still waits
   (serve_deployment, record_deployment). *)
BrokerReplies ==
  /\ OneShot /\ worker.pc = "reply"
  /\ Exit
  /\ endpoint' = FALSE
  /\ IF call.state = "accepted"
     THEN /\ call' = [call EXCEPT !.state = "idle"]
          /\ ledger' = [id |-> worker.id, artifact |-> worker.artifact,
                        status |-> WireStatus(worker.status)]
     ELSE call' = Closed /\ UNCHANGED ledger
  /\ UNCHANGED <<files, running, prior, submitted, faults>>

DeployReturns ==
  /\ ~OneShot /\ worker.pc = "reply"
  /\ worker' = [worker EXCEPT !.pc = "ready"]
  /\ UNCHANGED <<files, running, records>> /\ UnchangedCallers

(* The broker dies; the service it manages is another process.  No product
   process embeds the service, so nothing is said of the death of one. *)
Crash ==
  /\ OneShot /\ worker.pc # "off" /\ faults.crashes < MaxCrashes
  /\ Exit
  /\ call' = Closed
  /\ faults' = [faults EXCEPT !.crashes = @ + 1]
  /\ UNCHANGED <<files, running, endpoint, ledger, prior, submitted>>

Steps ==
  \/ StopService \/ StagePreviousStep \/ CopyStep \/ InstallStep \/ StartService
  \/ CheckHealth \/ QuarantineStep \/ RestoreStep \/ RollbackAuditFails

Next ==
  \/ Launch \/ RemoveStaleSocket \/ NodeTimesOut \/ NodeSeesClose
  \/ \E id \in Ids : \/ Rollback(id)
                     \/ \E artifact \in Contents : NodeCalls(id, artifact) \/ Deploy(id, artifact)
  \/ BrokerAccepts \/ BrokerGivesUp
  \/ Steps
  \/ BrokerReplies \/ DeployReturns \/ Crash

Spec == Init /\ [][Next]_vars

-----------------------------------------------------------------------------
(* Properties. *)

(* What "rolled_back" promises: the service runs, from the active path, what
   was active when the deployment began, whichever step failed and however
   (DeploymentStatus::rolled_back). *)
RolledBackRestores ==
  worker.pc = "reply" /\ worker.status = "rolled_back" =>
    files.active = prior[worker.id] /\ running = prior[worker.id]

(* What "active" promises: the artifact is on the active path and the service
   runs it (DeploymentStatus::active). *)
ActiveRuns ==
  worker.pc = "reply" /\ worker.status = "active" =>
    files.active = worker.artifact /\ running = worker.artifact

(* Whatever fails, and wherever the process dies, no file that was ever active
   is overwritten: the guards on the slots (FileDeploymentBackend). *)
NothingLost == [][Kept(files) \subseteq Kept(files')]_vars

(* When there is no active file, the one a deployment took away is in that
   deployment's own rollback slot, where an operator finds it. *)
PriorIsRecoverable ==
  files.active = NoFile =>
    \E id \in Ids : prior[id] # NoFile /\ files.previous[id] = prior[id]

(* The node's record of the last deployment agrees with the machine as long as
   no other deployment began, timeouts and crashes included
   (record_deployment). *)
LedgerAgrees ==
  worker.pc \in {"off", "ready"} /\ worker.id = ledger.id =>
    /\ ledger.status = "active" => files.active = ledger.artifact
    /\ ledger.status = "rolled_back" => files.active = prior[ledger.id]

=============================================================================
