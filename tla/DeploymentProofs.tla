---------------------------- MODULE DeploymentProofs ----------------------------
(* Theorems about Deployment, for any ids, contents and bounds. *)
EXTENDS Deployment, SlotStoreProofs

InFlight == Forward \cup Undo \cup {"reply"}

(* Where the files and the service are at each step.  The undoing may begin
   anywhere, so its first steps know little. *)
PhaseInv ==
  /\ worker.pc \in {"stage", "copy", "install", "start", "quarantine", "restore", "undo_start"} =>
       running = NoFile
  /\ worker.pc \in {"copy", "install", "restore"} => files.active = NoFile
  /\ worker.pc \in {"start", "health"} => files.active = worker.artifact
  /\ worker.pc \in {"health", "undo_health"} => running = files.active
  /\ worker.pc = "reply" /\ worker.status = "active" =>
       files.active = worker.artifact /\ running = worker.artifact

(* The ids a deployment began with, or may: the broker forgets its records, an
   embedded service keeps them. *)
Begun ==
  IF OneShot THEN submitted
  ELSE {i \in Ids : records[i] # "none" \/ (worker.pc \in InFlight /\ worker.id = i)}

(* What a deployment knows of the file it took away, when no id is used twice. *)
PriorInv ==
  /\ OneShot \/ call.state = "idle"
  /\ ~OneShot /\ worker.pc = "reply" => records[worker.id] # "none"
  /\ worker.pc \in InFlight => worker.id \in Begun
  /\ call.state \in {"queued", "left"} =>
       /\ files.previous[call.id] = NoFile
       /\ call.id \in Begun
       /\ worker.pc \in InFlight => worker.id # call.id
  /\ \A i \in Ids : i \notin Begun => files.previous[i] = NoFile
  /\ \A i \in Ids : files.previous[i] # NoFile => files.previous[i] = prior[i]
  /\ files.active = NoFile => \E i \in Ids : files.previous[i] # NoFile
  /\ worker.pc \in {"stop", "stage"} =>
       files.active = prior[worker.id] /\ files.previous[worker.id] = NoFile
  /\ worker.pc \in {"copy", "install", "start", "health", "restore"} =>
       files.previous[worker.id] # NoFile
  /\ worker.pc \in {"undo_start", "undo_health"} => files.active = prior[worker.id]
  /\ RolledBackRestores

(* The node's record is of a deployment that is over and does not begin again. *)
LedgerInv ==
  /\ ledger.status # "none" =>
       /\ OneShot /\ ledger.id \in submitted
       /\ call.state \in {"queued", "left"} => call.id # ledger.id
       /\ worker.pc \in InFlight => worker.id # ledger.id
  /\ LedgerAgrees

-----------------------------------------------------------------------------
(* Every step of deploy() or rollback() goes on, starts to undo, or ends. *)
LEMMA StepEnds ==
  ASSUME TypeOK, files' \in Files, running' \in Slot, UnchangedCallers,
         \/ \E pc \in Forward \cup Undo : Goto(pc)
         \/ Fails
         \/ \E status \in Status : Finish(status)
  PROVE  TypeOK'
<1>1. CASE \E pc \in Forward \cup Undo : Goto(pc)
  BY <1>1 DEF Goto, UnchangedCallers, TypeOK
<1>2. CASE \E status \in Status : Finish(status)
  <2>1. PICK status \in Status : Finish(status)
    BY <1>2
  <2>2. worker' = [worker EXCEPT !.pc = "reply", !.status = status]
    BY <2>1 DEF Finish
  <2>3. records' \in [Ids -> Status]
    BY <2>1 DEF Finish, TypeOK
  <2> QED BY <2>2, <2>3 DEF UnchangedCallers, TypeOK
<1>3. CASE Fails
  <2>1. \/ \E pc \in Forward \cup Undo : Goto(pc)
        \/ \E status \in Status : Finish(status)
    BY <1>3 DEF Fails, Undo, Status
  <2> QED BY <1>1, <1>2, <2>1
<1> QED BY <1>1, <1>2, <1>3

(* The variables keep their types (every handler of Deployment). *)
THEOREM TypeCorrect == Spec => []TypeOK
<1>1. Init => TypeOK
  <2> SUFFICES ASSUME Init PROVE TypeOK
    OBVIOUS
  <2>1. files \in Files /\ running \in Slot /\ prior \in [Ids -> Slot]
    BY DeploymentAssumption DEF Init, InitialFiles, Files, Slot
  <2>2. worker.id \in Ids /\ worker \in [host: Hosts, pc: {"off"}, id: Ids,
                                       artifact: {FirstContent}, status: {"none"}]
    BY DEF Init
  <2> QED
    BY <2>1, <2>2, DeploymentAssumption DEF Init, TypeOK, Status, NoRecords
<1>2. TypeOK /\ [Next]_vars => TypeOK'
  <2> SUFFICES ASSUME TypeOK, [Next]_vars PROVE TypeOK'
    OBVIOUS
  <2>1. CASE UNCHANGED vars
    BY <2>1 DEF vars, TypeOK
  <2>2. CASE Launch
    BY <2>2, DeploymentAssumption DEF Launch, OneShot, TypeOK
  <2>3. CASE RemoveStaleSocket
    BY <2>3 DEF RemoveStaleSocket, TypeOK
  <2>4. CASE NodeTimesOut
    BY <2>4 DEF NodeTimesOut, TypeOK
  <2>5. CASE NodeSeesClose
    BY <2>5 DEF NodeSeesClose, TypeOK
  <2>6. ASSUME NEW id \in Ids, Rollback(id) PROVE TypeOK'
    BY <2>6 DEF Rollback, TypeOK, Status, Undo
  <2>7. ASSUME NEW id \in Ids, NEW artifact \in Contents, NodeCalls(id, artifact)
        PROVE TypeOK'
    BY <2>7 DEF NodeCalls, TypeOK
  <2>8. ASSUME NEW id \in Ids, NEW artifact \in Contents, Deploy(id, artifact)
        PROVE TypeOK'
    BY <2>8 DEF Deploy, Begin, TypeOK, Status, Forward, Files
  <2>9. CASE BrokerAccepts
    BY <2>9 DEF BrokerAccepts, Begin, TypeOK, Status, Forward, Files
  <2>10. CASE BrokerGivesUp
    BY <2>10 DEF BrokerGivesUp, Exit, Closed, NoRecords, TypeOK, Status
  <2>11. CASE StopService
    <3>1. files' \in Files /\ running' \in Slot /\ UnchangedCallers
      BY <2>11 DEF StopService, TypeOK, Slot
    <3>2. Goto("stage") \/ Goto("quarantine") \/ Fails
      BY <2>11 DEF StopService
    <3> QED BY <3>1, <3>2, StepEnds DEF Forward, Undo
  <2>12. CASE StartService
    <3>1. files' \in Files /\ running' \in Slot /\ UnchangedCallers
      BY <2>12 DEF StartService, Started, TypeOK, Files
    <3>2. Goto("health") \/ Goto("undo_health") \/ Fails
      BY <2>12 DEF StartService
    <3> QED BY <3>1, <3>2, StepEnds DEF Forward, Undo
  <2>13. CASE CheckHealth \/ RollbackAuditFails
    <3>1. files' \in Files /\ running' \in Slot /\ UnchangedCallers
      BY <2>13 DEF CheckHealth, RollbackAuditFails, TypeOK
    <3>2. Finish("active") \/ Finish("rolled_back") \/ Finish("failed") \/ Fails
      BY <2>13 DEF CheckHealth, RollbackAuditFails
    <3> QED BY <3>1, <3>2, StepEnds DEF Status
  <2>14. ASSUME NEW pc, NEW results, NEW next \in Forward \cup Undo,
                FileStep(pc, results, next), \A r \in results : r.files \in Files
         PROVE  TypeOK'
    <3>1. files' \in Files /\ running' \in Slot /\ UnchangedCallers
      BY <2>14 DEF FileStep, TypeOK
    <3>2. Goto(next) \/ Fails
      BY <2>14 DEF FileStep
    <3> QED BY <3>1, <3>2, StepEnds
  <2>15. CASE \/ StagePreviousStep \/ CopyStep \/ InstallStep \/ QuarantineStep \/ RestoreStep
    <3>1. files \in Files /\ worker.id \in Ids /\ worker.artifact \in Contents
      BY DEF TypeOK
    <3>2. /\ \A r \in StagePrevious(files, worker.id) : r.files \in Files
          /\ \A r \in CopyArtifact(files, worker.id) : r.files \in Files
          /\ \A r \in Install(files, worker.id, worker.artifact) : r.files \in Files
          /\ \A r \in Quarantine(files, worker.id) : r.files \in Files
          /\ \A r \in RestorePrevious(files, worker.id) : r.files \in Files
      BY <3>1, StageKeeps, CopyKeeps, InstallKeeps, QuarantineKeeps, RestoreKeeps
    <3>3. CASE StagePreviousStep
      BY <3>2, <3>3, <2>14 DEF StagePreviousStep, Forward
    <3>4. CASE CopyStep
      BY <3>2, <3>4, <2>14 DEF CopyStep, Forward
    <3>5. CASE InstallStep
      BY <3>2, <3>5, <2>14 DEF InstallStep, Forward
    <3>6. CASE QuarantineStep
      BY <3>2, <3>6, <2>14 DEF QuarantineStep, Undo
    <3>7. CASE RestoreStep
      BY <3>2, <3>7, <2>14 DEF RestoreStep, Undo
    <3> QED BY <2>15, <3>3, <3>4, <3>5, <3>6, <3>7
  <2>16. CASE BrokerReplies
    <3>1. WireStatus(worker.status) \in Status
      BY DEF WireStatus, TypeOK, Status
    <3>2. ledger' \in [id: Ids, artifact: Contents, status: Status]
      BY <2>16, <3>1 DEF BrokerReplies, TypeOK
    <3> QED
      BY <2>16, <3>2, ZenonT(60) DEF BrokerReplies, Exit, Closed, NoRecords, TypeOK, Status
  <2>17. CASE DeployReturns
    BY <2>17 DEF DeployReturns, UnchangedCallers, TypeOK
  <2>18. CASE Crash
    BY <2>18 DEF Crash, Exit, Closed, NoRecords, TypeOK, Status
  <2> QED
    BY <2>1, <2>2, <2>3, <2>4, <2>5, <2>6, <2>7, <2>8, <2>9, <2>10, <2>11, <2>12,
       <2>13, <2>15, <2>16, <2>17, <2>18 DEF Next, Steps
<1> QED
  BY <1>1, <1>2, PTL DEF Spec

(* Whatever step fails, the files and the service are where PhaseInv says
   (DeploymentService::deploy, FileDeploymentBackend). *)
THEOREM PhasesHold == Spec => []PhaseInv
<1>1. Init => PhaseInv
  BY DEF Init, PhaseInv
<1>2. TypeOK /\ PhaseInv /\ [Next]_vars => PhaseInv'
  <2> SUFFICES ASSUME TypeOK, PhaseInv, [Next]_vars PROVE PhaseInv'
    OBVIOUS
  <2> USE DEF PhaseInv
  <2>1. CASE UNCHANGED vars
    BY <2>1 DEF vars
  <2>2. CASE Launch \/ RemoveStaleSocket \/ NodeTimesOut \/ NodeSeesClose
    BY <2>2 DEF Launch, RemoveStaleSocket, NodeTimesOut, NodeSeesClose, TypeOK
  <2>3. ASSUME NEW id \in Ids, Rollback(id) PROVE PhaseInv'
    BY <2>3 DEF Rollback, TypeOK
  <2>4. ASSUME NEW id \in Ids, NEW artifact \in Contents,
               NodeCalls(id, artifact) \/ Deploy(id, artifact)
        PROVE PhaseInv'
    BY <2>4, ZenonT(60) DEF NodeCalls, Deploy, Begin, TypeOK
  <2>5. CASE BrokerAccepts
    BY <2>5 DEF BrokerAccepts, Begin
  <2>6. CASE BrokerGivesUp \/ BrokerReplies \/ Crash
    BY <2>6 DEF BrokerGivesUp, BrokerReplies, Crash, Exit, TypeOK
  <2>7. CASE DeployReturns
    BY <2>7 DEF DeployReturns, TypeOK
  <2>8. CASE StopService
    BY <2>8, ZenonT(60) DEF StopService, Goto, Fails, Finish, Forward, TypeOK
  <2>9. CASE StartService
    BY <2>9, ZenonT(60) DEF StartService, Started, Goto, Fails, Finish, Forward, TypeOK
  <2>10. CASE CheckHealth \/ RollbackAuditFails
    BY <2>10, ZenonT(60) DEF CheckHealth, RollbackAuditFails, Goto, Fails, Finish, Forward, TypeOK
  <2>11. files \in Files /\ worker.id \in Ids /\ worker.artifact \in Contents
    BY DEF TypeOK
  <2>12. CASE StagePreviousStep
    <3>1. PICK r \in StagePrevious(files, worker.id) :
            /\ worker.pc = "stage" /\ files' = r.files /\ running' = running
            /\ IF r.end = "returned" THEN Goto("copy") ELSE Fails
      BY <2>12 DEF StagePreviousStep, FileStep
    <3>2. r.end = "returned" => r.files.active = NoFile
      BY <2>11, StageKeeps
    <3> QED BY <3>1, <3>2 DEF Goto, Fails, Forward, TypeOK
  <2>13. CASE CopyStep
    <3>1. PICK r \in CopyArtifact(files, worker.id) :
            /\ worker.pc = "copy" /\ files' = r.files /\ running' = running
            /\ IF r.end = "returned" THEN Goto("install") ELSE Fails
      BY <2>13 DEF CopyStep, FileStep
    <3>2. r.files.active = files.active
      BY <2>11, CopyKeeps
    <3> QED BY <3>1, <3>2 DEF Goto, Fails, Forward, TypeOK
  <2>14. CASE InstallStep
    <3>1. PICK r \in Install(files, worker.id, worker.artifact) :
            /\ worker.pc = "install" /\ files' = r.files /\ running' = running
            /\ IF r.end = "returned" THEN Goto("start") ELSE Fails
      BY <2>14 DEF InstallStep, FileStep
    <3>2. r.end = "returned" => r.files.active = worker.artifact
      BY <2>11, InstallKeeps
    <3> QED BY <3>1, <3>2 DEF Goto, Fails, Forward, TypeOK
  <2>15. CASE QuarantineStep
    <3>1. PICK r \in Quarantine(files, worker.id) :
            /\ worker.pc = "quarantine" /\ files' = r.files /\ running' = running
            /\ IF r.end = "returned" THEN Goto("restore") ELSE Fails
      BY <2>15 DEF QuarantineStep, FileStep
    <3>2. r.end = "returned" => r.files.active = NoFile
      BY <2>11, QuarantineKeeps
    <3> QED BY <3>1, <3>2, ZenonT(60) DEF Goto, Fails, Finish, Forward, TypeOK
  <2>16. CASE RestoreStep
    <3>1. PICK r \in RestorePrevious(files, worker.id) :
            /\ worker.pc = "restore" /\ files' = r.files /\ running' = running
            /\ IF r.end = "returned" THEN Goto("undo_start") ELSE Fails
      BY <2>16 DEF RestoreStep, FileStep
    <3> QED BY <3>1 DEF Goto, Fails, Finish, Forward, TypeOK
  <2> QED
    BY <2>1, <2>2, <2>3, <2>4, <2>5, <2>6, <2>7, <2>8, <2>9, <2>10, <2>12, <2>13,
       <2>14, <2>15, <2>16 DEF Next, Steps
<1> QED
  BY <1>1, <1>2, TypeCorrect, PTL DEF Spec

(* A deployment reported active runs its artifact (DeploymentStatus::active). *)
THEOREM ActiveCorrect == Spec => []ActiveRuns
<1>1. PhaseInv => ActiveRuns
  BY DEF PhaseInv, ActiveRuns
<1> QED BY <1>1, PhasesHold, PTL

(* No failure and no crash ever overwrites a file that was active
   (FileDeploymentBackend's moves). *)
THEOREM NothingIsLost == Spec => NothingLost
<1>1. TypeOK /\ PhaseInv /\ [Next]_vars => [Kept(files) \subseteq Kept(files')]_vars
  <2> SUFFICES ASSUME TypeOK, PhaseInv, Next PROVE Kept(files) \subseteq Kept(files')
    OBVIOUS
  <2>1. files \in Files /\ worker.id \in Ids /\ worker.artifact \in Contents
    BY DEF TypeOK
  <2>2. CASE StagePreviousStep
    <3>1. PICK r \in StagePrevious(files, worker.id) : files' = r.files
      BY <2>2 DEF StagePreviousStep, FileStep
    <3> QED BY <2>1, <3>1, StageKeeps
  <2>3. CASE CopyStep
    BY <2>1, <2>3, CopyKeeps DEF CopyStep, FileStep
  <2>4. CASE InstallStep
    BY <2>1, <2>4, InstallKeeps DEF InstallStep, FileStep, PhaseInv
  <2>5. CASE QuarantineStep
    BY <2>1, <2>5, QuarantineKeeps DEF QuarantineStep, FileStep
  <2>6. CASE RestoreStep
    BY <2>1, <2>6, RestoreKeeps DEF RestoreStep, FileStep, PhaseInv
  <2>7. CASE /\ ~StagePreviousStep /\ ~CopyStep /\ ~InstallStep
             /\ ~QuarantineStep /\ ~RestoreStep
    <3>1. files' = files
      BY <2>7 DEF Next, Steps, Launch, RemoveStaleSocket, NodeTimesOut, NodeSeesClose,
                  Rollback, NodeCalls, Deploy, BrokerAccepts, BrokerGivesUp, StopService,
                  StartService, CheckHealth, RollbackAuditFails, BrokerReplies,
                  DeployReturns, Crash
    <3> QED BY <3>1
  <2> QED BY <2>2, <2>3, <2>4, <2>5, <2>6, <2>7
<1> QED
  BY <1>1, TypeCorrect, PhasesHold, PTL DEF Spec, NothingLost

(* A step of deploy() or rollback() stays in flight or ends with a record. *)
LEMMA StepBegun ==
  ASSUME TypeOK, worker.pc \in Forward \cup Undo,
         UnchangedCallers,
         \/ \E pc \in Forward \cup Undo : Goto(pc)
         \/ Fails
         \/ \E status \in Status \ {"none"} : Finish(status)
  PROVE  /\ OneShot' = OneShot /\ worker'.id = worker.id /\ worker'.pc \in InFlight /\ Begun' = Begun
         /\ worker'.pc = "reply" => records'[worker'.id] # "none"
<1>1. /\ worker'.host = worker.host /\ worker'.id = worker.id
      /\ \/ worker'.pc \in Forward \cup Undo /\ records' = records
         \/ /\ worker'.pc = "reply"
            /\ \E status \in Status \ {"none"} : records' = [records EXCEPT ![worker.id] = status]
  <2>1. CASE \E pc \in Forward \cup Undo : Goto(pc)
    BY <2>1 DEF Goto, TypeOK
  <2>2. CASE \E status \in Status \ {"none"} : Finish(status)
    BY <2>2 DEF Finish, TypeOK
  <2>3. CASE Fails
    <3>1. Goto("undo_stop") \/ Finish("failed")
      BY <2>3 DEF Fails
    <3>2. "undo_stop" \in Forward \cup Undo /\ "failed" \in Status \ {"none"}
      BY DEF Undo, Status
    <3> QED BY <2>1, <2>2, <3>1, <3>2
  <2> QED BY <2>1, <2>2, <2>3
<1>2. worker'.pc \in InFlight /\ worker.pc \in InFlight
  BY <1>1 DEF InFlight
<1>3. worker'.pc = "reply" => records'[worker.id] # "none"
  <2>1. records \in [Ids -> Status] /\ worker.id \in Ids
    BY DEF TypeOK
  <2> QED BY <1>1, <2>1 DEF Forward, Undo
<1>4. \A i \in Ids : i # worker.id => records'[i] = records[i]
  BY <1>1 DEF TypeOK
<1>5. OneShot' = OneShot /\ submitted' = submitted
  BY <1>1 DEF OneShot, UnchangedCallers
<1>6. Begun' = Begun
  BY <1>1, <1>2, <1>4, <1>5 DEF Begun
<1> QED BY <1>1, <1>2, <1>3, <1>5, <1>6

(* No id is forgotten once a deployment began with it. *)
LEMMA BegunGrows ==
  ASSUME TypeOK, PriorInv, [Next]_vars
  PROVE  /\ OneShot' = OneShot /\ Begun \subseteq Begun'
         /\ ~OneShot' /\ worker'.pc = "reply" => records'[worker'.id] # "none"
         /\ OneShot' \/ call'.state = "idle"
<1>1. CASE UNCHANGED vars
  BY <1>1 DEF vars, OneShot, Begun, PriorInv
<1>2. CASE Launch
  <2>1. /\ worker.pc = "off" /\ worker'.pc = "ready" /\ worker'.host = worker.host
        /\ UNCHANGED <<records, call, submitted>>
    BY <1>2 DEF Launch, TypeOK
  <2> QED BY <2>1 DEF OneShot, Begun, PriorInv, InFlight, Forward, Undo
<1>3. CASE RemoveStaleSocket
  BY <1>3 DEF RemoveStaleSocket, OneShot, Begun, PriorInv
<1>4. CASE NodeTimesOut \/ NodeSeesClose
  <2>1. UNCHANGED <<worker, records, submitted>> /\ call.state # "idle"
    BY <1>4 DEF NodeTimesOut, NodeSeesClose
  <2> QED BY <2>1 DEF OneShot, Begun, PriorInv
<1>5. ASSUME NEW id \in Ids, Rollback(id)
      PROVE  /\ OneShot' = OneShot /\ Begun \subseteq Begun'
             /\ ~OneShot' /\ worker'.pc = "reply" => records'[worker'.id] # "none"
             /\ OneShot' \/ call'.state = "idle"
  <2>1. /\ worker.pc = "ready" /\ worker'.pc = "undo_stop" /\ worker'.host = worker.host
        /\ UNCHANGED <<records, call, submitted>>
    BY <1>5 DEF Rollback, TypeOK
  <2> QED BY <2>1 DEF OneShot, Begun, PriorInv, InFlight, Forward, Undo
<1>6. ASSUME NEW id \in Ids, NEW artifact \in Contents, NodeCalls(id, artifact) \/ Deploy(id, artifact)
      PROVE  /\ OneShot' = OneShot /\ Begun \subseteq Begun'
             /\ ~OneShot' /\ worker'.pc = "reply" => records'[worker'.id] # "none"
             /\ OneShot' \/ call'.state = "idle"
  <2>1. CASE NodeCalls(id, artifact)
    BY <2>1 DEF NodeCalls, OneShot, Begun, PriorInv
  <2>2. CASE Deploy(id, artifact)
    <3>1. /\ worker.pc = "ready" /\ worker'.pc = "stop" /\ worker'.host = worker.host
          /\ UNCHANGED <<records, call, submitted>>
      BY <2>2 DEF Deploy, Begin, TypeOK
    <3> QED BY <3>1 DEF OneShot, Begun, PriorInv, InFlight, Forward, Undo
  <2> QED BY <1>6, <2>1, <2>2
<1>7. CASE BrokerAccepts
  <2>1. OneShot /\ worker'.host = worker.host /\ submitted' = submitted
    BY <1>7 DEF BrokerAccepts, Begin, TypeOK
  <2> QED BY <2>1 DEF OneShot, Begun
<1>8. CASE BrokerGivesUp \/ BrokerReplies \/ Crash
  <2>1. OneShot /\ worker'.host = worker.host /\ submitted' = submitted
    BY <1>8 DEF BrokerGivesUp, BrokerReplies, Crash, Exit, TypeOK
  <2> QED BY <2>1 DEF OneShot, Begun
<1>9. CASE DeployReturns
  <2>1. /\ worker.pc = "reply" /\ worker'.pc = "ready" /\ worker'.host = worker.host
        /\ UNCHANGED <<records, call, submitted>> /\ ~OneShot
    BY <1>9 DEF DeployReturns, UnchangedCallers, TypeOK
  <2>2. OneShot' = OneShot
    BY <2>1 DEF OneShot
  <2>3. Begun \subseteq Begun'
    BY <2>1, <2>2 DEF Begun, PriorInv, InFlight, Forward, Undo
  <2> QED BY <2>1, <2>2, <2>3 DEF PriorInv
<1>10. CASE Steps
  <2>1. worker.pc \in Forward \cup Undo /\ UnchangedCallers
    BY <1>10 DEF Steps, StopService, StagePreviousStep, CopyStep, InstallStep, StartService,
                 CheckHealth, QuarantineStep, RestoreStep, RollbackAuditFails, FileStep, Forward, Undo
  <2>2. \/ \E pc \in {"stage", "quarantine", "copy", "install", "start", "restore", "undo_start",
                     "health", "undo_health"} : Goto(pc)
        \/ Fails
        \/ \E status \in {"active", "rolled_back", "failed"} : Finish(status)
    BY <1>10 DEF Steps, StopService, StagePreviousStep, CopyStep, InstallStep, StartService,
                 CheckHealth, QuarantineStep, RestoreStep, RollbackAuditFails, FileStep
  <2>3. \/ \E pc \in Forward \cup Undo : Goto(pc)
        \/ Fails
        \/ \E status \in Status \ {"none"} : Finish(status)
    BY <2>2, Zenon DEF Forward, Undo, Status
  <2>4. /\ OneShot' = OneShot /\ Begun' = Begun
        /\ worker'.pc = "reply" => records'[worker'.id] # "none"
    BY <2>1, <2>3, StepBegun
  <2>5. call' = call
    BY <2>1 DEF UnchangedCallers
  <2> QED BY <2>4, <2>5 DEF PriorInv
<1> QED
  BY <1>1, <1>2, <1>3, <1>4, <1>5, <1>6, <1>7, <1>8, <1>9, <1>10 DEF Next

(* A step of deploy() or rollback() moves the files of its own id only. *)
LEMMA PriorMoves ==
  ASSUME TypeOK, PriorInv, Steps, prior' = prior,
         \A i \in Ids \ {worker.id} : files'.previous[i] \in {files.previous[i], NoFile},
         files'.previous[worker.id] \in {files.previous[worker.id], NoFile, prior[worker.id]},
         files'.active = NoFile => \E i \in Ids : files'.previous[i] # NoFile,
         worker'.pc \in {"stop", "stage"} =>
           files'.active = prior[worker.id] /\ files'.previous[worker.id] = NoFile,
         worker'.pc \in {"copy", "install", "start", "health", "restore"} =>
           files'.previous[worker.id] # NoFile,
         worker'.pc \in {"undo_start", "undo_health"} => files'.active = prior[worker.id],
         worker'.pc = "reply" /\ worker'.status = "rolled_back" =>
           files'.active = prior[worker.id] /\ running' = prior[worker.id]
  PROVE  PriorInv'
<1>1. worker.pc \in Forward \cup Undo /\ UnchangedCallers
  BY DEF Steps, StopService, StagePreviousStep, CopyStep, InstallStep, StartService,
         CheckHealth, QuarantineStep, RestoreStep, RollbackAuditFails, FileStep, Forward, Undo
<1>2. \/ \E pc \in {"stage", "quarantine", "copy", "install", "start", "restore", "undo_start",
                   "health", "undo_health"} : Goto(pc)
      \/ Fails
      \/ \E status \in {"active", "rolled_back", "failed"} : Finish(status)
  BY DEF Steps, StopService, StagePreviousStep, CopyStep, InstallStep, StartService,
         CheckHealth, QuarantineStep, RestoreStep, RollbackAuditFails, FileStep
<1>3. \/ \E pc \in Forward \cup Undo : Goto(pc)
      \/ Fails
      \/ \E status \in Status \ {"none"} : Finish(status)
  BY <1>2, Zenon DEF Forward, Undo, Status
<1>4. /\ OneShot' = OneShot /\ worker'.id = worker.id /\ worker'.pc \in InFlight /\ Begun' = Begun
      /\ worker'.pc = "reply" => records'[worker'.id] # "none"
  BY <1>1, <1>3, StepBegun
<1>5. call' = call /\ call.id \in Ids /\ worker.id \in Ids /\ worker.pc \in InFlight
  BY <1>1 DEF UnchangedCallers, TypeOK, InFlight
<1>6. worker.id \in Begun
  BY <1>5 DEF PriorInv
<1>7. \A i \in Ids : i \notin Begun => files'.previous[i] = NoFile
  BY <1>6 DEF PriorInv
<1>8. \A i \in Ids : files'.previous[i] # NoFile => files'.previous[i] = prior[i]
  BY DEF PriorInv
<1>9. call.state \in {"queued", "left"} =>
        files'.previous[call.id] = NoFile /\ call.id \in Begun /\ worker.id # call.id
  <2>1. call.state \in {"queued", "left"} =>
          files.previous[call.id] = NoFile /\ call.id \in Begun /\ worker.id # call.id
    BY <1>5 DEF PriorInv
  <2> QED BY <1>5, <2>1
<1>10. OneShot' \/ call'.state = "idle"
  BY <1>4, <1>5 DEF PriorInv
<1>11. RolledBackRestores'
  BY <1>4 DEF RolledBackRestores
<1> QED
  BY <1>4, <1>5, <1>6, <1>7, <1>8, <1>9, <1>10, <1>11 DEF PriorInv

(* Between deployments the files stay where they are. *)
LEMMA PriorRests ==
  ASSUME TypeOK, PriorInv, [Next]_vars, files' = files, prior' = prior,
         \/ worker'.pc \notin InFlight
         \/ UNCHANGED <<worker, running>>,
         call'.state \in {"queued", "left"} => call.state \in {"queued", "left"} /\ call'.id = call.id
  PROVE  PriorInv'
<1>1. /\ OneShot' = OneShot /\ Begun \subseteq Begun'
      /\ ~OneShot' /\ worker'.pc = "reply" => records'[worker'.id] # "none"
      /\ OneShot' \/ call'.state = "idle"
  BY BegunGrows
<1>2. \A i \in Ids : i \notin Begun' => files'.previous[i] = NoFile
  BY <1>1 DEF PriorInv
<1>3. /\ \A i \in Ids : files'.previous[i] # NoFile => files'.previous[i] = prior'[i]
      /\ files'.active = NoFile => \E i \in Ids : files'.previous[i] # NoFile
  BY DEF PriorInv
<1>4. CASE worker'.pc \notin InFlight
  <2>1. call'.state \in {"queued", "left"} =>
          files'.previous[call'.id] = NoFile /\ call'.id \in Begun'
    BY <1>1 DEF PriorInv
  <2>2. /\ worker'.pc \notin {"stop", "stage"} /\ worker'.pc # "reply"
        /\ worker'.pc \notin {"copy", "install", "start", "health", "restore"}
        /\ worker'.pc \notin {"undo_start", "undo_health"}
    BY <1>4 DEF InFlight, Forward, Undo
  <2> QED BY <1>1, <1>2, <1>3, <1>4, <2>1, <2>2 DEF PriorInv, RolledBackRestores
<1>5. CASE UNCHANGED <<worker, running>>
  <2>1. call'.state \in {"queued", "left"} =>
          /\ files'.previous[call'.id] = NoFile
          /\ call'.id \in Begun'
          /\ worker'.pc \in InFlight => worker'.id # call'.id
    BY <1>1, <1>5 DEF PriorInv
  <2>2. worker'.pc \in InFlight => worker'.id \in Begun'
    BY <1>1, <1>5 DEF PriorInv
  <2>3. RolledBackRestores'
    BY <1>5 DEF PriorInv, RolledBackRestores
  <2> QED BY <1>1, <1>2, <1>3, <1>5, <2>1, <2>2, <2>3 DEF PriorInv
<1> QED BY <1>4, <1>5

(* Where no id is used twice, the process that deploys knows at every step where
   the file is that it took away. *)
THEOREM PriorHolds == ~ReuseIds => (Spec => []PriorInv)
<1> SUFFICES ASSUME ~ReuseIds PROVE Spec => []PriorInv
  OBVIOUS
<1>1. Init => PriorInv
  <2> SUFFICES ASSUME Init PROVE PriorInv
    OBVIOUS
  <2>1. files.active = FirstContent /\ \A i \in Ids : files.previous[i] = NoFile
    BY DEF Init, InitialFiles
  <2>2. worker.pc = "off" /\ call.state = "idle"
    BY DEF Init
  <2> QED
    BY <2>1, <2>2, DeploymentAssumption, SlotAssumption
    DEF PriorInv, RolledBackRestores, InFlight, Forward, Undo
<1>2. TypeOK /\ PhaseInv /\ PriorInv /\ [Next]_vars => PriorInv'
  <2> SUFFICES ASSUME TypeOK, PhaseInv, PriorInv, [Next]_vars PROVE PriorInv'
    OBVIOUS
  <2>0. /\ files \in Files /\ worker.id \in Ids /\ worker.artifact \in Contents
        /\ NoFile \notin Contents /\ files.previous \in [Ids -> Slot]
    BY SlotAssumption DEF TypeOK, Files
  <2>b. /\ OneShot' = OneShot /\ Begun \subseteq Begun'
        /\ ~OneShot' /\ worker'.pc = "reply" => records'[worker'.id] # "none"
        /\ OneShot' \/ call'.state = "idle"
    BY BegunGrows
  <2>1. CASE UNCHANGED vars
    BY <2>1, PriorRests DEF vars
  <2>2. CASE Launch \/ RemoveStaleSocket \/ NodeTimesOut \/ NodeSeesClose
    <3>1. /\ files' = files /\ prior' = prior /\ running' = running
          /\ worker'.pc = "ready" \/ UNCHANGED worker
          /\ call'.state \in {"queued", "left"} => call.state \in {"queued", "left"} /\ call'.id = call.id
      BY <2>2 DEF Launch, RemoveStaleSocket, NodeTimesOut, NodeSeesClose, TypeOK
    <3>2. "ready" \notin InFlight
      BY DEF InFlight, Forward, Undo
    <3> QED BY <3>1, <3>2, PriorRests
  <2>3. ASSUME NEW id \in Ids, NEW artifact \in Contents, NodeCalls(id, artifact)
        PROVE PriorInv'
    <3>1. /\ OneShot /\ id \notin submitted /\ call'.id = id /\ id \in submitted'
          /\ UNCHANGED <<files, running, worker, records, prior>>
      BY <2>3 DEF NodeCalls
    <3>2. id \notin Begun /\ id \in Begun'
      BY <2>b, <3>1 DEF Begun
    <3>3. worker.pc \in InFlight => worker.id # id
      BY <3>2 DEF PriorInv
    <3>4. files.previous[id] = NoFile
      BY <3>2 DEF PriorInv
    <3>5. /\ \A i \in Ids : i \notin Begun' => files'.previous[i] = NoFile
          /\ worker'.pc \in InFlight => worker'.id \in Begun'
      BY <2>b, <3>1 DEF PriorInv
    <3>6. RolledBackRestores'
      BY <3>1 DEF PriorInv, RolledBackRestores
    <3> QED BY <2>b, <3>1, <3>2, <3>3, <3>4, <3>5, <3>6 DEF PriorInv
  <2>4. ASSUME NEW id \in Ids, worker'.pc = "stop", worker'.id = id,
               files.previous[id] = NoFile, files' = files, id \in Begun',
               prior' = [prior EXCEPT ![id] = files.active],
               call'.state \notin {"queued", "left"}
        PROVE  PriorInv'
    <3>1. prior' \in [Ids -> Slot] /\ prior'[id] = files.active /\ \A i \in Ids \ {id} : prior'[i] = prior[i]
      BY <2>0, <2>4 DEF TypeOK, Files
    <3>2. /\ \A i \in Ids : i \notin Begun' => files'.previous[i] = NoFile
          /\ files'.active = NoFile => \E i \in Ids : files'.previous[i] # NoFile
      BY <2>b, <2>4 DEF PriorInv
    <3>3. \A i \in Ids : files'.previous[i] # NoFile => files'.previous[i] = prior'[i]
      BY <2>4, <3>1 DEF PriorInv
    <3> QED BY <2>b, <2>4, <3>1, <3>2, <3>3 DEF PriorInv, RolledBackRestores
  <2>5. CASE BrokerAccepts
    <3>1. /\ files' = files /\ submitted' = submitted /\ OneShot /\ call.id \in Ids
          /\ call'.state \notin {"queued", "left"}
          /\ worker'.pc = "stop" /\ worker'.id = call.id
          /\ prior' = [prior EXCEPT ![call.id] = files.active]
          /\ call.state \in {"queued", "left"}
      BY <2>5 DEF BrokerAccepts, Begin, TypeOK
    <3>2. files.previous[call.id] = NoFile /\ call.id \in Begun'
      BY <2>b, <3>1 DEF PriorInv
    <3> QED BY <2>4, <3>1, <3>2
  <2>6. ASSUME NEW id \in Ids, NEW artifact \in Contents, Deploy(id, artifact)
        PROVE PriorInv'
    <3>1. /\ files' = files /\ ~OneShot /\ worker.pc = "ready" /\ records[id] = "none"
          /\ worker'.pc = "stop" /\ worker'.id = id /\ call' = call
          /\ prior' = [prior EXCEPT ![id] = files.active]
      BY <2>6 DEF Deploy, Begin, TypeOK
    <3>2. id \notin Begun
      BY <3>1 DEF Begun, InFlight, Forward, Undo
    <3>3. id \in Begun'
      BY <2>b, <3>1 DEF Begun, InFlight, Forward
    <3>4. files.previous[id] = NoFile /\ call'.state = "idle"
      BY <3>1, <3>2 DEF PriorInv
    <3> QED BY <2>4, <3>1, <3>3, <3>4
  <2>7. ASSUME NEW id \in Ids, Rollback(id) PROVE PriorInv'
    <3>1. /\ files' = files /\ ~OneShot /\ worker.pc = "ready" /\ records[id] = "active"
          /\ worker'.pc = "undo_stop" /\ worker'.id = id /\ call' = call /\ prior' = prior
      BY <2>7 DEF Rollback, TypeOK
    <3>2. id \in Begun'
      BY <2>b, <3>1 DEF Begun
    <3>3. /\ \A i \in Ids : i \notin Begun' => files'.previous[i] = NoFile
          /\ \A i \in Ids : files'.previous[i] # NoFile => files'.previous[i] = prior'[i]
          /\ files'.active = NoFile => \E i \in Ids : files'.previous[i] # NoFile
          /\ call'.state = "idle"
      BY <2>b, <3>1 DEF PriorInv
    <3> QED BY <2>b, <3>1, <3>2, <3>3 DEF PriorInv, RolledBackRestores
  <2>8. CASE BrokerGivesUp \/ BrokerReplies \/ Crash \/ DeployReturns
    <3>1. /\ files' = files /\ prior' = prior
          /\ worker'.pc \in {"off", "ready"}
          /\ call' = call \/ call'.state \in {"idle", "closed"}
      BY <2>8 DEF BrokerGivesUp, BrokerReplies, Crash, DeployReturns, UnchangedCallers, Exit, Closed, TypeOK
    <3>2. worker'.pc \notin InFlight
      BY <3>1 DEF InFlight, Forward, Undo
    <3> QED BY <3>1, <3>2, PriorRests
  <2>9. CASE StopService \/ StartService \/ CheckHealth \/ RollbackAuditFails
    <3>1. /\ files' = files /\ prior' = prior /\ Steps
          /\ \/ worker.pc = "stop" /\ worker'.pc = "stage"
             \/ worker.pc = "undo_stop" /\ worker'.pc = "quarantine"
             \/ worker.pc = "start" /\ worker'.pc = "health"
             \/ worker.pc = "undo_start" /\ worker'.pc = "undo_health"
             \/ worker'.pc = "undo_stop"
             \/ worker'.pc = "reply" /\ worker'.status \in {"active", "failed"}
             \/ /\ worker.pc = "undo_health" /\ worker'.pc = "reply" /\ worker'.status = "rolled_back"
                /\ running' = running
      BY <2>9 DEF StopService, StartService, CheckHealth, RollbackAuditFails, UnchangedCallers,
                  Steps, Goto, Fails, Finish, TypeOK
    <3>2. /\ worker.pc = "stop" => files.active = prior[worker.id] /\ files.previous[worker.id] = NoFile
          /\ worker.pc = "start" => files.previous[worker.id] # NoFile
          /\ worker.pc \in {"undo_start", "undo_health"} => files.active = prior[worker.id]
          /\ files.active = NoFile => \E i \in Ids : files.previous[i] # NoFile
          /\ worker.pc = "undo_health" => running = files.active
      BY DEF PriorInv, PhaseInv
    <3> QED BY <3>1, <3>2, PriorMoves
  <2>10. CASE StagePreviousStep
    <3>1. PICK r \in StagePrevious(files, worker.id) :
            /\ worker.pc = "stage" /\ files' = r.files /\ UnchangedCallers
            /\ IF r.end = "returned" THEN Goto("copy") ELSE Fails
      BY <2>10 DEF StagePreviousStep, FileStep
    <3>2. /\ r.files # files \/ r.end = "returned" =>
                /\ files.active # NoFile /\ r.files.active = NoFile
                /\ r.files.previous = [files.previous EXCEPT ![worker.id] = files.active]
      BY <2>0, StageKeeps
    <3>3. (worker'.pc = "copy" /\ r.end = "returned") \/ worker'.pc = "undo_stop"
      BY <3>1 DEF Goto, Fails, Forward, TypeOK
    <3>4. prior' = prior /\ files.active = prior[worker.id] /\ files.previous[worker.id] = NoFile
      BY <3>1 DEF UnchangedCallers, PriorInv
    <3>5. /\ \A i \in Ids \ {worker.id} : files'.previous[i] \in {files.previous[i], NoFile}
          /\ files'.previous[worker.id] \in {files.previous[worker.id], NoFile, prior[worker.id]}
          /\ worker'.pc = "copy" => files'.previous[worker.id] # NoFile
          /\ files'.active = NoFile => \E i \in Ids : files'.previous[i] # NoFile
      <4>1. CASE r.files # files \/ r.end = "returned"
        BY <2>0, <3>1, <3>2, <3>4, <4>1
      <4>2. CASE r.files = files /\ r.end # "returned"
        BY <3>1, <3>3, <4>2 DEF PriorInv
      <4> QED BY <4>1, <4>2
    <3> QED BY <2>10, <3>3, <3>4, <3>5, PriorMoves DEF Steps
  <2>11. CASE CopyStep
    <3>1. PICK r \in CopyArtifact(files, worker.id) :
            /\ worker.pc = "copy" /\ files' = r.files /\ UnchangedCallers
            /\ IF r.end = "returned" THEN Goto("install") ELSE Fails
      BY <2>11 DEF CopyStep, FileStep
    <3>2. r.files.active = files.active /\ r.files.previous = files.previous
      BY <2>0, CopyKeeps
    <3>3. worker'.pc \in {"install", "undo_stop"} /\ prior' = prior
      BY <3>1 DEF Goto, Fails, Forward, UnchangedCallers, TypeOK
    <3>4. files.previous[worker.id] # NoFile
      BY <3>1 DEF PriorInv
    <3> QED BY <2>11, <2>0, <3>1, <3>2, <3>3, <3>4, PriorMoves DEF Steps
  <2>12. CASE InstallStep
    <3>1. PICK r \in Install(files, worker.id, worker.artifact) :
            /\ worker.pc = "install" /\ files' = r.files /\ UnchangedCallers
            /\ IF r.end = "returned" THEN Goto("start") ELSE Fails
      BY <2>12 DEF InstallStep, FileStep
    <3>2. r.files.active \in {files.active, worker.artifact} /\ r.files.previous = files.previous
      BY <2>0, InstallKeeps
    <3>3. worker'.pc \in {"start", "undo_stop"} /\ prior' = prior
      BY <3>1 DEF Goto, Fails, Forward, UnchangedCallers, TypeOK
    <3>4. files.previous[worker.id] # NoFile
      BY <3>1 DEF PriorInv
    <3> QED BY <2>12, <2>0, <3>1, <3>2, <3>3, <3>4, PriorMoves DEF Steps
  <2>13. CASE QuarantineStep
    <3>1. PICK r \in Quarantine(files, worker.id) :
            /\ worker.pc = "quarantine" /\ files' = r.files /\ UnchangedCallers
            /\ IF r.end = "returned" THEN Goto("restore") ELSE Fails
      BY <2>13 DEF QuarantineStep, FileStep
    <3>2. /\ r.files.previous = files.previous
          /\ r.end = "returned" => files.previous[worker.id] # NoFile
          /\ r.files.active = NoFile /\ files.active # NoFile =>
               files.previous[worker.id] # NoFile
      BY <2>0, QuarantineKeeps
    <3>3. /\ prior' = prior
          /\ \/ worker'.pc = "restore" /\ r.end = "returned"
             \/ worker'.pc = "reply" /\ worker'.status = "failed"
      BY <3>1 DEF Goto, Fails, Finish, Forward, UnchangedCallers, TypeOK
    <3>4. files'.active = NoFile => \E i \in Ids : files'.previous[i] # NoFile
      BY <2>0, <3>1, <3>2 DEF PriorInv
    <3> QED BY <2>13, <2>0, <3>1, <3>2, <3>3, <3>4, PriorMoves DEF Steps
  <2>14. CASE RestoreStep
    <3>1. PICK r \in RestorePrevious(files, worker.id) :
            /\ worker.pc = "restore" /\ files' = r.files /\ UnchangedCallers
            /\ IF r.end = "returned" THEN Goto("undo_start") ELSE Fails
      BY <2>14 DEF RestoreStep, FileStep
    <3>2. /\ \A i \in Ids : r.files.previous[i] \in {files.previous[i], NoFile}
          /\ r.end = "returned" => r.files.active = files.previous[worker.id]
          /\ r.files = files \/ r.files.active = files.previous[worker.id]
      BY <2>0, RestoreKeeps
    <3>3. files.previous[worker.id] # NoFile /\ files.previous[worker.id] = prior[worker.id]
      BY <2>0, <3>1 DEF PriorInv
    <3>4. /\ prior' = prior
          /\ \/ worker'.pc = "undo_start" /\ r.end = "returned"
             \/ worker'.pc = "reply" /\ worker'.status = "failed"
      BY <3>1 DEF Goto, Fails, Finish, Forward, UnchangedCallers, TypeOK
    <3>5. files'.active = NoFile => \E i \in Ids : files'.previous[i] # NoFile
      BY <2>0, <3>1, <3>2, <3>3
    <3> QED BY <2>14, <2>0, <3>1, <3>2, <3>3, <3>4, <3>5, PriorMoves DEF Steps
  <2> QED
    BY <2>1, <2>2, <2>3, <2>5, <2>6, <2>7, <2>8, <2>9, <2>10, <2>11, <2>12, <2>13, <2>14
    DEF Next, Steps
<1> QED
  BY <1>1, <1>2, TypeCorrect, PhasesHold, PTL DEF Spec

(* A deployment reported rolled back left the machine as it found it, when no
   id is used twice (DeploymentStatus::rolled_back). *)
THEOREM RollbackCorrect == ~ReuseIds => (Spec => []RolledBackRestores)
<1>1. PriorInv => RolledBackRestores
  BY DEF PriorInv
<1> QED BY <1>1, PriorHolds, PTL

(* ... and whenever there is no active file, the file that was taken away is in
   its own rollback slot (FileDeploymentBackend). *)
THEOREM RecoveryCorrect == ~ReuseIds => (Spec => []PriorIsRecoverable)
<1>1. PriorInv => PriorIsRecoverable
  BY DEF PriorInv, PriorIsRecoverable
<1> QED BY <1>1, PriorHolds, PTL

(* Whatever the node timed out on and whichever broker died, its record of the
   last deployment agrees with the machine until another deployment begins
   (record_deployment). *)
THEOREM LedgerCorrect == ~ReuseIds => (Spec => []LedgerAgrees)
<1> SUFFICES ASSUME ~ReuseIds PROVE Spec => []LedgerAgrees
  OBVIOUS
<1>1. Init => LedgerInv
  BY DEF Init, LedgerInv, LedgerAgrees
<1>2. TypeOK /\ PhaseInv /\ PriorInv /\ LedgerInv /\ [Next]_vars => LedgerInv'
  <2> SUFFICES ASSUME TypeOK, PhaseInv, PriorInv, LedgerInv, [Next]_vars PROVE LedgerInv'
    OBVIOUS
  <2>p. "off" \notin InFlight /\ "ready" \notin InFlight
    BY DEF InFlight, Forward, Undo
  <2>b. OneShot' = OneShot
    BY BegunGrows
  <2>1. ASSUME UNCHANGED <<files, prior, ledger>>, submitted \subseteq submitted',
               worker'.id = worker.id, worker'.pc \notin InFlight \/ worker'.pc = worker.pc,
               worker.pc \in InFlight \/ worker'.pc \notin InFlight,
               call'.state \in {"queued", "left"} =>
                 (call.state \in {"queued", "left"} /\ call'.id = call.id) \/ call'.id \notin submitted
        PROVE  LedgerInv'
    <3>1. CASE ledger.status = "none"
      BY <2>1, <3>1 DEF LedgerInv, LedgerAgrees
    <3>2. CASE ledger.status # "none"
      <4>1. /\ OneShot' /\ ledger'.id \in submitted'
            /\ call'.state \in {"queued", "left"} => call'.id # ledger'.id
            /\ worker'.pc \in InFlight => worker'.id # ledger'.id
        BY <2>b, <2>1, <3>2 DEF LedgerInv
      <4>2. LedgerAgrees'
        <5>1. SUFFICES ASSUME worker'.pc \in {"off", "ready"}, worker.id = ledger.id
                       PROVE  /\ ledger.status = "active" => files.active = ledger.artifact
                              /\ ledger.status = "rolled_back" => files.active = prior[ledger.id]
          BY <2>1 DEF LedgerAgrees
        <5>2. worker.pc \notin InFlight
          BY <3>2, <5>1 DEF LedgerInv
        <5>3. worker.pc \in {"off", "ready"}
          BY <5>2 DEF TypeOK, InFlight
        <5> QED BY <5>1, <5>3 DEF LedgerInv, LedgerAgrees
      <4> QED BY <4>1, <4>2 DEF LedgerInv
    <3> QED BY <3>1, <3>2
  <2>2. CASE UNCHANGED vars
    BY <2>1, <2>2 DEF vars
  <2>3. CASE Launch \/ RemoveStaleSocket \/ NodeTimesOut \/ NodeSeesClose
    <3>1. /\ UNCHANGED <<files, prior, ledger, submitted>> /\ worker'.id = worker.id
          /\ (worker'.pc = "ready" /\ worker.pc = "off") \/ worker'.pc = worker.pc
          /\ call'.state \in {"queued", "left"} => call.state \in {"queued", "left"} /\ call'.id = call.id
      BY <2>3 DEF Launch, RemoveStaleSocket, NodeTimesOut, NodeSeesClose, TypeOK
    <3> QED BY <2>1, <2>p, <3>1
  <2>4. ASSUME NEW id \in Ids, NEW artifact \in Contents, NodeCalls(id, artifact) PROVE LedgerInv'
    <3>1. /\ UNCHANGED <<files, prior, ledger, worker>> /\ submitted \subseteq submitted'
          /\ call'.id = id /\ id \notin submitted
      BY <2>4 DEF NodeCalls
    <3> QED BY <2>1, <3>1
  <2>5. CASE BrokerGivesUp \/ Crash
    <3>1. /\ UNCHANGED <<files, prior, ledger, submitted>> /\ worker'.id = worker.id
          /\ worker'.pc = "off"
          /\ call'.state \notin {"queued", "left"}
      BY <2>5 DEF BrokerGivesUp, Crash, Exit, Closed, TypeOK
    <3> QED BY <2>1, <2>p, <3>1
  <2>6. CASE DeployReturns
    <3>1. /\ UNCHANGED <<files, prior, ledger, submitted, call>> /\ worker'.id = worker.id
          /\ worker'.pc = "ready"
      BY <2>6 DEF DeployReturns, UnchangedCallers, TypeOK
    <3> QED BY <2>1, <2>p, <3>1
  <2>7. CASE BrokerAccepts
    <3>1. /\ UNCHANGED <<files, ledger, submitted>> /\ worker'.id = call.id /\ worker'.pc = "stop"
          /\ call'.state \notin {"queued", "left"} /\ call.state \in {"queued", "left"}
      BY <2>7 DEF BrokerAccepts, Begin, TypeOK
    <3> QED BY <2>b, <3>1 DEF LedgerInv, LedgerAgrees
  <2>8. ASSUME NEW id \in Ids, Rollback(id) \/ \E artifact \in Contents : Deploy(id, artifact)
        PROVE  LedgerInv'
    <3>1. ~OneShot /\ ledger' = ledger /\ worker'.pc \in {"stop", "undo_stop"}
      BY <2>8 DEF Rollback, Deploy, Begin, TypeOK
    <3>2. ledger.status = "none"
      BY <3>1 DEF LedgerInv
    <3> QED BY <3>1, <3>2 DEF LedgerInv, LedgerAgrees
  <2>9. CASE Steps
    <3>1. worker.pc \in Forward \cup Undo /\ UnchangedCallers
      BY <2>9 DEF Steps, StopService, StagePreviousStep, CopyStep, InstallStep, StartService,
                  CheckHealth, QuarantineStep, RestoreStep, RollbackAuditFails, FileStep, Forward, Undo
    <3>2. \/ \E pc \in {"stage", "quarantine", "copy", "install", "start", "restore", "undo_start",
                       "health", "undo_health"} : Goto(pc)
          \/ Fails
          \/ \E status \in {"active", "rolled_back", "failed"} : Finish(status)
      BY <2>9 DEF Steps, StopService, StagePreviousStep, CopyStep, InstallStep, StartService,
                  CheckHealth, QuarantineStep, RestoreStep, RollbackAuditFails, FileStep
    <3>3. \/ \E pc \in Forward \cup Undo : Goto(pc)
          \/ Fails
          \/ \E status \in Status \ {"none"} : Finish(status)
      BY <3>2, Zenon DEF Forward, Undo, Status
    <3>4. worker'.id = worker.id /\ worker'.pc \in InFlight
      BY <3>1, <3>3, StepBegun
    <3>5. UNCHANGED <<ledger, submitted, call>> /\ worker.pc \in InFlight
      BY <3>1 DEF UnchangedCallers, InFlight
    <3>6. worker'.pc \notin {"off", "ready"}
      BY <3>4, <2>p
    <3> QED BY <2>b, <3>4, <3>5, <3>6 DEF LedgerInv, LedgerAgrees
  <2>10. CASE BrokerReplies
    <3>1. /\ OneShot /\ worker.pc = "reply" /\ worker'.id = worker.id /\ worker'.pc = "off"
          /\ UNCHANGED <<files, prior, submitted>> /\ call'.state \notin {"queued", "left"}
      BY <2>10 DEF BrokerReplies, Exit, Closed, TypeOK
    <3>2. CASE call.state # "accepted"
      <4>1. ledger' = ledger
        BY <2>10, <3>2 DEF BrokerReplies
      <4> QED BY <2>1, <2>p, <3>1, <4>1
    <3>3. CASE call.state = "accepted"
      <4>1. ledger' = [id |-> worker.id, artifact |-> worker.artifact, status |-> WireStatus(worker.status)]
        BY <2>10, <3>3 DEF BrokerReplies
      <4>2. worker.id \in submitted
        BY <3>1 DEF PriorInv, Begun, InFlight
      <4>3. /\ worker.status = "active" => files.active = worker.artifact
            /\ worker.status = "rolled_back" => files.active = prior[worker.id]
        BY <3>1 DEF PhaseInv, PriorInv, RolledBackRestores
      <4>4. /\ ledger'.id = worker.id /\ ledger'.artifact = worker.artifact
            /\ ledger'.status = "active" => worker.status = "active"
            /\ ledger'.status = "rolled_back" => worker.status = "rolled_back"
        BY <4>1 DEF WireStatus
      <4>5. LedgerAgrees'
        BY <3>1, <4>3, <4>4 DEF LedgerAgrees
      <4> QED BY <2>b, <2>p, <3>1, <4>2, <4>4, <4>5 DEF LedgerInv
    <3> QED BY <3>2, <3>3
  <2> QED
    BY <2>2, <2>3, <2>4, <2>5, <2>6, <2>7, <2>8, <2>9, <2>10 DEF Next
<1>3. LedgerInv => LedgerAgrees
  BY DEF LedgerInv
<1> QED
  BY <1>1, <1>2, <1>3, TypeCorrect, PhasesHold, PriorHolds, PTL DEF Spec
=============================================================================
