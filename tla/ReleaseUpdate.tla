----------------------------- MODULE ReleaseUpdate -----------------------------
(* An update of the installed package, and its manual rollback: both take a
   snapshot and a backup of the protected state (pairing, workspaces, audit),
   stop the service, move packages as SlotStore does, start the service, and
   compare the protected state with the snapshot.  An update that fails undoes
   what it did, the protected state included.

   The service writes its state whenever it runs: the snapshot and the backup
   are taken before it is stopped. *)
EXTENDS SlotStore, Naturals

CONSTANTS
  FirstContent,   \* the package installed at first
  NumDirs,        \* protected_directories
  MaxWrites       \* bound: writes of the service to its state

\* What the constants must be.
ReleaseUpdateConstants ==
  /\ FirstContent \in Contents
  /\ NumDirs \in Nat \ {0} /\ MaxWrites \in Nat

Dirs == 1..NumDirs
Gone == MaxWrites + 1          \* the directory is not there
Version == 0..MaxWrites        \* what a directory contains: its last write
Tree == [Dirs -> Version \cup {Gone}]
NoTree == [d \in Dirs |-> Gone]
Transactions == Ids \X {"apply", "manual"}   \* "<id>" and "<id>-manual"

VARIABLES
  files,      \* the install root
  running,    \* the package the service runs, NoFile when it is stopped
  state,      \* the protected directories
  backups, restores, damaged,   \* transaction_root, by transaction
  used,       \* which of those slots exist: [backups, restores, damaged]
  update,     \* the place in apply() or rollback()
  records,    \* ReleaseUpdateService::records_
  writes,     \* writes so far
  prior,      \* history: the package that was active when an update began
  atStop      \* history: the protected state when the service was stopped

slots == <<backups, restores, damaged, used>>
vars == <<files, running, state, slots, update, records, writes, prior, atStop>>

Applying == {"snapshot", "backup", "stop", "stage", "copy", "activate", "start",
             "health", "verify"}
Staged == {"copy", "activate", "start", "health", "verify"}
Undo == {"undo_stop", "quarantine", "restore", "copy_state", "move_state",
         "undo_start", "undo_health", "undo_verify"}
Resume == {"resume_start", "resume_health"}
Status == {"none", "active", "rolled_back", "failed"}

TypeOK ==
  /\ files \in Files
  /\ running \in Slot
  /\ state \in Tree
  /\ backups \in [Transactions -> Tree]
  /\ restores \in [Transactions -> Tree]
  /\ damaged \in [Transactions -> Tree]
  /\ used \in [backups: SUBSET Transactions, restores: SUBSET Transactions,
               damaged: SUBSET Transactions]
  /\ update \in [pc: Applying \cup Undo \cup Resume \cup {"idle", "done"},
                 tx: Transactions, content: Contents, before: Tree]
  /\ records \in [Ids -> Status]
  /\ writes \in Version
  /\ prior \in [Ids -> Slot]
  /\ atStop \in Tree

Init ==
  /\ files = InitialFiles(FirstContent)
  /\ running = FirstContent
  /\ state = [d \in Dirs |-> 0]
  /\ backups = [t \in Transactions |-> NoTree]
  /\ restores = backups /\ damaged = backups
  /\ used = [backups |-> {}, restores |-> {}, damaged |-> {}]
  /\ update \in [pc: {"idle"}, tx: Transactions, content: {FirstContent}, before: {state}]
  /\ records = [i \in Ids |-> "none"]
  /\ writes = 0
  /\ prior = [i \in Ids |-> NoFile]
  /\ atStop = state

id == update.tx[1]
tx == update.tx

-----------------------------------------------------------------------------
(* The service, and the two requests. *)

ServiceWrites(d) ==
  /\ running # NoFile /\ writes < MaxWrites /\ state[d] # Gone
  /\ writes' = writes + 1
  /\ state' = [state EXCEPT ![d] = writes']
  /\ UNCHANGED <<files, running, slots, update, records, prior, atStop>>

Apply(i, content) ==
  /\ update.pc = "idle" /\ records[i] = "none"
  /\ update' = [update EXCEPT !.pc = "snapshot", !.tx = <<i, "apply">>, !.content = content]
  /\ prior' = [prior EXCEPT ![i] = files.active]
  /\ UNCHANGED <<files, running, state, slots, records, writes, atStop>>

Rollback(i) ==
  /\ update.pc = "idle" /\ records[i] = "active"
  /\ update' = [update EXCEPT !.pc = "snapshot", !.tx = <<i, "manual">>]
  /\ UNCHANGED <<files, running, state, slots, records, writes, prior, atStop>>

Return ==
  /\ update.pc = "done"
  /\ update' = [update EXCEPT !.pc = "idle"]
  /\ UNCHANGED <<files, running, state, slots, records, writes, prior, atStop>>

-----------------------------------------------------------------------------
(* Where a step leads. *)

Goto(pc) == update' = [update EXCEPT !.pc = pc] /\ UNCHANGED records

Finish(status) ==
  /\ update' = [update EXCEPT !.pc = "done"]
  /\ records' = [records EXCEPT ![id] = status]

FailsRestarting ==
  CASE tx[2] = "apply" /\ update.pc \in Staged -> Goto("undo_stop")
    [] update.pc \in {"stop", "stage", "move_state"} -> Goto("resume_start")
    [] OTHER -> Finish("failed")

(* The catch of apply(): what was staged is undone, a stopped service is
   started again, and nothing is tried twice.  rollback() only gives up. *)
Fails ==
  CASE tx[2] = "apply" /\ update.pc \in Staged -> Goto("undo_stop")
    [] tx[2] = "apply" /\ update.pc \in {"stop", "stage"} -> Goto("resume_start")
    [] OTHER -> Finish("failed")

UnchangedSlots == UNCHANGED slots /\ UNCHANGED <<writes, prior>>

-----------------------------------------------------------------------------
(* The protected state. *)

Whole(tree) == \A d \in Dirs : tree[d] # Gone

(* capture_protected_state() throws when a directory is missing, and may throw
   for its limits. *)
Snapshot ==
  /\ update.pc = "snapshot"
  /\ \/ /\ Whole(state)
        /\ update' = [update EXCEPT !.pc = "backup", !.before = state]
        /\ UNCHANGED records
     \/ Fails
  /\ UNCHANGED <<files, running, state, atStop>> /\ UnchangedSlots

(* backup_state(): a copy that fails leaves its directory behind. *)
Backup ==
  /\ update.pc = "backup"
  /\ \/ /\ state = update.before /\ tx \notin used.backups
        /\ used' = [used EXCEPT !.backups = @ \cup {tx}]
        /\ \/ /\ backups' = [backups EXCEPT ![tx] = update.before]
              /\ Goto(IF tx[2] = "apply" THEN "stop" ELSE "undo_stop")
           \/ UNCHANGED backups /\ Fails
     \/ (state # update.before \/ tx \in used.backups) /\ Fails /\ UNCHANGED <<backups, used>>
  /\ UNCHANGED <<files, running, state, restores, damaged, writes, prior, atStop>>

(* restore_state(), up to the verified copy in restores/. *)
CopyState ==
  /\ update.pc = "copy_state"
  /\ \/ /\ backups[tx] = update.before /\ tx \notin used.restores
        /\ used' = [used EXCEPT !.restores = @ \cup {tx}]
        /\ \/ restores' = [restores EXCEPT ![tx] = update.before] /\ Goto("move_state")
           \/ UNCHANGED restores /\ Fails
     \/ (backups[tx] # update.before \/ tx \in used.restores) /\ Fails /\ UNCHANGED <<restores, used>>
  /\ UNCHANGED <<files, running, state, backups, damaged, writes, prior, atStop>>

(* What the renames of restore_state() can leave of each directory: "old" in
   place, "new" in place, or "gone".  When one of the renames to damaged/ (the
   first k of which succeeded) or from restores/ (the first j) fails, each
   rename is undone, or not: errors of the undoing are ignored. *)
Interrupted(k, j) ==
  {left \in [Dirs -> {"old", "new", "gone"}] :
     \A d \in Dirs : /\ d > k => left[d] = "old"
                     /\ d > j => left[d] # "new"}

HalfMoved ==
  UNION ({Interrupted(k, 0) : k \in 0..(NumDirs - 1)}
         \cup {Interrupted(NumDirs, j) : j \in 0..(NumDirs - 1)})

MoveDirsOver(left) ==
  /\ state' = [d \in Dirs |-> IF left[d] = "old" THEN state[d] ELSE restores[tx][d]]
  /\ UNCHANGED damaged
  /\ restores' = [restores EXCEPT ![tx] =
                    [d \in Dirs |-> IF left[d] = "new" THEN Gone ELSE @[d]]]

MoveDirs(left) ==
  /\ state' = [d \in Dirs |-> CASE left[d] = "old" -> state[d]
                                [] left[d] = "new" -> restores[tx][d]
                                [] OTHER -> Gone]
  /\ damaged' = [damaged EXCEPT ![tx] =
                   [d \in Dirs |-> IF left[d] = "old" THEN Gone ELSE state[d]]]
  /\ restores' = [restores EXCEPT ![tx] =
                    [d \in Dirs |-> IF left[d] = "new" THEN Gone ELSE @[d]]]

MoveState ==
  /\ update.pc = "move_state"
  /\ \/ /\ tx \notin used.damaged
        /\ used' = [used EXCEPT !.damaged = @ \cup {tx}]
        /\ \/ MoveDirs([d \in Dirs |-> "new"]) /\ (Goto("undo_start") \/ Fails)
           \/ \E left \in HalfMoved : MoveDirs(left) /\ Fails
     \/ tx \in used.damaged /\ Fails /\ UNCHANGED <<state, damaged, restores, used>>
  /\ UNCHANGED <<files, running, backups, writes, prior, atStop>>

(* snapshot_after and rollback_state_verify. *)
VerifyState ==
  /\ \/ update.pc = "verify" /\ state = update.before /\ Finish("active")
     \/ update.pc = "undo_verify" /\ state = update.before /\ Finish("rolled_back")
     \/ update.pc \in {"verify", "undo_verify"} /\ Fails
  /\ UNCHANGED <<files, running, state, atStop>> /\ UnchangedSlots

-----------------------------------------------------------------------------
(* The service's commands and the packages. *)

StopIgnoresFailure ==
  /\ \/ update.pc = "stop" /\ running' \in {running, NoFile} /\ Goto("stage")
     \/ update.pc = "undo_stop" /\ running' \in {running, NoFile} /\ Goto("quarantine")
  /\ atStop' = state
  /\ UNCHANGED <<files, state>> /\ UnchangedSlots

(* The stop command: it may fail after it has stopped the service. *)
StopService ==
  /\ \/ update.pc = "stop" /\ running' = NoFile /\ Goto("stage")
     \/ update.pc = "undo_stop" /\ running' = NoFile /\ Goto("quarantine")
     \/ update.pc \in {"stop", "undo_stop"} /\ running' \in {running, NoFile} /\ Fails
  /\ atStop' = state
  /\ UNCHANGED <<files, state>> /\ UnchangedSlots

Started == IF running = NoFile THEN files.active ELSE running

StartService ==
  /\ \/ update.pc = "start" /\ running' = Started /\ Goto("health")
     \/ update.pc = "undo_start" /\ running' = Started /\ Goto("undo_health")
     \/ update.pc = "resume_start" /\ running' = Started /\ Goto("resume_health")
     \/ /\ update.pc \in {"start", "undo_start", "resume_start"}
        /\ running' \in {running, Started} /\ Fails
  /\ UNCHANGED <<files, state, atStop>> /\ UnchangedSlots

(* A failed update stays failed when the service it stopped runs again. *)
CheckHealth ==
  /\ \/ update.pc = "health" /\ running # NoFile /\ Goto("verify")
     \/ update.pc = "undo_health" /\ running # NoFile /\ Goto("undo_verify")
     \/ update.pc = "resume_health" /\ Finish("failed")
     \/ update.pc \in {"health", "undo_health"} /\ Fails
  /\ UNCHANGED <<files, running, state, atStop>> /\ UnchangedSlots

FileStep(pc, results, next) ==
  /\ update.pc = pc
  /\ \E r \in results :
       /\ files' = r.files
       /\ IF r.end = "returned" THEN Goto(next) ELSE Fails
  /\ UNCHANGED <<running, state, atStop>> /\ UnchangedSlots

StageCurrent == FileStep("stage", StagePrevious(files, id), "copy")
CopyPackage == FileStep("copy", CopyArtifact(files, id), "activate")
Activate == FileStep("activate", Install(files, id, update.content), "start")
QuarantineStep == FileStep("quarantine", Quarantine(files, id), "restore")
RestoreStep == FileStep("restore", RestorePrevious(files, id), "copy_state")

Next ==
  \/ \E d \in Dirs : ServiceWrites(d)
  \/ \E i \in Ids : Rollback(i) \/ \E content \in Contents : Apply(i, content)
  \/ Return
  \/ Snapshot \/ Backup \/ CopyState \/ MoveState \/ VerifyState
  \/ StopService \/ StartService \/ CheckHealth
  \/ StageCurrent \/ CopyPackage \/ Activate \/ QuarantineStep \/ RestoreStep

Spec == Init /\ [][Next]_vars

-----------------------------------------------------------------------------
(* Properties. *)

(* An update or a manual rollback reported rolled back left the package that
   was active before the update on the active path, and the service runs it
   (ReleaseUpdateStatus::rolled_back). *)
RolledBackRestores ==
  update.pc = "done" /\ records[id] = "rolled_back" =>
    files.active = prior[id] /\ running = prior[id]

(* An update reported active installed its package, and the service runs it
   (ReleaseUpdateStatus::active). *)
ActiveRuns ==
  update.pc = "done" /\ records[id] = "active" =>
    files.active = update.content /\ running = update.content

(* When there is no active package, the one an update took away is in its own
   rollback slot. *)
PriorIsRecoverable ==
  files.active = NoFile =>
    \E i \in Ids : prior[i] # NoFile /\ files.previous[i] = prior[i]

(* Every version of a protected directory, on any path. *)
Versions ==
  LET In(tree) == {<<d, tree[d]>> : d \in {e \in Dirs : tree[e] # Gone}}
  IN  In(state) \cup UNION {In(backups[t]) \cup In(restores[t]) \cup In(damaged[t]) :
                              t \in Transactions}

(* Whatever fails, no package that was ever installed is overwritten, and only
   the service itself overwrites its state: what an update replaces stays in
   damaged/, also when a rename fails half-way and its undoing too
   (FileReleaseUpdateBackend, restore_state). *)
NothingOverwritten ==
  [][/\ Kept(files) \subseteq Kept(files')
     /\ writes' = writes => Versions \subseteq Versions']_vars

(* The service is never started, and never left running, with one of its
   protected directories missing (restore_state's failures end the undoing). *)
RunsWhole == running # NoFile => Whole(state)

(* A manual rollback exchanges the package and keeps the protected state the
   service had when it was stopped. *)
ManualRollbackKeepsState ==
  tx[2] = "manual" /\ update.pc = "undo_start" => state = atStop
=============================================================================
