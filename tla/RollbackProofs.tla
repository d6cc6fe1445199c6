----------------------------- MODULE RollbackProofs -----------------------------
(* Why an update of the package is sound, for any packages, ids, number of
   protected directories and writes of the service.  The moves of the packages
   are those of SlotStoreProofs; what is left is where apply() and rollback() are
   when they move them, and what the protected directories are by then. *)
EXTENDS MCRollback, TLAPS

Slots == INSTANCE SlotStoreProofs WITH Ids <- UpdateIds

Busy == update.pc \notin {"idle", "done"}

(* Between the stop command and the start command the service does not run. *)
Off == {"stage", "copy", "activate", "start", "quarantine", "restore", "copy_state",
        "move_state", "undo_start"}

(* What the place in apply() or rollback() says of the package and the service. *)
PlaceInv ==
  LET id == update.tx[1] IN
  /\ update.pc \in Off => runs = NoFile
  /\ update.pc \in {"stop", "stage", "copy", "activate", "start", "health", "verify"} =>
       update.tx[2] = "apply"
  /\ update.tx[2] = "apply" /\ update.pc \in {"snapshot", "backup", "stop", "stage"} =>
       installed[id] = package.active /\ package.previous[id] = NoFile
  /\ update.pc \in {"copy", "activate", "restore"} =>
       package.active = NoFile /\ package.previous[id] # NoFile
  /\ update.pc \in {"start", "health", "verify"} => package.active = update.content
  /\ update.pc \in {"health", "verify"} => runs = update.content
  /\ update.pc \in {"copy_state", "move_state", "undo_start", "undo_health", "undo_verify"} =>
       package.active = installed[id]
  /\ update.pc \in {"undo_health", "undo_verify"} => runs = installed[id]
  /\ Update!RolledBackRestores
  /\ Update!ActiveRuns

(* A filled rollback slot holds what was active when its update began. *)
SlotInv ==
  /\ \A i \in UpdateIds : package.previous[i] # NoFile => package.previous[i] = installed[i]
  /\ \A i \in UpdateIds :
       outcomes[i] = "none" /\ ~(Busy /\ update.tx = <<i, "apply">>) => package.previous[i] = NoFile
  /\ package.active = NoFile => \E i \in UpdateIds : package.previous[i] # NoFile

(* The protected state is whole from the snapshot until a rename of
   restore_state() fails, and a slot that is not used is empty. *)
StateInv ==
  /\ Busy /\ update.pc # "snapshot" => Update!Whole(state) /\ Update!Whole(update.before)
  /\ runs # NoFile => Update!Whole(state)
  /\ update.pc = "move_state" => restores[update.tx] = update.before
  /\ \A t \in Update!Transactions :
       /\ t \notin used.backups => backups[t] = Update!NoTree
       /\ t \notin used.restores => restores[t] = Update!NoTree
       /\ t \notin used.damaged => damaged[t] = Update!NoTree

UpdateInv == Update!TypeOK /\ PlaceInv /\ SlotInv /\ StateInv

-----------------------------------------------------------------------------
(* The instance's moves are those of SlotStoreProofs. *)
LEMMA SameMoves ==
  /\ Update!Files = Slots!Files /\ Update!Slot = Slots!Slot
  /\ \A f : Update!Kept(f) = Slots!Kept(f)
  /\ \A f, i : /\ Update!StagePrevious(f, i) = Slots!StagePrevious(f, i)
               /\ Update!CopyArtifact(f, i) = Slots!CopyArtifact(f, i)
               /\ Update!Quarantine(f, i) = Slots!Quarantine(f, i)
               /\ Update!RestorePrevious(f, i) = Slots!RestorePrevious(f, i)
               /\ \A c : Update!Install(f, i, c) = Slots!Install(f, i, c)
BY DEF Update!Files, Slots!Files, Update!Slot, Slots!Slot, Update!Kept, Slots!Kept,
       Update!Refuse, Slots!Refuse, Update!Replace, Slots!Replace,
       Update!StagePrevious, Slots!StagePrevious, Update!CopyArtifact, Slots!CopyArtifact,
       Update!Quarantine, Slots!Quarantine, Update!RestorePrevious, Slots!RestorePrevious,
       Update!Install, Slots!Install

Places == Update!Applying \cup Update!Undo \cup Update!Resume \cup {"idle", "done"}

(* Of the transaction only its place changes. *)
SameUpdate ==
  /\ update' \in [pc: Places, tx: Update!Transactions, content: Contents, before: Update!Tree]
  /\ update'.tx = update.tx /\ update'.content = update.content
  /\ update'.before = update.before

(* A step goes on or ends. *)
LEMMA Goes ==
  ASSUME Update!TypeOK, NEW pc \in Places, Update!Goto(pc)
  PROVE  SameUpdate /\ update'.pc = pc /\ outcomes' = outcomes
BY DEF Update!TypeOK, Update!Goto, Places, SameUpdate

LEMMA Ends ==
  ASSUME Update!TypeOK, NEW status \in Update!Status, Update!Finish(status)
  PROVE  /\ SameUpdate /\ update'.pc = "done"
         /\ outcomes' \in [UpdateIds -> Update!Status]
         /\ outcomes' = [outcomes EXCEPT ![update.tx[1]] = status]
<1>1. update.tx[1] \in UpdateIds
  BY DEF Update!TypeOK, Update!Transactions
<1> QED BY <1>1 DEF Update!TypeOK, Update!Finish, Update!id, Places, SameUpdate

(* The catch of apply() and of rollback(). *)
LEMMA FailsGoes ==
  ASSUME Update!TypeOK, Update!Fails
  PROVE  \/ update.tx[2] = "apply" /\ update.pc \in Update!Staged /\ Update!Goto("undo_stop")
         \/ update.tx[2] = "apply" /\ update.pc \in {"stop", "stage"} /\ Update!Goto("resume_start")
         \/ Update!Finish("failed")
BY DEF Update!Fails, Update!tx

(* ... leaves nothing to say of the place it comes from. *)
LEMMA FailsPlace ==
  ASSUME Update!TypeOK, Update!Fails
  PROVE  /\ SameUpdate /\ PlaceInv'
         /\ update'.pc \in {"undo_stop", "resume_start", "done"}
         /\ update'.pc # "done" => update.pc \in Update!Staged \cup {"stop", "stage"}
         /\ outcomes' \in [UpdateIds -> Update!Status]
         /\ \/ outcomes' = outcomes /\ Busy'
            \/ outcomes' = [outcomes EXCEPT ![update.tx[1]] = "failed"]
<1>1. update.tx[1] \in UpdateIds
  BY DEF Update!TypeOK, Update!Transactions
<1>2. CASE Update!Finish("failed")
  <2>1. /\ SameUpdate /\ update'.pc = "done" /\ outcomes' \in [UpdateIds -> Update!Status]
        /\ outcomes' = [outcomes EXCEPT ![update.tx[1]] = "failed"]
    BY <1>2, Ends DEF Update!Status
  <2>2. outcomes'[update'.tx[1]] = "failed"
    BY <1>1, <2>1 DEF Update!TypeOK, SameUpdate
  <2> QED BY <2>1, <2>2
          DEF PlaceInv, Off, Update!RolledBackRestores, Update!ActiveRuns, Update!id
<1>3. CASE \E pc \in {"undo_stop", "resume_start"} :
             Update!Goto(pc) /\ update.pc \in Update!Staged \cup {"stop", "stage"}
  <2>1. PICK pc \in {"undo_stop", "resume_start"} :
          Update!Goto(pc) /\ update.pc \in Update!Staged \cup {"stop", "stage"}
    BY <1>3
  <2>2. SameUpdate /\ update'.pc = pc /\ outcomes' = outcomes
    BY <2>1, Goes DEF Places, Update!Undo, Update!Resume
  <2> QED BY <2>1, <2>2
          DEF PlaceInv, Off, Busy, Update!RolledBackRestores, Update!ActiveRuns, Update!TypeOK
<1> QED BY <1>2, <1>3, FailsGoes

-----------------------------------------------------------------------------
(* What the slots say outlives every step that empties slots at most, or fills
   the one of the update that runs with what was active when it began. *)
LEMMA SlotsKept ==
  ASSUME Update!TypeOK, SlotInv, Busy, SameUpdate, installed' = installed,
         package' \in Update!Files,
         \/ outcomes' = outcomes /\ Busy'
         \/ \E status \in Update!Status \ {"none"} :
              outcomes' = [outcomes EXCEPT ![update.tx[1]] = status],
         \A i \in UpdateIds :
           \/ package'.previous[i] \in {package.previous[i], NoFile}
           \/ /\ i = update.tx[1] /\ update.tx[2] = "apply"
              /\ package'.previous[i] = installed[i],
         package'.active = NoFile =>
           \/ package.active = NoFile /\ package'.previous = package.previous
           \/ package'.previous[update.tx[1]] # NoFile
  PROVE  SlotInv'
<1>1. /\ update.tx[1] \in UpdateIds /\ outcomes \in [UpdateIds -> Update!Status]
      /\ update.tx = <<update.tx[1], update.tx[2]>>
  BY DEF Update!TypeOK, Update!Transactions
<1>2. \A i \in UpdateIds : package'.previous[i] # NoFile => package'.previous[i] = installed'[i]
  BY DEF SlotInv
<1>3. ASSUME NEW i \in UpdateIds, outcomes'[i] = "none", ~(Busy' /\ update'.tx = <<i, "apply">>)
      PROVE  package'.previous[i] = NoFile
  <2>1. outcomes[i] = "none"
    BY <1>1, <1>3
  <2>2. i = update.tx[1] => Busy'
    BY <1>1, <1>3
  <2>3. update.tx # <<i, "apply">>
    BY <1>1, <1>3, <2>2 DEF SameUpdate
  <2>4. package.previous[i] = NoFile
    BY <2>1, <2>3 DEF SlotInv
  <2> QED BY <1>1, <2>3, <2>4
<1>4. package'.active = NoFile => \E i \in UpdateIds : package'.previous[i] # NoFile
  BY <1>1 DEF SlotInv
<1> QED BY <1>2, <1>3, <1>4 DEF SlotInv

(* What is known of the protected state outlives every step that leaves it, and
   does not start a service before the snapshot. *)
LEMMA StateKept ==
  ASSUME StateInv, Busy, SameUpdate, state' = state, UNCHANGED Update!slots,
         runs' = runs \/ update.pc # "snapshot",
         update.pc = "snapshot" => ~Busy',
         update'.pc \notin {"snapshot", "move_state"}
  PROVE  StateInv'
<1>1. /\ backups' = backups /\ restores' = restores /\ damaged' = damaged /\ used' = used
  BY DEF Update!slots
<1>2. Update!Whole(state) => Update!Whole(state)'
  BY DEF Update!Whole
<1>3. Update!Whole(update.before) => Update!Whole(update.before)'
  BY DEF Update!Whole, SameUpdate
<1> QED BY <1>1, <1>2, <1>3 DEF StateInv, Busy, SameUpdate

-----------------------------------------------------------------------------
(* A step that fails keeps everything but the place, whatever it did to the
   package, the service and the slots before it failed. *)
LEMMA FailsQuietly ==
  ASSUME UpdateInv, Busy, Update!Fails, package' = package, runs' \in Update!Slot,
         runs' = runs \/ update.pc # "snapshot", state' = state, atStop' \in Update!Tree,
         Update!UnchangedSlots
  PROVE  UpdateInv'
<1>1. /\ SameUpdate /\ PlaceInv'
      /\ update'.pc \in {"undo_stop", "resume_start", "done"}
      /\ update'.pc # "done" => update.pc \in Update!Staged \cup {"stop", "stage"}
      /\ outcomes' \in [UpdateIds -> Update!Status]
      /\ \/ outcomes' = outcomes /\ Busy'
         \/ outcomes' = [outcomes EXCEPT ![update.tx[1]] = "failed"]
  BY FailsPlace DEF UpdateInv
<1>2. UNCHANGED <<backups, restores, damaged, used, writes, installed>>
  BY DEF Update!UnchangedSlots, Update!slots
<1>3. Update!TypeOK'
  BY <1>1, <1>2 DEF UpdateInv, Update!TypeOK, SameUpdate, Places
<1>4. SlotInv'
  <2>1. \E status \in Update!Status \ {"none"} : status = "failed"
    BY DEF Update!Status
  <2>2. package' \in Update!Files
    BY <1>3 DEF Update!TypeOK
  <2> QED BY <1>1, <1>2, <2>1, <2>2, SlotsKept DEF UpdateInv
<1>5. update.pc = "snapshot" => ~Busy'
  BY <1>1 DEF Update!Staged, Busy
<1>6. StateInv'
  BY <1>1, <1>5, StateKept DEF UpdateInv, Update!UnchangedSlots
<1> QED BY <1>1, <1>3, <1>4, <1>6 DEF UpdateInv

(* A step that goes on, or reports a success, and moves nothing. *)
LEMMA GoesQuietly ==
  ASSUME UpdateInv, Busy, PlaceInv', SameUpdate, package' = package, runs' \in Update!Slot,
         state' = state, atStop' \in Update!Tree, Update!UnchangedSlots,
         update.pc # "snapshot", update'.pc \notin {"snapshot", "move_state"},
         outcomes' \in [UpdateIds -> Update!Status],
         \/ outcomes' = outcomes /\ Busy'
         \/ \E status \in Update!Status \ {"none"} :
              outcomes' = [outcomes EXCEPT ![update.tx[1]] = status]
  PROVE  UpdateInv'
<1>1. UNCHANGED <<backups, restores, damaged, used, writes, installed>>
  BY DEF Update!UnchangedSlots, Update!slots
<1>2. Update!TypeOK'
  BY <1>1 DEF UpdateInv, Update!TypeOK, SameUpdate, Places
<1>3. SlotInv'
  <2>1. package' \in Update!Files
    BY <1>2 DEF Update!TypeOK
  <2> QED BY <1>1, <2>1, SlotsKept DEF UpdateInv
<1>4. StateInv'
  BY StateKept DEF UpdateInv, Update!UnchangedSlots
<1> QED BY <1>2, <1>3, <1>4 DEF UpdateInv

LEMMA InitSound ==
  ASSUME Update!Init
  PROVE  UpdateInv
<1>1. FirstContent \in Contents /\ NumDirs \in Nat \ {0} /\ MaxWrites \in Nat /\ NoFile \notin Contents
  BY UpdateAssumption, SlotAssumption DEF Update!ReleaseUpdateConstants
<1>2. /\ package \in Update!Files /\ package.active = FirstContent
      /\ \A i \in UpdateIds : package.previous[i] = NoFile
  BY <1>1 DEF Update!Init, Update!InitialFiles, Update!Files, Update!Slot
<1>3. state \in Update!Tree /\ Update!Whole(state) /\ Update!NoTree \in Update!Tree
  BY <1>1 DEF Update!Init, Update!Tree, Update!Version, Update!Gone, Update!Whole, Update!NoTree
<1>4. Update!TypeOK
  BY <1>1, <1>2, <1>3 DEF Update!Init, Update!TypeOK, Update!Slot, Update!Status, Update!Version
<1>5. PlaceInv
  BY DEF Update!Init, PlaceInv, Off, Update!RolledBackRestores, Update!ActiveRuns
<1>6. SlotInv
  BY <1>1, <1>2 DEF SlotInv
<1>7. StateInv
  BY <1>3 DEF Update!Init, StateInv, Busy
<1> QED BY <1>4, <1>5, <1>6, <1>7 DEF UpdateInv

(* The service's writes leave a directory in place. *)
LEMMA WriteStep ==
  ASSUME UpdateInv, NEW d \in Update!Dirs, Update!ServiceWrites(d)
  PROVE  UpdateInv'
<1>1. MaxWrites \in Nat
  BY UpdateAssumption DEF Update!ReleaseUpdateConstants
<1>2. /\ runs # NoFile /\ state[d] # Update!Gone /\ writes' \in Update!Version
      /\ writes' # Update!Gone /\ state' = [state EXCEPT ![d] = writes'] /\ state \in Update!Tree
      /\ UNCHANGED <<package, runs, backups, restores, damaged, used, update, outcomes, installed, atStop>>
  BY <1>1 DEF Update!ServiceWrites, UpdateInv, Update!TypeOK, Update!Version, Update!Gone, Update!slots
<1>3. state' \in Update!Tree
  BY <1>2 DEF Update!Tree
<1>4. Update!Whole(state) => Update!Whole(state)'
  BY <1>2 DEF Update!Whole, Update!Tree
<1>5. Update!TypeOK'
  BY <1>2, <1>3 DEF UpdateInv, Update!TypeOK
<1>6. PlaceInv' /\ SlotInv'
  BY <1>2 DEF UpdateInv, PlaceInv, SlotInv, Busy, Update!RolledBackRestores, Update!ActiveRuns, Update!id
<1>7. StateInv'
  <2>1. Update!Whole(update.before) => Update!Whole(update.before)'
    BY <1>2 DEF Update!Whole
  <2> QED BY <1>2, <1>4, <2>1 DEF UpdateInv, StateInv, Busy
<1> QED BY <1>5, <1>6, <1>7 DEF UpdateInv

LEMMA ApplyStep ==
  ASSUME UpdateInv, NEW i \in UpdateIds, NEW content \in Contents, Update!Apply(i, content)
  PROVE  UpdateInv'
<1>1. /\ ~Busy /\ outcomes[i] = "none" /\ package \in Update!Files
      /\ update' = [update EXCEPT !.pc = "snapshot", !.tx = <<i, "apply">>, !.content = content]
      /\ installed' = [installed EXCEPT ![i] = package.active]
      /\ UNCHANGED <<package, runs, state, backups, restores, damaged, used, outcomes, writes, atStop>>
  BY DEF Update!Apply, Busy, Update!slots, UpdateInv, Update!TypeOK
<1>2. /\ update'.pc = "snapshot" /\ update'.tx = <<i, "apply">> /\ update'.before = update.before
      /\ update' \in [pc: Places, tx: Update!Transactions, content: Contents, before: Update!Tree]
  BY <1>1 DEF UpdateInv, Update!TypeOK, Places, Update!Applying, Update!Transactions
<1>3. package.previous[i] = NoFile
  BY <1>1 DEF UpdateInv, SlotInv
<1>4. Update!TypeOK'
  BY <1>1, <1>2 DEF UpdateInv, Update!TypeOK, Places, Update!Files
<1>5. installed'[i] = package.active
  BY <1>1 DEF UpdateInv, Update!TypeOK
<1>6. PlaceInv'
  BY <1>1, <1>2, <1>3, <1>5 DEF PlaceInv, Off, Update!RolledBackRestores, Update!ActiveRuns
<1>7. SlotInv'
  <2>1. \A j \in UpdateIds : package'.previous[j] # NoFile => package'.previous[j] = installed'[j]
    BY <1>1, <1>3 DEF UpdateInv, SlotInv, Update!TypeOK
  <2>2. \A j \in UpdateIds :
          outcomes'[j] = "none" /\ ~(Busy' /\ update'.tx = <<j, "apply">>) => package'.previous[j] = NoFile
    BY <1>1 DEF UpdateInv, SlotInv
  <2> QED BY <1>1, <2>1, <2>2 DEF UpdateInv, SlotInv
<1>8. StateInv'
  <2>1. Update!Whole(state) => Update!Whole(state)'
    BY <1>1 DEF Update!Whole
  <2> QED BY <1>1, <1>2, <2>1 DEF UpdateInv, StateInv
<1> QED BY <1>4, <1>6, <1>7, <1>8 DEF UpdateInv

LEMMA RollbackStep ==
  ASSUME UpdateInv, NEW i \in UpdateIds, Update!Rollback(i)
  PROVE  UpdateInv'
<1>1. /\ ~Busy /\ outcomes[i] = "active"
      /\ update' = [update EXCEPT !.pc = "snapshot", !.tx = <<i, "manual">>]
      /\ UNCHANGED <<package, runs, state, backups, restores, damaged, used, outcomes, writes,
                     installed, atStop>>
  BY DEF Update!Rollback, Busy, Update!slots
<1>2. /\ update'.pc = "snapshot" /\ update'.tx = <<i, "manual">> /\ update'.before = update.before
      /\ update' \in [pc: Places, tx: Update!Transactions, content: Contents, before: Update!Tree]
  BY <1>1 DEF UpdateInv, Update!TypeOK, Places, Update!Applying, Update!Transactions
<1>3. Update!TypeOK'
  BY <1>1, <1>2 DEF UpdateInv, Update!TypeOK, Places
<1>4. PlaceInv'
  BY <1>1, <1>2 DEF PlaceInv, Off, Update!RolledBackRestores, Update!ActiveRuns
<1>5. SlotInv'
  BY <1>1 DEF UpdateInv, SlotInv
<1>6. StateInv'
  <2>1. Update!Whole(state) => Update!Whole(state)'
    BY <1>1 DEF Update!Whole
  <2> QED BY <1>1, <1>2, <2>1 DEF UpdateInv, StateInv
<1> QED BY <1>3, <1>4, <1>5, <1>6 DEF UpdateInv

LEMMA ReturnStep ==
  ASSUME UpdateInv, Update!Return
  PROVE  UpdateInv'
<1>1. /\ ~Busy /\ ~Busy' /\ update' = [update EXCEPT !.pc = "idle"]
      /\ UNCHANGED <<package, runs, state, backups, restores, damaged, used, outcomes, writes,
                     installed, atStop>>
  BY DEF Update!Return, Busy, Update!slots, UpdateInv, Update!TypeOK
<1>2. update'.pc = "idle"
  BY <1>1 DEF UpdateInv, Update!TypeOK
<1>3. Update!TypeOK'
  BY <1>1, <1>2 DEF UpdateInv, Update!TypeOK
<1>4. PlaceInv'
  BY <1>2 DEF PlaceInv, Off, Update!RolledBackRestores, Update!ActiveRuns
<1>5. SlotInv'
  BY <1>1 DEF UpdateInv, SlotInv
<1>6. StateInv'
  <2>1. Update!Whole(state) => Update!Whole(state)'
    BY <1>1 DEF Update!Whole
  <2> QED BY <1>1, <1>2, <2>1 DEF UpdateInv, StateInv
<1> QED BY <1>3, <1>4, <1>5, <1>6 DEF UpdateInv

-----------------------------------------------------------------------------
(* Snapshot, backup and the state put back. *)
LEMMA SnapshotStep ==
  ASSUME UpdateInv, Update!Snapshot
  PROVE  UpdateInv'
<1>1. /\ Busy /\ update.pc = "snapshot" /\ package' = package /\ runs' = runs /\ state' = state
      /\ atStop' = atStop /\ Update!UnchangedSlots
  BY DEF Update!Snapshot, Busy
<1>2. CASE Update!Fails
  BY <1>1, <1>2, FailsQuietly DEF UpdateInv, Update!TypeOK
<1>3. CASE /\ Update!Whole(state) /\ outcomes' = outcomes
           /\ update' = [update EXCEPT !.pc = "backup", !.before = state]
  <2>1. UNCHANGED <<backups, restores, damaged, used, writes, installed>>
    BY <1>1 DEF Update!UnchangedSlots, Update!slots
  <2>2. /\ update' \in [pc: Places, tx: Update!Transactions, content: Contents, before: Update!Tree]
        /\ update'.pc = "backup" /\ update'.tx = update.tx /\ update'.content = update.content
        /\ update'.before = state
    BY <1>3 DEF UpdateInv, Update!TypeOK, Places, Update!Applying
  <2>3. Update!TypeOK'
    BY <1>1, <1>3, <2>1, <2>2 DEF UpdateInv, Update!TypeOK, Places
  <2>4. PlaceInv'
    BY <1>1, <2>1, <2>2 DEF UpdateInv, PlaceInv, Off, Update!RolledBackRestores, Update!ActiveRuns
  <2>5. SlotInv'
    BY <1>1, <1>3, <2>1, <2>2 DEF UpdateInv, SlotInv, Busy
  <2>6. Update!Whole(state)' /\ Update!Whole(update.before)'
    BY <1>1, <1>3, <2>2 DEF Update!Whole
  <2>7. StateInv'
    BY <1>1, <2>1, <2>2, <2>6 DEF UpdateInv, StateInv
  <2> QED BY <2>3, <2>4, <2>5, <2>7 DEF UpdateInv
<1> QED BY <1>2, <1>3 DEF Update!Snapshot

(* A slot is filled once, and what a failed copy leaves is not relied on. *)
LEMMA BackupStep ==
  ASSUME UpdateInv, Update!Backup
  PROVE  UpdateInv'
<1>1. /\ Busy /\ update.pc = "backup" /\ package' = package /\ runs' = runs /\ state' = state
      /\ UNCHANGED <<restores, damaged, writes, installed, atStop>>
  BY DEF Update!Backup, Busy
<1>2. /\ update.tx \in Update!Transactions /\ update.before \in Update!Tree
      /\ update.tx = <<update.tx[1], update.tx[2]>> /\ update.tx[2] \in {"apply", "manual"}
  BY DEF UpdateInv, Update!TypeOK, Update!Transactions
<1>3. \/ Update!Fails
      \/ Update!Goto(IF update.tx[2] = "apply" THEN "stop" ELSE "undo_stop")
  BY DEF Update!Backup, Update!tx
<1>4. /\ \A t \in Update!Transactions : t \notin used'.backups => backups'[t] = Update!NoTree
      /\ backups' \in [Update!Transactions -> Update!Tree]
      /\ used' \in [backups: SUBSET Update!Transactions, restores: SUBSET Update!Transactions,
                    damaged: SUBSET Update!Transactions]
      /\ used'.restores = used.restores /\ used'.damaged = used.damaged
  BY <1>2 DEF UpdateInv, Update!TypeOK, StateInv, Update!Backup, Update!tx
<1>5. /\ SameUpdate /\ PlaceInv' /\ outcomes' \in [UpdateIds -> Update!Status]
      /\ update'.pc \in {"stop", "undo_stop", "done", "resume_start"}
      /\ \/ outcomes' = outcomes /\ Busy'
         \/ outcomes' = [outcomes EXCEPT ![update.tx[1]] = "failed"]
  <2>1. CASE Update!Fails
    BY <2>1, FailsPlace DEF UpdateInv
  <2>2. CASE Update!Goto(IF update.tx[2] = "apply" THEN "stop" ELSE "undo_stop")
    <3>1. /\ SameUpdate /\ outcomes' = outcomes
          /\ update'.pc = IF update.tx[2] = "apply" THEN "stop" ELSE "undo_stop"
      BY <2>2, Goes DEF UpdateInv, Places, Update!Applying, Update!Undo
    <3> QED BY <1>1, <1>2, <3>1
            DEF UpdateInv, Update!TypeOK, PlaceInv, Busy, Off, SameUpdate, Update!RolledBackRestores,
                Update!ActiveRuns
  <2> QED BY <1>3, <2>1, <2>2
<1>6. Update!TypeOK'
  BY <1>1, <1>4, <1>5 DEF UpdateInv, Update!TypeOK, SameUpdate, Places
<1>7. SlotInv'
  <2>1. \E status \in Update!Status \ {"none"} : status = "failed"
    BY DEF Update!Status
  <2>2. package' \in Update!Files
    BY <1>6 DEF Update!TypeOK
  <2> QED BY <1>1, <1>5, <2>1, <2>2, SlotsKept DEF UpdateInv
<1>8. StateInv'
  <2>1. Update!Whole(state) => Update!Whole(state)'
    BY <1>1 DEF Update!Whole
  <2>2. Update!Whole(update.before) => Update!Whole(update.before)'
    BY <1>5 DEF Update!Whole, SameUpdate
  <2> QED BY <1>1, <1>4, <1>5, <2>1, <2>2 DEF UpdateInv, StateInv
<1> QED BY <1>5, <1>6, <1>7, <1>8 DEF UpdateInv

LEMMA CopyStateStep ==
  ASSUME UpdateInv, Update!CopyState
  PROVE  UpdateInv'
<1>1. /\ Busy /\ update.pc = "copy_state" /\ package' = package /\ runs' = runs /\ state' = state
      /\ UNCHANGED <<backups, damaged, writes, installed, atStop>>
  BY DEF Update!CopyState, Busy
<1>2. update.tx \in Update!Transactions /\ update.before \in Update!Tree
  BY DEF UpdateInv, Update!TypeOK
<1>3. \/ Update!Fails
      \/ Update!Goto("move_state") /\ restores' = [restores EXCEPT ![update.tx] = update.before]
  BY DEF Update!CopyState, Update!tx
<1>4. /\ \A t \in Update!Transactions : t \notin used'.restores => restores'[t] = Update!NoTree
      /\ restores' \in [Update!Transactions -> Update!Tree]
      /\ used' \in [backups: SUBSET Update!Transactions, restores: SUBSET Update!Transactions,
                    damaged: SUBSET Update!Transactions]
      /\ used'.backups = used.backups /\ used'.damaged = used.damaged
  BY <1>2 DEF UpdateInv, Update!TypeOK, StateInv, Update!CopyState, Update!tx
<1>5. /\ SameUpdate /\ PlaceInv' /\ outcomes' \in [UpdateIds -> Update!Status]
      /\ update'.pc \in {"move_state", "undo_stop", "done", "resume_start"}
      /\ update'.pc = "move_state" => restores'[update.tx] = update.before
      /\ \/ outcomes' = outcomes /\ Busy'
         \/ outcomes' = [outcomes EXCEPT ![update.tx[1]] = "failed"]
  <2>1. CASE Update!Fails
    BY <2>1, FailsPlace DEF UpdateInv
  <2>2. CASE Update!Goto("move_state") /\ restores' = [restores EXCEPT ![update.tx] = update.before]
    <3>1. SameUpdate /\ outcomes' = outcomes /\ update'.pc = "move_state"
      BY <2>2, Goes DEF UpdateInv, Places, Update!Undo
    <3> QED BY <1>1, <1>2, <2>2, <3>1
            DEF UpdateInv, Update!TypeOK, PlaceInv, Busy, Off, SameUpdate, Update!RolledBackRestores,
                Update!ActiveRuns
  <2> QED BY <1>3, <2>1, <2>2
<1>6. Update!TypeOK'
  BY <1>1, <1>4, <1>5 DEF UpdateInv, Update!TypeOK, SameUpdate, Places
<1>7. SlotInv'
  <2>1. \E status \in Update!Status \ {"none"} : status = "failed"
    BY DEF Update!Status
  <2>2. package' \in Update!Files
    BY <1>6 DEF Update!TypeOK
  <2> QED BY <1>1, <1>5, <2>1, <2>2, SlotsKept DEF UpdateInv
<1>8. StateInv'
  <2>1. Update!Whole(state) => Update!Whole(state)'
    BY <1>1 DEF Update!Whole
  <2>2. Update!Whole(update.before) => Update!Whole(update.before)'
    BY <1>5 DEF Update!Whole, SameUpdate
  <2> QED BY <1>1, <1>4, <1>5, <2>1, <2>2 DEF UpdateInv, StateInv, SameUpdate
<1> QED BY <1>5, <1>6, <1>7, <1>8 DEF UpdateInv

(* The renames leave each directory as it was, as the restored copy, or away. *)
LEMMA MoveDirsLeaves ==
  ASSUME UpdateInv, NEW left \in [Update!Dirs -> {"old", "new", "gone"}], Update!MoveDirs(left)
  PROVE  /\ state' \in Update!Tree
         /\ restores' \in [Update!Transactions -> Update!Tree]
         /\ damaged' \in [Update!Transactions -> Update!Tree]
         /\ \A t \in Update!Transactions \ {update.tx} :
              restores'[t] = restores[t] /\ damaged'[t] = damaged[t]
         /\ \A d \in Update!Dirs :
              /\ state'[d] = (CASE left[d] = "old" -> state[d]
                                [] left[d] = "new" -> restores[update.tx][d]
                                [] OTHER -> Update!Gone)
              /\ damaged'[update.tx][d] = (IF left[d] = "old" THEN Update!Gone ELSE state[d])
              /\ restores'[update.tx][d] =
                   (IF left[d] = "new" THEN Update!Gone ELSE restores[update.tx][d])
<1>1. /\ update.tx \in Update!Transactions /\ state \in Update!Tree
      /\ restores \in [Update!Transactions -> Update!Tree]
      /\ damaged \in [Update!Transactions -> Update!Tree]
  BY DEF UpdateInv, Update!TypeOK
<1>2. restores[update.tx] \in Update!Tree
  BY <1>1
<1> DEFINE S == [d \in Update!Dirs |-> CASE left[d] = "old" -> state[d]
                                         [] left[d] = "new" -> restores[update.tx][d]
                                         [] OTHER -> Update!Gone]
           D == [d \in Update!Dirs |-> IF left[d] = "old" THEN Update!Gone ELSE state[d]]
           R == [d \in Update!Dirs |-> IF left[d] = "new" THEN Update!Gone
                                        ELSE restores[update.tx][d]]
<1>3. S \in Update!Tree /\ D \in Update!Tree /\ R \in Update!Tree
  BY <1>1, <1>2 DEF Update!Tree
<1>4. state' = S /\ damaged' = [damaged EXCEPT ![update.tx] = D]
  BY DEF Update!MoveDirs, Update!tx
<1>5. restores' = [restores EXCEPT ![update.tx] = R]
  BY <1>1 DEF Update!MoveDirs, Update!tx
<1>6. /\ \A d \in Update!Dirs : S[d] = CASE left[d] = "old" -> state[d]
                                         [] left[d] = "new" -> restores[update.tx][d]
                                         [] OTHER -> Update!Gone
      /\ \A d \in Update!Dirs : D[d] = IF left[d] = "old" THEN Update!Gone ELSE state[d]
      /\ \A d \in Update!Dirs : R[d] = IF left[d] = "new" THEN Update!Gone ELSE restores[update.tx][d]
  OBVIOUS
<1> HIDE DEF S, D, R
<1> QED BY <1>1, <1>3, <1>4, <1>5, <1>6

LEMMA MoveStateStep ==
  ASSUME UpdateInv, Update!MoveState
  PROVE  UpdateInv'
<1>1. /\ Busy /\ update.pc = "move_state" /\ package' = package /\ runs' = runs
      /\ runs = NoFile /\ restores[update.tx] = update.before
      /\ Update!Whole(update.before) /\ update.tx \in Update!Transactions
      /\ UNCHANGED <<backups, writes, installed, atStop>>
  BY DEF Update!MoveState, Busy, UpdateInv, PlaceInv, StateInv, Off, Update!TypeOK
<1> DEFINE AllNew == [d \in Update!Dirs |-> "new"]
<1>2. \/ Update!Fails
      \/ Update!Goto("undo_start") /\ Update!MoveDirs(AllNew)
  BY DEF Update!MoveState
<1>3. ASSUME NEW left \in [Update!Dirs -> {"old", "new", "gone"}], Update!MoveDirs(left),
             update.tx \notin used.damaged,
             used' = [used EXCEPT !.damaged = @ \cup {update.tx}]
      PROVE  /\ state' \in Update!Tree
             /\ restores' \in [Update!Transactions -> Update!Tree]
             /\ damaged' \in [Update!Transactions -> Update!Tree]
             /\ used' \in [backups: SUBSET Update!Transactions, restores: SUBSET Update!Transactions,
                           damaged: SUBSET Update!Transactions]
             /\ used'.backups = used.backups /\ used'.restores = used.restores
             /\ \A t \in Update!Transactions : t \notin used'.damaged => damaged'[t] = Update!NoTree
             /\ \A t \in Update!Transactions : t \notin used'.restores => restores'[t] = Update!NoTree
             /\ left = AllNew => Update!Whole(state)'
  <2>1. /\ state' \in Update!Tree
        /\ restores' \in [Update!Transactions -> Update!Tree]
        /\ damaged' \in [Update!Transactions -> Update!Tree]
        /\ \A t \in Update!Transactions \ {update.tx} :
             restores'[t] = restores[t] /\ damaged'[t] = damaged[t]
        /\ \A d \in Update!Dirs :
             /\ state'[d] = (CASE left[d] = "old" -> state[d]
                               [] left[d] = "new" -> restores[update.tx][d]
                               [] OTHER -> Update!Gone)
             /\ restores'[update.tx][d] =
                  (IF left[d] = "new" THEN Update!Gone ELSE restores[update.tx][d])
    BY <1>3, MoveDirsLeaves
  <2>2. /\ used' \in [backups: SUBSET Update!Transactions, restores: SUBSET Update!Transactions,
                      damaged: SUBSET Update!Transactions]
        /\ used'.backups = used.backups /\ used'.restores = used.restores
        /\ used'.damaged = used.damaged \cup {update.tx}
    BY <1>1, <1>3 DEF UpdateInv, Update!TypeOK
  <2>3. \A t \in Update!Transactions : t \notin used'.damaged => damaged'[t] = Update!NoTree
    BY <2>1, <2>2 DEF UpdateInv, StateInv
  <2>4. ASSUME update.tx \notin used.restores PROVE restores'[update.tx] = Update!NoTree
    <3>1. restores[update.tx] = Update!NoTree
      BY <1>1, <2>4 DEF UpdateInv, StateInv
    <3>2. \A d \in Update!Dirs : restores'[update.tx][d] = Update!Gone
      BY <2>1, <3>1 DEF Update!NoTree
    <3>3. restores'[update.tx] \in Update!Tree
      BY <1>1, <2>1
    <3> QED BY <3>2, <3>3 DEF Update!Tree, Update!NoTree
  <2>5. \A t \in Update!Transactions : t \notin used'.restores => restores'[t] = Update!NoTree
    BY <2>1, <2>2, <2>4 DEF UpdateInv, StateInv
  <2>6. left = AllNew => Update!Whole(state)'
    BY <1>1, <2>1 DEF Update!Whole
  <2> QED BY <2>1, <2>2, <2>3, <2>5, <2>6
<1>4. /\ state' \in Update!Tree
      /\ restores' \in [Update!Transactions -> Update!Tree]
      /\ damaged' \in [Update!Transactions -> Update!Tree]
      /\ used' \in [backups: SUBSET Update!Transactions, restores: SUBSET Update!Transactions,
                    damaged: SUBSET Update!Transactions]
      /\ used'.backups = used.backups /\ used'.restores = used.restores
      /\ \A t \in Update!Transactions : t \notin used'.damaged => damaged'[t] = Update!NoTree
      /\ \A t \in Update!Transactions : t \notin used'.restores => restores'[t] = Update!NoTree
  <2>1. CASE /\ update.tx \in used.damaged /\ UNCHANGED <<state, damaged, restores, used>>
    BY <2>1 DEF UpdateInv, Update!TypeOK, StateInv
  <2>2. CASE /\ update.tx \notin used.damaged
             /\ used' = [used EXCEPT !.damaged = @ \cup {update.tx}]
             /\ \E left \in [Update!Dirs -> {"old", "new", "gone"}] : Update!MoveDirs(left)
    BY <1>3, <2>2
  <2>3. AllNew \in [Update!Dirs -> {"old", "new", "gone"}]
    OBVIOUS
  <2>4. Update!HalfMoved \subseteq [Update!Dirs -> {"old", "new", "gone"}]
    BY DEF Update!HalfMoved, Update!Interrupted
  <2> QED BY <2>1, <2>2, <2>3, <2>4 DEF Update!MoveState, Update!tx
<1>5. Update!Goto("undo_start") /\ Update!MoveDirs(AllNew) /\ ~Update!Fails => Update!Whole(state)'
  <2>1. AllNew \in [Update!Dirs -> {"old", "new", "gone"}]
    OBVIOUS
  <2>2. SUFFICES ASSUME Update!Goto("undo_start"), Update!MoveDirs(AllNew), ~Update!Fails
                 PROVE  Update!Whole(state)'
    OBVIOUS
  <2>3. update.tx \notin used.damaged /\ used' = [used EXCEPT !.damaged = @ \cup {update.tx}]
    BY <2>2 DEF Update!MoveState, Update!tx
  <2> QED BY <1>3, <2>1, <2>2, <2>3
<1>6. /\ SameUpdate /\ PlaceInv' /\ outcomes' \in [UpdateIds -> Update!Status]
      /\ \/ update'.pc = "done"
         \/ update'.pc = "undo_start" /\ Update!Whole(state)'
      /\ \/ outcomes' = outcomes /\ Busy'
         \/ outcomes' = [outcomes EXCEPT ![update.tx[1]] = "failed"]
  <2>1. CASE Update!Fails
    BY <1>1, <2>1, FailsPlace DEF UpdateInv, Update!Staged
  <2>2. CASE Update!Goto("undo_start") /\ Update!MoveDirs(AllNew) /\ ~Update!Fails
    <3>1. SameUpdate /\ outcomes' = outcomes /\ update'.pc = "undo_start"
      BY <2>2, Goes DEF UpdateInv, Places, Update!Undo
    <3> QED BY <1>1, <1>5, <2>2, <3>1
            DEF UpdateInv, Update!TypeOK, PlaceInv, Busy, Off, SameUpdate, Update!RolledBackRestores,
                Update!ActiveRuns
  <2> QED BY <1>2, <2>1, <2>2
<1>7. Update!TypeOK'
  BY <1>1, <1>4, <1>6 DEF UpdateInv, Update!TypeOK, SameUpdate, Places
<1>8. SlotInv'
  <2>1. \E status \in Update!Status \ {"none"} : status = "failed"
    BY DEF Update!Status
  <2>2. package' \in Update!Files
    BY <1>7 DEF Update!TypeOK
  <2> QED BY <1>1, <1>6, <2>1, <2>2, SlotsKept DEF UpdateInv
<1>9. StateInv'
  <2>1. Update!Whole(update.before)'
    BY <1>1, <1>6 DEF Update!Whole, SameUpdate
  <2> QED BY <1>1, <1>4, <1>6, <2>1 DEF UpdateInv, StateInv, Busy
<1> QED BY <1>6, <1>7, <1>8, <1>9 DEF UpdateInv

LEMMA VerifyStep ==
  ASSUME UpdateInv, Update!VerifyState
  PROVE  UpdateInv'
<1>1. /\ Busy /\ update.pc \in {"verify", "undo_verify"} /\ package' = package /\ runs' = runs
      /\ state' = state /\ atStop' = atStop /\ Update!UnchangedSlots
      /\ runs \in Update!Slot /\ atStop \in Update!Tree
  BY DEF Update!VerifyState, Busy, UpdateInv, Update!TypeOK
<1>2. CASE Update!Fails
  BY <1>1, <1>2, FailsQuietly
<1>3. ASSUME NEW status \in {"active", "rolled_back"}, Update!Finish(status),
             status = "active" => update.pc = "verify",
             status = "rolled_back" => update.pc = "undo_verify"
      PROVE  UpdateInv'
  <2>1. /\ SameUpdate /\ update'.pc = "done" /\ outcomes' \in [UpdateIds -> Update!Status]
        /\ outcomes' = [outcomes EXCEPT ![update.tx[1]] = status]
    BY <1>3, Ends DEF UpdateInv, Update!Status
  <2>2. update.tx[1] \in UpdateIds /\ outcomes'[update'.tx[1]] = status
    BY <2>1 DEF SameUpdate, UpdateInv, Update!TypeOK, Update!Transactions
  <2>3. installed' = installed
    BY <1>1 DEF Update!UnchangedSlots
  <2>4. PlaceInv'
    BY <1>1, <1>3, <2>1, <2>2, <2>3
       DEF UpdateInv, PlaceInv, Off, SameUpdate, Update!RolledBackRestores, Update!ActiveRuns, Update!id
  <2>5. status \in Update!Status \ {"none"}
    BY DEF Update!Status
  <2> QED BY <1>1, <2>1, <2>4, <2>5, GoesQuietly
<1> QED BY <1>2, <1>3 DEF Update!VerifyState

-----------------------------------------------------------------------------
(* The commands. *)
LEMMA StopStep ==
  ASSUME UpdateInv, Update!StopService
  PROVE  UpdateInv'
<1>1. /\ Busy /\ update.pc \in {"stop", "undo_stop"} /\ package' = package /\ runs' \in {runs, NoFile}
      /\ state' = state /\ atStop' = state /\ Update!UnchangedSlots
      /\ runs \in Update!Slot /\ state \in Update!Tree /\ NoFile \in Update!Slot
  BY DEF Update!StopService, Busy, UpdateInv, Update!TypeOK, Update!Slot
<1>2. CASE Update!Fails
  BY <1>1, <1>2, FailsQuietly
<1>3. ASSUME NEW pc \in {"stage", "quarantine"}, Update!Goto(pc), runs' = NoFile,
             pc = "stage" => update.pc = "stop"
      PROVE  UpdateInv'
  <2>1. SameUpdate /\ outcomes' = outcomes /\ update'.pc = pc
    BY <1>3, Goes DEF UpdateInv, Places, Update!Applying, Update!Undo
  <2>2. installed' = installed /\ outcomes \in [UpdateIds -> Update!Status]
    BY <1>1 DEF Update!UnchangedSlots, UpdateInv, Update!TypeOK
  <2>3. PlaceInv'
    BY <1>1, <1>3, <2>1, <2>2
       DEF UpdateInv, PlaceInv, Off, SameUpdate, Update!RolledBackRestores, Update!ActiveRuns
  <2>4. Busy'
    BY <2>1 DEF Busy
  <2> QED BY <1>1, <1>3, <2>1, <2>2, <2>3, <2>4, GoesQuietly
<1> QED BY <1>2, <1>3 DEF Update!StopService

LEMMA StartStep ==
  ASSUME UpdateInv, Update!StartService
  PROVE  UpdateInv'
<1>1. /\ Busy /\ update.pc \in {"start", "undo_start", "resume_start"} /\ package' = package
      /\ runs' \in {runs, Update!Started}
      /\ state' = state /\ atStop' = atStop /\ Update!UnchangedSlots
      /\ runs \in Update!Slot /\ atStop \in Update!Tree /\ Update!Started \in Update!Slot
  BY DEF Update!StartService, Busy, UpdateInv, Update!TypeOK, Update!Slot, Update!Started, Update!Files
<1>2. CASE Update!Fails
  BY <1>1, <1>2, FailsQuietly
<1>3. ASSUME NEW pc \in {"health", "undo_health", "resume_health"}, Update!Goto(pc),
             runs' = Update!Started,
             pc = "health" => update.pc = "start", pc = "undo_health" => update.pc = "undo_start"
      PROVE  UpdateInv'
  <2>1. SameUpdate /\ outcomes' = outcomes /\ update'.pc = pc
    BY <1>3, Goes DEF UpdateInv, Places, Update!Applying, Update!Undo, Update!Resume
  <2>2. installed' = installed /\ outcomes \in [UpdateIds -> Update!Status]
    BY <1>1 DEF Update!UnchangedSlots, UpdateInv, Update!TypeOK
  <2>3. pc # "resume_health" => runs' = package.active
    BY <1>3 DEF UpdateInv, PlaceInv, Off, Update!Started
  <2>4. PlaceInv'
    BY <1>1, <1>3, <2>1, <2>2, <2>3
       DEF UpdateInv, PlaceInv, Off, SameUpdate, Update!RolledBackRestores, Update!ActiveRuns
  <2>5. Busy'
    BY <2>1 DEF Busy
  <2> QED BY <1>1, <1>3, <2>1, <2>2, <2>4, <2>5, GoesQuietly
<1> QED BY <1>2, <1>3 DEF Update!StartService

LEMMA HealthStep ==
  ASSUME UpdateInv, Update!CheckHealth
  PROVE  UpdateInv'
<1>1. /\ Busy /\ update.pc \in {"health", "undo_health", "resume_health"} /\ package' = package
      /\ runs' = runs /\ state' = state /\ atStop' = atStop /\ Update!UnchangedSlots
      /\ runs \in Update!Slot /\ atStop \in Update!Tree
  BY DEF Update!CheckHealth, Busy, UpdateInv, Update!TypeOK
<1>2. CASE Update!Fails
  BY <1>1, <1>2, FailsQuietly
<1>3. CASE Update!Finish("failed")
  <2>1. /\ SameUpdate /\ update'.pc = "done" /\ outcomes' \in [UpdateIds -> Update!Status]
        /\ outcomes' = [outcomes EXCEPT ![update.tx[1]] = "failed"]
    BY <1>3, Ends DEF UpdateInv, Update!Status
  <2>2. update.tx[1] \in UpdateIds /\ outcomes'[update'.tx[1]] = "failed"
    BY <2>1 DEF SameUpdate, UpdateInv, Update!TypeOK, Update!Transactions
  <2>3. PlaceInv'
    BY <2>1, <2>2 DEF PlaceInv, Off, Update!RolledBackRestores, Update!ActiveRuns, Update!id
  <2>4. "failed" \in Update!Status \ {"none"}
    BY DEF Update!Status
  <2> QED BY <1>1, <2>1, <2>3, <2>4, GoesQuietly
<1>4. ASSUME NEW pc \in {"verify", "undo_verify"}, Update!Goto(pc),
             pc = "verify" => update.pc = "health", pc = "undo_verify" => update.pc = "undo_health"
      PROVE  UpdateInv'
  <2>1. SameUpdate /\ outcomes' = outcomes /\ update'.pc = pc
    BY <1>4, Goes DEF UpdateInv, Places, Update!Applying, Update!Undo
  <2>2. installed' = installed /\ outcomes \in [UpdateIds -> Update!Status]
    BY <1>1 DEF Update!UnchangedSlots, UpdateInv, Update!TypeOK
  <2>3. PlaceInv'
    BY <1>1, <1>4, <2>1, <2>2
       DEF UpdateInv, PlaceInv, Off, SameUpdate, Update!RolledBackRestores, Update!ActiveRuns
  <2>4. Busy'
    BY <2>1 DEF Busy
  <2> QED BY <1>1, <2>1, <2>2, <2>3, <2>4, GoesQuietly
<1> QED BY <1>2, <1>3, <1>4 DEF Update!CheckHealth

-----------------------------------------------------------------------------
(* The packages: what a move changes, and where it leads. *)
LEMMA MoveGoes ==
  ASSUME UpdateInv, update.pc \in {"stage", "copy", "activate", "quarantine", "restore"},
         package' \in Update!Files, runs' = runs, state' = state, atStop' = atStop,
         Update!UnchangedSlots,
         \A i \in UpdateIds :
           \/ package'.previous[i] \in {package.previous[i], NoFile}
           \/ /\ i = update.tx[1] /\ update.tx[2] = "apply"
              /\ package'.previous[i] = installed[i],
         package'.active = NoFile =>
           \/ package.active = NoFile /\ package'.previous = package.previous
           \/ package'.previous[update.tx[1]] # NoFile,
         \/ Update!Fails
         \/ /\ SameUpdate /\ PlaceInv' /\ outcomes' = outcomes
            /\ update'.pc \in {"copy", "activate", "start", "restore", "copy_state"}
  PROVE  UpdateInv'
<1>1. UNCHANGED <<backups, restores, damaged, used, writes, installed>> /\ Busy
  BY DEF Update!UnchangedSlots, Update!slots, Busy
<1>2. /\ SameUpdate /\ PlaceInv' /\ outcomes' \in [UpdateIds -> Update!Status]
      /\ update'.pc \notin {"snapshot", "move_state"}
      /\ \/ outcomes' = outcomes /\ Busy'
         \/ outcomes' = [outcomes EXCEPT ![update.tx[1]] = "failed"]
  <2>1. CASE Update!Fails
    BY <2>1, FailsPlace DEF UpdateInv
  <2>2. CASE /\ SameUpdate /\ PlaceInv' /\ outcomes' = outcomes
             /\ update'.pc \in {"copy", "activate", "start", "restore", "copy_state"}
    BY <2>2 DEF Busy, UpdateInv, Update!TypeOK
  <2> QED BY <2>1, <2>2
<1>3. Update!TypeOK'
  BY <1>1, <1>2 DEF UpdateInv, Update!TypeOK, SameUpdate, Places
<1>4. SlotInv'
  <2>1. \E status \in Update!Status \ {"none"} : status = "failed"
    BY DEF Update!Status
  <2> QED BY <1>1, <1>2, <2>1, SlotsKept DEF UpdateInv
<1>5. StateInv'
  BY <1>1, <1>2, StateKept DEF UpdateInv, Update!UnchangedSlots
<1> QED BY <1>2, <1>3, <1>4, <1>5 DEF UpdateInv

LEMMA StagePackageStep ==
  ASSUME UpdateInv, Update!StageCurrent
  PROVE  UpdateInv' /\ Update!Kept(package) \subseteq Update!Kept(package')
<1> DEFINE id == update.tx[1]
<1>1. /\ update.pc = "stage" /\ runs' = runs /\ state' = state /\ atStop' = atStop
      /\ Update!UnchangedSlots /\ installed' = installed
      /\ id \in UpdateIds /\ package \in Update!Files /\ update.tx[2] = "apply"
      /\ installed[id] = package.active /\ package.previous[id] = NoFile /\ runs = NoFile
      /\ package.previous \in [UpdateIds -> Update!Slot]
  BY DEF Update!StageCurrent, Update!FileStep, Update!UnchangedSlots, UpdateInv, PlaceInv, Off,
         Update!TypeOK, Update!Transactions, Update!Files
<1>2. PICK r \in Update!StagePrevious(package, id) :
        package' = r.files /\ IF r.end = "returned" THEN Update!Goto("copy") ELSE Update!Fails
  BY DEF Update!StageCurrent, Update!FileStep, Update!id
<1>3. /\ r.files \in Update!Files
      /\ r.end = "returned" => r.files # package \/ package.active = NoFile
      /\ r.end = "returned" =>
           /\ package.active # NoFile /\ r.files.active = NoFile
           /\ r.files.previous = [package.previous EXCEPT ![id] = package.active]
      /\ r.files # package =>
           /\ package.active # NoFile /\ r.files.active = NoFile
           /\ r.files.previous = [package.previous EXCEPT ![id] = package.active]
      /\ Update!Kept(package) \subseteq Update!Kept(r.files)
  BY <1>1, SameMoves, SlotAssumption, Slots!StageKeeps
<1>4. ASSUME Update!Goto("copy"), r.end = "returned"
      PROVE  SameUpdate /\ PlaceInv' /\ outcomes' = outcomes /\ update'.pc = "copy"
  <2>1. SameUpdate /\ outcomes' = outcomes /\ update'.pc = "copy"
    BY <1>4, Goes DEF UpdateInv, Places, Update!Applying
  <2> QED BY <1>1, <1>2, <1>3, <1>4, <2>1
          DEF PlaceInv, Off, SameUpdate, Update!RolledBackRestores, Update!ActiveRuns
<1>5. /\ \A i \in UpdateIds :
           \/ package'.previous[i] \in {package.previous[i], NoFile}
           \/ i = id /\ update.tx[2] = "apply" /\ package'.previous[i] = installed[i]
      /\ package'.active = NoFile =>
           \/ package.active = NoFile /\ package'.previous = package.previous
           \/ package'.previous[id] # NoFile
  BY <1>1, <1>2, <1>3
<1>6. UpdateInv'
  BY <1>1, <1>2, <1>3, <1>4, <1>5, MoveGoes
<1> QED BY <1>2, <1>3, <1>6

LEMMA CopyPackageStep ==
  ASSUME UpdateInv, Update!CopyPackage
  PROVE  UpdateInv' /\ Update!Kept(package) \subseteq Update!Kept(package')
<1> DEFINE id == update.tx[1]
<1>1. /\ update.pc = "copy" /\ runs' = runs /\ state' = state /\ atStop' = atStop
      /\ Update!UnchangedSlots /\ installed' = installed
      /\ id \in UpdateIds /\ package \in Update!Files /\ update.tx[2] = "apply"
      /\ package.active = NoFile /\ package.previous[id] # NoFile /\ runs = NoFile
  BY DEF Update!CopyPackage, Update!FileStep, Update!UnchangedSlots, UpdateInv, PlaceInv, Off,
         Update!TypeOK, Update!Transactions
<1>2. PICK r \in Update!CopyArtifact(package, id) :
        package' = r.files /\ IF r.end = "returned" THEN Update!Goto("activate") ELSE Update!Fails
  BY DEF Update!CopyPackage, Update!FileStep, Update!id
<1>3. /\ r.files \in Update!Files
      /\ r.files.active = package.active /\ r.files.previous = package.previous
      /\ Update!Kept(package) \subseteq Update!Kept(r.files)
  BY <1>1, SameMoves, SlotAssumption, Slots!CopyKeeps
<1>4. ASSUME Update!Goto("activate")
      PROVE  SameUpdate /\ PlaceInv' /\ outcomes' = outcomes /\ update'.pc = "activate"
  <2>1. SameUpdate /\ outcomes' = outcomes /\ update'.pc = "activate"
    BY <1>4, Goes DEF UpdateInv, Places, Update!Applying
  <2> QED BY <1>1, <1>2, <1>3, <2>1
          DEF PlaceInv, Off, SameUpdate, Update!RolledBackRestores, Update!ActiveRuns
<1>5. /\ \A i \in UpdateIds : package'.previous[i] \in {package.previous[i], NoFile}
      /\ package.active = NoFile /\ package'.previous = package.previous
  BY <1>1, <1>2, <1>3
<1>6. UpdateInv'
  BY <1>1, <1>2, <1>3, <1>4, <1>5, MoveGoes
<1> QED BY <1>2, <1>3, <1>6

LEMMA ActivatePackageStep ==
  ASSUME UpdateInv, Update!Activate
  PROVE  UpdateInv' /\ Update!Kept(package) \subseteq Update!Kept(package')
<1> DEFINE id == update.tx[1]
<1>1. /\ update.pc = "activate" /\ runs' = runs /\ state' = state /\ atStop' = atStop
      /\ Update!UnchangedSlots /\ installed' = installed
      /\ id \in UpdateIds /\ package \in Update!Files /\ update.tx[2] = "apply"
      /\ package.active = NoFile /\ package.previous[id] # NoFile /\ runs = NoFile
      /\ update.content \in Contents
  BY DEF Update!Activate, Update!FileStep, Update!UnchangedSlots, UpdateInv, PlaceInv, Off,
         Update!TypeOK, Update!Transactions
<1>2. PICK r \in Update!Install(package, id, update.content) :
        package' = r.files /\ IF r.end = "returned" THEN Update!Goto("start") ELSE Update!Fails
  BY DEF Update!Activate, Update!FileStep, Update!id
<1>3. /\ r.files \in Update!Files /\ r.files.previous = package.previous
      /\ r.end = "returned" => r.files.active = update.content
      /\ Update!Kept(package) \subseteq Update!Kept(r.files)
  BY <1>1, SameMoves, SlotAssumption, Slots!InstallKeeps
<1>4. ASSUME Update!Goto("start"), r.end = "returned"
      PROVE  SameUpdate /\ PlaceInv' /\ outcomes' = outcomes /\ update'.pc = "start"
  <2>1. SameUpdate /\ outcomes' = outcomes /\ update'.pc = "start"
    BY <1>4, Goes DEF UpdateInv, Places, Update!Applying
  <2> QED BY <1>1, <1>2, <1>3, <1>4, <2>1
          DEF PlaceInv, Off, SameUpdate, Update!RolledBackRestores, Update!ActiveRuns
<1>5. /\ \A i \in UpdateIds : package'.previous[i] \in {package.previous[i], NoFile}
      /\ package.active = NoFile /\ package'.previous = package.previous
  BY <1>1, <1>2, <1>3
<1>6. UpdateInv'
  BY <1>1, <1>2, <1>3, <1>4, <1>5, MoveGoes
<1> QED BY <1>2, <1>3, <1>6

LEMMA QuarantinePackageStep ==
  ASSUME UpdateInv, Update!QuarantineStep
  PROVE  UpdateInv' /\ Update!Kept(package) \subseteq Update!Kept(package')
<1> DEFINE id == update.tx[1]
<1>1. /\ update.pc = "quarantine" /\ runs' = runs /\ state' = state /\ atStop' = atStop
      /\ Update!UnchangedSlots /\ installed' = installed
      /\ id \in UpdateIds /\ package \in Update!Files /\ runs = NoFile
  BY DEF Update!QuarantineStep, Update!FileStep, Update!UnchangedSlots, UpdateInv, PlaceInv, Off,
         Update!TypeOK, Update!Transactions
<1>2. PICK r \in Update!Quarantine(package, id) :
        package' = r.files /\ IF r.end = "returned" THEN Update!Goto("restore") ELSE Update!Fails
  BY DEF Update!QuarantineStep, Update!FileStep, Update!id
<1>3. /\ r.files \in Update!Files /\ r.files.previous = package.previous
      /\ r.end = "returned" => r.files.active = NoFile /\ package.previous[id] # NoFile
      /\ r.files.active = NoFile /\ package.active # NoFile => package.previous[id] # NoFile
      /\ Update!Kept(package) \subseteq Update!Kept(r.files)
  BY <1>1, SameMoves, SlotAssumption, Slots!QuarantineKeeps
<1>4. ASSUME Update!Goto("restore"), r.end = "returned"
      PROVE  SameUpdate /\ PlaceInv' /\ outcomes' = outcomes /\ update'.pc = "restore"
  <2>1. SameUpdate /\ outcomes' = outcomes /\ update'.pc = "restore"
    BY <1>4, Goes DEF UpdateInv, Places, Update!Undo
  <2> QED BY <1>1, <1>2, <1>3, <1>4, <2>1
          DEF PlaceInv, Off, SameUpdate, Update!RolledBackRestores, Update!ActiveRuns
<1>5. /\ \A i \in UpdateIds : package'.previous[i] \in {package.previous[i], NoFile}
      /\ package'.active = NoFile =>
           \/ package.active = NoFile /\ package'.previous = package.previous
           \/ package'.previous[id] # NoFile
  BY <1>1, <1>2, <1>3
<1>6. UpdateInv'
  BY <1>1, <1>2, <1>3, <1>4, <1>5, MoveGoes
<1> QED BY <1>2, <1>3, <1>6

LEMMA RestorePackageStep ==
  ASSUME UpdateInv, Update!RestoreStep
  PROVE  UpdateInv' /\ Update!Kept(package) \subseteq Update!Kept(package')
<1> DEFINE id == update.tx[1]
<1>1. /\ update.pc = "restore" /\ runs' = runs /\ state' = state /\ atStop' = atStop
      /\ Update!UnchangedSlots /\ installed' = installed
      /\ id \in UpdateIds /\ package \in Update!Files /\ runs = NoFile
      /\ package.active = NoFile /\ package.previous[id] # NoFile
      /\ package.previous[id] = installed[id]
  BY DEF Update!RestoreStep, Update!FileStep, Update!UnchangedSlots, UpdateInv, PlaceInv, SlotInv, Off,
         Update!TypeOK, Update!Transactions
<1>2. PICK r \in Update!RestorePrevious(package, id) :
        package' = r.files /\ IF r.end = "returned" THEN Update!Goto("copy_state") ELSE Update!Fails
  BY DEF Update!RestoreStep, Update!FileStep, Update!id
<1>3. /\ r.files \in Update!Files
      /\ \A i \in UpdateIds : r.files.previous[i] \in {package.previous[i], NoFile}
      /\ r.end = "returned" => r.files.active = package.previous[id]
      /\ r.files = package \/ r.files.active = package.previous[id]
      /\ Update!Kept(package) \subseteq Update!Kept(r.files)
  BY <1>1, SameMoves, SlotAssumption, Slots!RestoreKeeps
<1>4. ASSUME Update!Goto("copy_state"), r.end = "returned"
      PROVE  SameUpdate /\ PlaceInv' /\ outcomes' = outcomes /\ update'.pc = "copy_state"
  <2>1. SameUpdate /\ outcomes' = outcomes /\ update'.pc = "copy_state"
    BY <1>4, Goes DEF UpdateInv, Places, Update!Undo
  <2> QED BY <1>1, <1>2, <1>3, <1>4, <2>1
          DEF PlaceInv, Off, SameUpdate, Update!RolledBackRestores, Update!ActiveRuns
<1>5. /\ \A i \in UpdateIds : package'.previous[i] \in {package.previous[i], NoFile}
      /\ package'.active = NoFile => package'.previous = package.previous
  BY <1>1, <1>2, <1>3
<1>6. UpdateInv'
  BY <1>1, <1>2, <1>3, <1>4, <1>5, MoveGoes
<1> QED BY <1>2, <1>3, <1>6

LEMMA UpdateStep ==
  ASSUME UpdateInv, Update!Next
  PROVE  UpdateInv'
<1>1. ASSUME NEW d \in Update!Dirs, Update!ServiceWrites(d) PROVE UpdateInv'
  BY <1>1, WriteStep
<1>2. ASSUME NEW i \in UpdateIds, Update!Rollback(i) PROVE UpdateInv'
  BY <1>2, RollbackStep
<1>3. ASSUME NEW i \in UpdateIds, NEW content \in Contents, Update!Apply(i, content) PROVE UpdateInv'
  BY <1>3, ApplyStep
<1> QED
  BY <1>1, <1>2, <1>3, ReturnStep, SnapshotStep, BackupStep, CopyStateStep, MoveStateStep,
     VerifyStep, StopStep, StartStep, HealthStep, StagePackageStep, CopyPackageStep,
     ActivatePackageStep, QuarantinePackageStep, RestorePackageStep DEF Update!Next

(* A behaviour of both is one of the update, or leaves the update alone. *)
LEMMA UpdateHolds == BothSpec => []UpdateInv
<1>1. BothInit => UpdateInv
  BY InitSound DEF BothInit
<1>2. UpdateInv /\ [BothNext]_<<vars, updateVars, part>> => UpdateInv'
  <2> SUFFICES ASSUME UpdateInv, [BothNext]_<<vars, updateVars, part>> PROVE UpdateInv'
    OBVIOUS
  <2>1. CASE UNCHANGED updateVars
    <3>1. UNCHANGED <<package, runs, state, backups, restores, damaged, used, update, outcomes,
                      writes, installed, atStop>>
      BY <2>1 DEF updateVars
    <3>2. Update!TypeOK'
      BY <3>1 DEF UpdateInv, Update!TypeOK
    <3>3. PlaceInv' /\ SlotInv'
      BY <3>1 DEF UpdateInv, PlaceInv, SlotInv, Busy, Update!RolledBackRestores, Update!ActiveRuns,
                  Update!id
    <3>4. StateInv'
      BY <3>1 DEF UpdateInv, StateInv, Busy, Update!Whole
    <3> QED BY <3>2, <3>3, <3>4 DEF UpdateInv
  <2>2. CASE Update!Next
    BY <2>2, UpdateStep
  <2> QED BY <2>1, <2>2 DEF BothNext
<1> QED BY <1>1, <1>2, PTL DEF BothSpec

(* An update reported active or rolled back is, whatever failed before; when no
   package is active, the one that was can be put back; the service never runs
   with a protected directory missing. *)
THEOREM UpdateCorrect == BothSpec => []UpdateIsSound
<1>1. UpdateInv => UpdateIsSound
  <2> SUFFICES ASSUME UpdateInv PROVE UpdateIsSound
    OBVIOUS
  <2>1. Update!PriorIsRecoverable
    BY DEF UpdateInv, SlotInv, Update!PriorIsRecoverable
  <2>2. Update!RunsWhole
    BY DEF UpdateInv, StateInv, Update!RunsWhole
  <2> QED BY <2>1, <2>2 DEF UpdateInv, PlaceInv, UpdateIsSound
<1> QED BY <1>1, UpdateHolds, PTL

-----------------------------------------------------------------------------
(* The versions of a protected directory: what each path holds of it. *)
LEMMA VersionMember ==
  ASSUME NEW v
  PROVE  v \in Update!Versions <=>
           \E d \in Update!Dirs :
             \/ state[d] # Update!Gone /\ v = <<d, state[d]>>
             \/ \E t \in Update!Transactions :
                  \/ backups[t][d] # Update!Gone /\ v = <<d, backups[t][d]>>
                  \/ restores[t][d] # Update!Gone /\ v = <<d, restores[t][d]>>
                  \/ damaged[t][d] # Update!Gone /\ v = <<d, damaged[t][d]>>
BY DEF Update!Versions

(* A slot that is filled was empty, so nothing in it is overwritten. *)
LEMMA FillingKeeps ==
  ASSUME UpdateInv, Update!Backup \/ Update!CopyState
  PROVE  Update!Versions \subseteq Update!Versions'
<1>1. /\ update.tx \in Update!Transactions /\ state' = state /\ damaged' = damaged
      /\ backups \in [Update!Transactions -> Update!Tree]
      /\ restores \in [Update!Transactions -> Update!Tree]
  BY DEF UpdateInv, Update!TypeOK, Update!Backup, Update!CopyState
<1>2. \A t \in Update!Transactions : backups'[t] = backups[t] \/ backups[t] = Update!NoTree
  BY <1>1 DEF UpdateInv, StateInv, Update!Backup, Update!CopyState, Update!tx
<1>3. \A t \in Update!Transactions : restores'[t] = restores[t] \/ restores[t] = Update!NoTree
  BY <1>1 DEF UpdateInv, StateInv, Update!Backup, Update!CopyState, Update!tx
<1>4. \A d \in Update!Dirs : Update!NoTree[d] = Update!Gone
  BY DEF Update!NoTree
<1>5. ASSUME NEW v, v \in Update!Versions PROVE v \in Update!Versions'
  <2>1. PICK d \in Update!Dirs :
             \/ state[d] # Update!Gone /\ v = <<d, state[d]>>
             \/ \E t \in Update!Transactions :
                  \/ backups[t][d] # Update!Gone /\ v = <<d, backups[t][d]>>
                  \/ restores[t][d] # Update!Gone /\ v = <<d, restores[t][d]>>
                  \/ damaged[t][d] # Update!Gone /\ v = <<d, damaged[t][d]>>
    BY <1>5, VersionMember
  <2>2. \/ state'[d] # Update!Gone /\ v = <<d, state'[d]>>
        \/ \E t \in Update!Transactions :
             \/ backups'[t][d] # Update!Gone /\ v = <<d, backups'[t][d]>>
             \/ restores'[t][d] # Update!Gone /\ v = <<d, restores'[t][d]>>
             \/ damaged'[t][d] # Update!Gone /\ v = <<d, damaged'[t][d]>>
    BY <1>1, <1>2, <1>3, <1>4, <2>1
  <2> QED BY <2>2 DEF Update!Versions
<1> QED BY <1>5

(* What restore_state() moves away goes to damaged/, and what it moves from
   restores/ goes into its place or stays. *)
LEMMA MovingKeeps ==
  ASSUME UpdateInv, Update!MoveState
  PROVE  Update!Versions \subseteq Update!Versions'
<1>1. update.tx \in Update!Transactions /\ backups' = backups
  BY DEF UpdateInv, Update!TypeOK, Update!MoveState
<1>2. CASE UNCHANGED <<state, damaged, restores>>
  BY <1>1, <1>2 DEF Update!Versions
<1>3. ASSUME NEW left \in [Update!Dirs -> {"old", "new", "gone"}], Update!MoveDirs(left),
             update.tx \notin used.damaged
      PROVE  Update!Versions \subseteq Update!Versions'
  <2>1. /\ \A t \in Update!Transactions \ {update.tx} :
             restores'[t] = restores[t] /\ damaged'[t] = damaged[t]
        /\ \A d \in Update!Dirs :
             /\ left[d] = "old" => state'[d] = state[d]
             /\ left[d] = "new" => state'[d] = restores[update.tx][d]
             /\ left[d] # "old" => damaged'[update.tx][d] = state[d]
             /\ left[d] # "new" => restores'[update.tx][d] = restores[update.tx][d]
    BY <1>3, MoveDirsLeaves
  <2>2. \A d \in Update!Dirs : damaged[update.tx][d] = Update!Gone
    BY <1>1, <1>3 DEF UpdateInv, StateInv, Update!NoTree
  <2>3. ASSUME NEW v, v \in Update!Versions PROVE v \in Update!Versions'
    <3>1. PICK d \in Update!Dirs :
               \/ state[d] # Update!Gone /\ v = <<d, state[d]>>
               \/ \E t \in Update!Transactions :
                    \/ backups[t][d] # Update!Gone /\ v = <<d, backups[t][d]>>
                    \/ restores[t][d] # Update!Gone /\ v = <<d, restores[t][d]>>
                    \/ damaged[t][d] # Update!Gone /\ v = <<d, damaged[t][d]>>
      BY <2>3, VersionMember
    <3>2. left[d] \in {"old", "new", "gone"}
      OBVIOUS
    <3>3. CASE state[d] # Update!Gone /\ v = <<d, state[d]>>
      <4>1. \/ state'[d] # Update!Gone /\ v = <<d, state'[d]>>
            \/ damaged'[update.tx][d] # Update!Gone /\ v = <<d, damaged'[update.tx][d]>>
        BY <2>1, <3>3
      <4> QED BY <1>1, <4>1 DEF Update!Versions
    <3>4. ASSUME NEW t \in Update!Transactions, restores[t][d] # Update!Gone, v = <<d, restores[t][d]>>
          PROVE  v \in Update!Versions'
      <4>1. \/ state'[d] # Update!Gone /\ v = <<d, state'[d]>>
            \/ restores'[t][d] # Update!Gone /\ v = <<d, restores'[t][d]>>
        BY <2>1, <3>4
      <4> QED BY <4>1 DEF Update!Versions
    <3>5. ASSUME NEW t \in Update!Transactions, damaged[t][d] # Update!Gone, v = <<d, damaged[t][d]>>
          PROVE  v \in Update!Versions'
      <4>1. damaged'[t][d] # Update!Gone /\ v = <<d, damaged'[t][d]>>
        BY <2>1, <2>2, <3>5
      <4> QED BY <4>1 DEF Update!Versions
    <3>6. ASSUME NEW t \in Update!Transactions, backups[t][d] # Update!Gone, v = <<d, backups[t][d]>>
          PROVE  v \in Update!Versions'
      <4>1. backups'[t][d] # Update!Gone /\ v = <<d, backups'[t][d]>>
        BY <1>1, <3>6
      <4> QED BY <4>1 DEF Update!Versions
    <3> QED BY <3>1, <3>3, <3>4, <3>5, <3>6
  <2> QED BY <2>3
<1>4. [d \in Update!Dirs |-> "new"] \in [Update!Dirs -> {"old", "new", "gone"}]
  OBVIOUS
<1>5. Update!HalfMoved \subseteq [Update!Dirs -> {"old", "new", "gone"}]
  BY DEF Update!HalfMoved, Update!Interrupted
<1> QED BY <1>2, <1>3, <1>4, <1>5 DEF Update!MoveState, Update!tx

LEMMA StepOverwritesNothing ==
  ASSUME UpdateInv, Update!Next
  PROVE  /\ Update!Kept(package) \subseteq Update!Kept(package')
         /\ writes' = writes => Update!Versions \subseteq Update!Versions'
<1>1. CASE \E d \in Update!Dirs : Update!ServiceWrites(d)
  BY <1>1 DEF Update!ServiceWrites, UpdateInv, Update!TypeOK, Update!Version
<1>2. CASE UNCHANGED <<package, state, Update!slots>>
  BY <1>2 DEF Update!slots, Update!Versions
<1>3. CASE Update!Backup \/ Update!CopyState
  <2>1. package' = package
    BY <1>3 DEF Update!Backup, Update!CopyState
  <2> QED BY <1>3, <2>1, FillingKeeps
<1>4. CASE Update!MoveState
  <2>1. package' = package
    BY <1>4 DEF Update!MoveState
  <2> QED BY <1>4, <2>1, MovingKeeps
<1>5. CASE \/ Update!StageCurrent \/ Update!CopyPackage \/ Update!Activate
           \/ Update!QuarantineStep \/ Update!RestoreStep
  <2>1. Update!Kept(package) \subseteq Update!Kept(package')
    BY <1>5, StagePackageStep, CopyPackageStep, ActivatePackageStep, QuarantinePackageStep,
       RestorePackageStep
  <2>2. UNCHANGED <<state, backups, restores, damaged>>
    BY <1>5 DEF Update!StageCurrent, Update!CopyPackage, Update!Activate, Update!QuarantineStep,
                Update!RestoreStep, Update!FileStep, Update!UnchangedSlots, Update!slots
  <2> QED BY <2>1, <2>2 DEF Update!Versions
<1>6. CASE \/ \E i \in UpdateIds : Update!Rollback(i) \/ \E content \in Contents : Update!Apply(i, content)
           \/ Update!Return
  BY <1>2, <1>6 DEF Update!Rollback, Update!Apply, Update!Return
<1>7. CASE \/ Update!Snapshot \/ Update!VerifyState \/ Update!StopService \/ Update!StartService
           \/ Update!CheckHealth
  BY <1>2, <1>7 DEF Update!Snapshot, Update!VerifyState, Update!StopService, Update!StartService,
                    Update!CheckHealth, Update!UnchangedSlots
<1> QED BY <1>1, <1>3, <1>4, <1>5, <1>6, <1>7 DEF Update!Next

(* No step, failure or half-done rename overwrites a package that was ever
   installed or, the service's own writes aside, a version of its state. *)
THEOREM NothingIsOverwritten == BothSpec => NothingOverwritten
<1> DEFINE KeepsAll ==
      /\ Update!Kept(package) \subseteq Update!Kept(package')
      /\ writes' = writes => Update!Versions \subseteq Update!Versions'
<1>1. UpdateInv /\ [BothNext]_<<vars, updateVars, part>> => [KeepsAll]_(Update!vars)
  <2> SUFFICES ASSUME UpdateInv, [BothNext]_<<vars, updateVars, part>>
               PROVE  [KeepsAll]_(Update!vars)
    OBVIOUS
  <2>1. CASE UNCHANGED updateVars
    BY <2>1 DEF updateVars, Update!vars, Update!slots
  <2>2. CASE Update!Next
    BY <2>2, StepOverwritesNothing
  <2> QED BY <2>1, <2>2 DEF BothNext
<1>2. [][KeepsAll]_(Update!vars) => NothingOverwritten
  BY DEF NothingOverwritten, Update!NothingOverwritten
<1> QED BY <1>1, <1>2, UpdateHolds, PTL DEF BothSpec
=============================================================================
