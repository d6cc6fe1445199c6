------------------------------ MODULE SlotStore ------------------------------
(* The files a deployment or an update moves around: the active file, and one
   rollback slot, one quarantine slot and one staging copy per transaction id.
   FileDeploymentBackend and FileReleaseUpdateBackend do the same moves with
   the same guards, so both models are built from these operators.

   Every operator gives the set of results the code can produce: how the call
   ended, "returned" or "thrown", and the files it leaves.  A file is the
   artifact it contains; a staging copy is only there or not. *)

CONSTANTS
  Ids,        \* deployment or update ids
  Contents,   \* artifacts and packages
  NoFile      \* the path does not exist

ASSUME SlotAssumption == NoFile \notin Contents

Slot == Contents \cup {NoFile}

Files == [active: Slot, previous: [Ids -> Slot], failed: [Ids -> Slot],
          part: SUBSET Ids]

InitialFiles(content) ==
  [active |-> content, previous |-> [i \in Ids |-> NoFile],
   failed |-> [i \in Ids |-> NoFile], part |-> {}]

(* Everything that can still be put back. *)
Kept(files) ==
  ({files.active} \cup {files.previous[i] : i \in Ids}
                  \cup {files.failed[i] : i \in Ids}) \ {NoFile}

Refuse(files) == {[end |-> "thrown", files |-> files]}

(* atomic_replace renames and then flushes the directory: it can throw before
   the rename or after it. *)
Replace(files, renamed) ==
  {[end |-> "returned", files |-> renamed], [end |-> "thrown", files |-> renamed],
   [end |-> "thrown", files |-> files]}

StagePrevious(files, id) ==
  IF files.active = NoFile \/ files.previous[id] # NoFile
  THEN Refuse(files)
  ELSE Replace(files, [files EXCEPT !.previous[id] = files.active, !.active = NoFile])

(* install() and activate(), up to the flush of the staging copy. *)
CopyArtifact(files, id) ==
  IF id \in files.part
  THEN Refuse(files)
  ELSE Replace(files, [files EXCEPT !.part = @ \cup {id}])

(* Their rename onto the active path, which would overwrite a file there. *)
Install(files, id, content) ==
  Replace(files, [files EXCEPT !.active = content, !.part = @ \ {id}])

QuarantineUnchecked(files, id) ==
  IF files.active = NoFile
  THEN {[end |-> "returned", files |-> files]}
  ELSE Replace(files, [files EXCEPT !.failed[id] = files.active, !.active = NoFile])

QuarantineSkipped(files, id) ==
  IF files.previous[id] = NoFile THEN Refuse(files) ELSE {[end |-> "returned", files |-> files]}

(* restore_previous(): first the active file, if there is one, is moved away. *)
Quarantine(files, id) ==
  IF files.previous[id] = NoFile \/ (files.active # NoFile /\ files.failed[id] # NoFile)
  THEN Refuse(files)
  ELSE IF files.active = NoFile
       THEN {[end |-> "returned", files |-> files]}
       ELSE Replace(files, [files EXCEPT !.failed[id] = files.active, !.active = NoFile])

RestorePrevious(files, id) ==
  Replace(files, [files EXCEPT !.active = files.previous[id], !.previous[id] = NoFile])
=============================================================================
