---------------------------- MODULE SlotStoreProofs ----------------------------
(* What the moves of SlotStore return, whatever the ids and the contents. *)
EXTENDS SlotStore, TLAPS

(* atomic_replace leaves the directory before or after the rename. *)
LEMMA ReplaceLeaves ==
  ASSUME NEW f \in Files, NEW g \in Files, NEW r \in Replace(f, g)
  PROVE  r.end \in {"returned", "thrown"} /\ r.files \in {f, g} /\ (r.end = "returned" => r.files = g)
BY DEF Replace

(* A content that is on the active path or in one of the slots is kept. *)
LEMMA KeptMember ==
  ASSUME NEW f, NEW c
  PROVE  c \in Kept(f) <=>
           /\ c # NoFile
           /\ c = f.active \/ \E i \in Ids : c = f.previous[i] \/ c = f.failed[i]
BY DEF Kept

(* Moving the active file to an empty rollback slot keeps every file. *)
LEMMA MoveToPrevious ==
  ASSUME NEW f \in Files, NEW id \in Ids, f.previous[id] = NoFile
  PROVE  LET g == [f EXCEPT !.previous[id] = f.active, !.active = NoFile]
         IN  /\ g \in Files /\ g.active = NoFile
             /\ g.previous = [f.previous EXCEPT ![id] = f.active] /\ g.failed = f.failed
             /\ Kept(f) \subseteq Kept(g)
<1> DEFINE g == [f EXCEPT !.previous[id] = f.active, !.active = NoFile]
<1>1. /\ g \in Files /\ g.active = NoFile /\ f.previous \in [Ids -> Slot]
      /\ g.previous = [f.previous EXCEPT ![id] = f.active] /\ g.failed = f.failed
  BY DEF Files, Slot
<1>2. ASSUME NEW c \in Kept(f) PROVE c \in Kept(g)
  <2>1. c # NoFile /\ (c = f.active \/ \E i \in Ids : c = f.previous[i] \/ c = f.failed[i])
    BY <1>2, KeptMember
  <2>2. \E i \in Ids : c = g.previous[i] \/ c = g.failed[i]
    BY <1>1, <2>1
  <2> QED BY <2>1, <2>2, KeptMember
<1> QED BY <1>1, <1>2

(* Moving the active file to an empty quarantine slot keeps every file. *)
LEMMA MoveToFailed ==
  ASSUME NEW f \in Files, NEW id \in Ids, f.failed[id] = NoFile
  PROVE  LET g == [f EXCEPT !.failed[id] = f.active, !.active = NoFile]
         IN  /\ g \in Files /\ g.active = NoFile
             /\ g.failed = [f.failed EXCEPT ![id] = f.active] /\ g.previous = f.previous
             /\ Kept(f) \subseteq Kept(g)
<1> DEFINE g == [f EXCEPT !.failed[id] = f.active, !.active = NoFile]
<1>1. /\ g \in Files /\ g.active = NoFile /\ f.failed \in [Ids -> Slot]
      /\ g.failed = [f.failed EXCEPT ![id] = f.active] /\ g.previous = f.previous
  BY DEF Files, Slot
<1>2. ASSUME NEW c \in Kept(f) PROVE c \in Kept(g)
  <2>1. c # NoFile /\ (c = f.active \/ \E i \in Ids : c = f.previous[i] \/ c = f.failed[i])
    BY <1>2, KeptMember
  <2>2. \E i \in Ids : c = g.previous[i] \/ c = g.failed[i]
    BY <1>1, <2>1
  <2> QED BY <2>1, <2>2, KeptMember
<1> QED BY <1>1, <1>2

(* stage_previous() keeps every file: it refuses a slot in use. *)
LEMMA StageKeeps ==
  ASSUME NEW f \in Files, NEW id \in Ids, NEW r \in StagePrevious(f, id)
  PROVE  /\ r.end \in {"returned", "thrown"} /\ r.files \in Files
         /\ r.end = "returned" =>
              /\ f.active # NoFile /\ f.previous[id] = NoFile /\ r.files.active = NoFile
              /\ r.files.previous = [f.previous EXCEPT ![id] = f.active]
         /\ r.files # f =>
              /\ f.active # NoFile /\ f.previous[id] = NoFile /\ r.files.active = NoFile
              /\ r.files.previous = [f.previous EXCEPT ![id] = f.active]
         /\ Kept(f) \subseteq Kept(r.files)
<1> DEFINE g == [f EXCEPT !.previous[id] = f.active, !.active = NoFile]
<1>1. CASE f.active = NoFile \/ f.previous[id] # NoFile
  BY <1>1 DEF StagePrevious, Refuse
<1>2. CASE ~(f.active = NoFile \/ f.previous[id] # NoFile)
  <2>1. /\ g \in Files /\ Kept(f) \subseteq Kept(g) /\ g.active = NoFile
        /\ g.previous = [f.previous EXCEPT ![id] = f.active]
    BY <1>2, MoveToPrevious
  <2>2. r \in Replace(f, g)
    BY <1>2 DEF StagePrevious
  <2> HIDE DEF g
  <2> QED BY <1>2, <2>1, <2>2, ReplaceLeaves
<1> QED BY <1>1, <1>2

(* The staging copy touches none of the slots. *)
LEMMA CopyKeeps ==
  ASSUME NEW f \in Files, NEW id \in Ids, NEW r \in CopyArtifact(f, id)
  PROVE  /\ r.end \in {"returned", "thrown"} /\ r.files \in Files
         /\ r.files.active = f.active /\ r.files.previous = f.previous
         /\ Kept(f) \subseteq Kept(r.files)
<1> DEFINE g == [f EXCEPT !.part = @ \cup {id}]
<1>1. g \in Files /\ g.active = f.active /\ g.previous = f.previous /\ g.failed = f.failed
  BY DEF Files
<1>2. Kept(g) = Kept(f)
  BY <1>1 DEF Kept
<1>3. CASE id \in f.part
  BY <1>3 DEF CopyArtifact, Refuse
<1>4. CASE id \notin f.part
  <2>1. r \in Replace(f, g)
    BY <1>4 DEF CopyArtifact
  <2> HIDE DEF g
  <2> QED BY <1>1, <1>2, <2>1, ReplaceLeaves
<1> QED BY <1>3, <1>4

(* install() keeps everything only where nothing is active. *)
LEMMA InstallKeeps ==
  ASSUME NEW f \in Files, NEW id \in Ids, NEW content \in Contents,
         NEW r \in Install(f, id, content)
  PROVE  /\ r.end \in {"returned", "thrown"} /\ r.files \in Files
         /\ r.files.previous = f.previous
         /\ r.end = "returned" => r.files.active = content
         /\ r.files.active \in {f.active, content}
         /\ f.active = NoFile => Kept(f) \subseteq Kept(r.files)
<1> DEFINE g == [f EXCEPT !.active = content, !.part = @ \ {id}]
<1>1. g \in Files /\ g.active = content /\ g.previous = f.previous /\ g.failed = f.failed
  BY DEF Files, Slot
<1>2. f.active = NoFile => Kept(f) \subseteq Kept(g)
  BY <1>1 DEF Kept
<1>3. r \in Replace(f, g)
  BY DEF Install
<1> HIDE DEF g
<1> QED BY <1>1, <1>2, <1>3, ReplaceLeaves

(* The first move of restore_previous() needs a rollback slot that is filled,
   and leaves no active file when it returns. *)
LEMMA QuarantineKeeps ==
  ASSUME NEW f \in Files, NEW id \in Ids, NEW r \in Quarantine(f, id)
  PROVE  /\ r.end \in {"returned", "thrown"} /\ r.files \in Files
         /\ r.files.previous = f.previous
         /\ r.end = "returned" => r.files.active = NoFile /\ f.previous[id] # NoFile
         /\ r.files.active = NoFile /\ f.active # NoFile => f.previous[id] # NoFile
         /\ Kept(f) \subseteq Kept(r.files)
<1> DEFINE g == [f EXCEPT !.failed[id] = f.active, !.active = NoFile]
<1>1. CASE f.previous[id] = NoFile \/ (f.active # NoFile /\ f.failed[id] # NoFile)
  BY <1>1 DEF Quarantine, Refuse
<1>2. CASE f.previous[id] # NoFile /\ f.active = NoFile
  BY <1>2 DEF Quarantine
<1>3. CASE f.previous[id] # NoFile /\ f.active # NoFile /\ f.failed[id] = NoFile
  <2>1. /\ g \in Files /\ Kept(f) \subseteq Kept(g)
        /\ g.previous = f.previous /\ g.active = NoFile
    BY <1>3, MoveToFailed
  <2>2. r \in Replace(f, g)
    BY <1>3 DEF Quarantine
  <2> HIDE DEF g
  <2> QED BY <1>3, <2>1, <2>2, ReplaceLeaves
<1> QED BY <1>1, <1>2, <1>3

(* ... and the second one fills the active path from that slot. *)
LEMMA RestoreKeeps ==
  ASSUME NEW f \in Files, NEW id \in Ids, NEW r \in RestorePrevious(f, id)
  PROVE  /\ r.end \in {"returned", "thrown"} /\ r.files \in Files
         /\ \A i \in Ids : r.files.previous[i] \in {f.previous[i], NoFile}
         /\ r.end = "returned" => r.files.active = f.previous[id]
         /\ r.files = f \/ r.files.active = f.previous[id]
         /\ f.active = NoFile => Kept(f) \subseteq Kept(r.files)
<1> DEFINE g == [f EXCEPT !.active = f.previous[id], !.previous[id] = NoFile]
<1>1. /\ g \in Files /\ g.active = f.previous[id] /\ g.failed = f.failed
      /\ g.previous = [f.previous EXCEPT ![id] = NoFile] /\ f.previous \in [Ids -> Slot]
  BY DEF Files, Slot
<1>2. f.active = NoFile => Kept(f) \subseteq Kept(g)
  BY <1>1 DEF Kept
<1>3. r \in Replace(f, g)
  BY DEF RestorePrevious
<1> HIDE DEF g
<1> QED BY <1>1, <1>2, <1>3, ReplaceLeaves
=============================================================================
