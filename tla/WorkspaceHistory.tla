---------------------------- MODULE WorkspaceHistory ----------------------------
(* The revisions of a workspace: the difference of two manifests, which finds  *)
(* renames, its application to the older one, and the history of the revisions *)
(* that were synchronised.                                                     *)
EXTENDS Naturals, Sequences, SequencesExt

CONSTANTS
    PathCount,   \* paths of a workspace, which are numbered in the order of their names
    Contents,    \* contents of a file, with their sizes
    Modes,       \* permissions
    Records,     \* capacity_ of the history
    MaxRevision  \* bound: revisions

WorkspaceHistoryConstants ==
    /\ PathCount \in Nat /\ Records \in Nat \ {0} /\ MaxRevision \in Nat

Paths == 1 .. PathCount

VARIABLES
    state,     \* WorkspaceSyncState
    revision,  \* pending_revision_, or 0
    records,   \* records_: the revisions of the manifests
    failed,    \* a failure_reason_ is kept
    mirror,    \* the entries of the destination
    begun      \* history: revisions begun, failed ones too

vars == <<state, revision, records, failed, mirror, begun>>

\* A directory has no content, and is never renamed.
Directory == [content |-> "", mode |-> 0]
Entries == [content : Contents, mode : Modes] \cup {Directory}
Manifests == UNION {[paths -> Entries] : paths \in SUBSET Paths}

IsFile(entry) == entry /= Directory

-----------------------------------------------------------------------------
(* diff_manifests: paths of the source in their order, then what is removed.   *)

Change(kind, path, previous) == [kind |-> kind, path |-> path, previous |-> previous]

\* equivalent_content of a file whose path is gone.
Moved(source, destination, path) ==
    {old \in DOMAIN destination \ DOMAIN source :
        /\ IsFile(source[path]) /\ IsFile(destination[old])
        /\ source[path].content = destination[old].content}

Consumed(changes) == {changes[i].previous : i \in {j \in DOMAIN changes : changes[j].kind = "rename"}}

\* Mutant: two new paths are renamed from one old path.
RenamedTwice(source, destination, path, changes) == Moved(source, destination, path)
Renamed(source, destination, path, changes) ==
    Moved(source, destination, path) \ Consumed(changes)

First(paths) == CHOOSE path \in paths : \A other \in paths : path <= other

Appears(source, destination, path, changes) ==
    LET candidates == Renamed(source, destination, path, changes)
    IN  IF candidates = {} THEN Change("create", path, 0)
        ELSE Change("rename", path, First(candidates))

Alters(source, destination, path) ==
    Change(IF source[path].content = destination[path].content THEN "metadata" ELSE "update", path, 0)

\* Looks at one path, with the changes of the paths before it.
Compares(source, destination, path, changes) ==
    IF path \notin DOMAIN source THEN changes
    ELSE IF path \notin DOMAIN destination
        THEN Append(changes, Appears(source, destination, path, changes))
    ELSE IF source[path] /= destination[path]
        THEN Append(changes, Alters(source, destination, path))
    ELSE changes

Found(source, destination) ==
    LET upto[path \in 0 .. PathCount] ==
          IF path = 0 THEN <<>> ELSE Compares(source, destination, path, upto[path - 1])
    IN  upto[PathCount]

Gone(source, destination, changes) == (DOMAIN destination \ DOMAIN source) \ Consumed(changes)

Removes(paths, changes) ==
    LET upto[path \in 0 .. PathCount] ==
          IF path = 0 THEN changes
          ELSE IF path \in paths THEN Append(upto[path - 1], Change("remove", path, 0))
          ELSE upto[path - 1]
    IN  upto[PathCount]

Diff(source, destination) ==
    LET kept == Found(source, destination)
    IN  Removes(Gone(source, destination, kept), kept)

-----------------------------------------------------------------------------
(* apply_manifest_diff, entry by entry.                                        *)

Without(entries, path) == [other \in DOMAIN entries \ {path} |-> entries[other]]
With(entries, path, entry) ==
    [other \in DOMAIN entries \cup {path} |-> IF other = path THEN entry ELSE entries[other]]

\* A change that removes or renames must find its entry.
Throws == [thrown |-> TRUE, entries |-> <<>>]

AppliedTo(source, result, change) ==
    LET removed == IF change.kind = "remove" THEN change.path ELSE change.previous
    IN  IF result.thrown THEN Throws
        ELSE IF change.kind \in {"remove", "rename"} /\ removed \notin DOMAIN result.entries THEN Throws
        ELSE [thrown |-> FALSE, entries |->
                CASE change.kind = "remove" -> Without(result.entries, removed)
                  [] change.kind = "rename" ->
                       With(Without(result.entries, removed), change.path, source[change.path])
                  [] OTHER -> With(result.entries, change.path, source[change.path])]

Apply(source, destination, changes) ==
    LET upto[i \in 0 .. Len(changes)] ==
          IF i = 0 THEN [thrown |-> FALSE, entries |-> destination]
          ELSE AppliedTo(source, upto[i - 1], changes[i])
    IN  upto[Len(changes)]

-----------------------------------------------------------------------------
(* WorkspaceRevisionHistory.                                                   *)

Current == IF records = <<>> THEN 0 ELSE records[Len(records)].revision

Init ==
    /\ state = "idle" /\ revision = 0 /\ records = <<>> /\ failed = FALSE
    /\ mirror = [path \in {} |-> Directory] /\ begun = 0

Begin ==
    /\ state /= "synchronizing" /\ Current < MaxRevision /\ begun < MaxRevision
    /\ state' = "synchronizing" /\ revision' = Current + 1 /\ failed' = FALSE
    /\ begun' = begun + 1
    /\ UNCHANGED <<records, mirror>>

\* Mutant: the record that is dropped is the newest.
KeepsOldest(all) == IF Len(all) > Records THEN Front(all) ELSE all
Kept(all) == IF Len(all) > Records THEN Tail(all) ELSE all

\* The manifest of the source is applied, and its hash recorded.
Commit(source) ==
    LET applied == Apply(source, mirror, Diff(source, mirror))
    IN  /\ state = "synchronizing" /\ ~applied.thrown
        /\ mirror' = applied.entries
        /\ records' = Kept(Append(records, [revision |-> revision, manifest |-> source]))
        /\ state' = "synced" /\ revision' = 0
        /\ UNCHANGED <<failed, begun>>

Fail ==
    /\ state = "synchronizing"
    /\ state' = "failed" /\ revision' = 0 /\ failed' = TRUE
    /\ UNCHANGED <<records, mirror, begun>>

Next == Begin \/ Fail \/ \E source \in Manifests : Commit(source)

Spec == Init /\ [][Next]_vars

-----------------------------------------------------------------------------

\* Whatever was added, moved, changed and removed at once, applying the
\* difference never throws and gives the source (workspace_sync.cpp:190).
DiffReachesSource ==
    state = "synchronizing" => \A source \in Manifests :
        Apply(source, mirror, Diff(source, mirror)) = [thrown |-> FALSE, entries |-> source]

\* The history is of the last revisions, without a gap in spite of failures,
\* and its last record is of what the destination holds.
HistoryIsConnected ==
    /\ Len(records) <= Records
    /\ \A i \in DOMAIN records : records[i].revision = Current + i - Len(records)
    /\ state = "synced" => records[Len(records)].manifest = mirror
    /\ state = "synchronizing" <=> revision = Current + 1

HistoryIsSound == DiffReachesSource /\ HistoryIsConnected
=============================================================================
