----------------------------- MODULE WorkspaceSync -----------------------------
(* One-way synchronisation of a source tree on Windows to its mirror on the Mac.
   The client scans the source into a manifest, the node answers which files it
   wants, the client sends each as a plan and the chunks the node misses, and a
   commit turns the mirror into the manifest, phase by phase.  The node serves
   one sync per process; the staging files of an interrupted transfer stay in
   the mirror and the next transfer of the same number continues them.

   A file is the sequence of its chunks, which all have the same size; two
   hashes are equal exactly when the chunks are.  Scanning the source is one
   step, and so is remove_all.  Modes, the ignore rules and the session around
   the sync are left out. *)
EXTENDS Naturals, Sequences, FiniteSets

CONSTANTS
  Paths,         \* the paths of the workspace
  Above,         \* the strict ancestors of a path
  Rank,          \* the order of the manifest's entries (by name)
  Chunks,        \* contents of a chunk
  NoPath,        \* no path: the target of what is not a link
  Torn,          \* what a chunk is when its writing was cut short
  Trees,         \* the trees the source may have
  MaxRevision,   \* bound: revisions
  MaxEdits,      \* bound: edits of the source
  MaxFaults      \* bound: lost connections and deaths of the node

Kinds == {"absent", "directory", "file", "symlink"}
Entry(kind, bytes, to) == [kind |-> kind, bytes |-> bytes, to |-> to]
Absent == Entry("absent", <<>>, NoPath)
Directory == Entry("directory", <<>>, NoPath)
File(bytes) == Entry("file", bytes, NoPath)
Link(path) == Entry("symlink", <<>>, path)
NoTree == [p \in Paths |-> Absent]

Numbers == 0..Cardinality(Paths)
Transfers == Paths \X Numbers
Bytes == Seq(Chunks \cup {Torn})
Indexes == Nat \ {0}

(* A link points at a top-level path that is a link in no tree. *)
ASSUME WorkspaceAssumption ==
  /\ IsFiniteSet(Paths) /\ NoPath \notin Paths /\ Torn \notin Chunks
  /\ Above \in [Paths -> SUBSET Paths]
  /\ Rank \in [Paths -> Nat]
  /\ \A p, q \in Paths : p # q => Rank[p] # Rank[q]
  /\ \A p \in Paths : \A q \in Above[p] : Rank[q] < Rank[p] /\ Above[q] \subseteq Above[p]
  /\ Trees \subseteq [Paths -> [kind : Kinds, bytes : Seq(Chunks), to : Paths \cup {NoPath}]]
  /\ NoTree \in Trees
  /\ \A tree \in Trees : \A p \in Paths :
       /\ tree[p].kind # "file" => tree[p].bytes = <<>>
       /\ IF tree[p].kind = "symlink"
          THEN /\ tree[p].to \in Paths /\ Above[tree[p].to] = {}
               /\ \A other \in Trees : other[tree[p].to].kind # "symlink"
          ELSE tree[p].to = NoPath
       /\ tree[p].kind # "absent" => \A q \in Above[p] : tree[q].kind = "directory"
  /\ MaxRevision \in Nat /\ MaxEdits \in Nat /\ MaxFaults \in Nat

VARIABLES
  source,    \* the source tree
  mirror,    \* the mirror, staging files aside
  staging,   \* staging[<<q, n>>]: what transfer n has beside the path q, <<>> when nothing
  state,     \* the workspace state file: revision and the tree its hash stands for
  client,    \* the client's sync
  wire,      \* the file stream: one message, nothing, or closed
  node,      \* the node's sync
  acked,     \* history: the tree the client was told is mirrored, until a later commit begins
  dirty,     \* history: a commit began and has not been recorded
  spoiled,   \* history: this sync met an edit, a lost connection or a death
  doomed,    \* history: the node began this sync from a mirror it cannot convert
  bounds     \* edits and faults so far

nodeVars == <<mirror, staging, state, node, dirty, doomed>>
clientVars == <<source, client, spoiled, bounds>>
vars == <<source, mirror, staging, state, client, wire, node, acked, dirty, spoiled, doomed, bounds>>

NoTransfer == [open |-> FALSE, at |-> NoPath, number |-> 0, got |-> {}, plan |-> <<>>]
NoTransfers == [p \in Paths |-> NoTransfer]
NoStaging == [t \in Transfers |-> <<>>]

Nothing == [type |-> "none"]
Closed == [type |-> "closed"]

First(set) == CHOOSE p \in set : \A q \in set : Rank[p] <= Rank[q]
FilesAndLinks(tree) ==
  [p \in Paths |-> IF tree[p].kind \in {"file", "symlink"} THEN tree[p] ELSE Absent]
Contents == {tree[p].bytes : tree \in Trees, p \in Paths}

ClientPhases == {"idle", "diff", "check", "plan", "missing", "send", "committed"}
NodePhases == {"off", "serving", "prepare", "directories", "finalize", "small",
               "extras", "verify", "reply", "persist"}
Message ==
  [type : {"none", "closed"}] \cup
  [type : {"manifest"}, rev : Nat, tree : Trees] \cup
  [type : {"diff"}, accepted : BOOLEAN, current : Nat, requested : SUBSET Paths] \cup
  [type : {"plan"}, path : Paths, number : Numbers, plan : Seq(Chunks)] \cup
  [type : {"missing"}, missing : SUBSET Indexes] \cup
  [type : {"chunk"}, path : Paths, index : Indexes, bytes : Chunks] \cup
  [type : {"commit"}] \cup
  [type : {"committed"}, accepted : BOOLEAN]

TypeOK ==
  /\ source \in Trees
  /\ mirror \in [Paths -> [kind : Kinds, bytes : Bytes, to : Paths \cup {NoPath}]]
  /\ staging \in [Transfers -> Bytes]
  /\ state \in [rev : Nat, tree : Trees]
  /\ client \in [pc : ClientPhases, rev : Nat, tree : Trees, todo : SUBSET Paths, number : Nat,
                 plan : Seq(Chunks), missing : SUBSET Indexes]
  /\ wire \in Message
  /\ node \in [pc : NodePhases, rev : Nat, tree : Trees, requested : SUBSET Paths,
               transfer : [Paths -> [open : BOOLEAN, at : Paths \cup {NoPath}, number : Numbers,
                                     got : SUBSET Indexes, plan : Seq(Chunks)]],
               left : SUBSET Paths]
  /\ acked \subseteq Trees
  /\ dirty \in BOOLEAN /\ spoiled \in BOOLEAN /\ doomed \in BOOLEAN
  /\ bounds \in [edits : Nat, faults : Nat]

ClientIdle(rev) ==
  [pc |-> "idle", rev |-> rev, tree |-> NoTree, todo |-> {}, number |-> 0,
   plan |-> <<>>, missing |-> {}]
NodeOff == [pc |-> "off", rev |-> 0, tree |-> NoTree, requested |-> {},
            transfer |-> NoTransfers, left |-> {}]

Init ==
  /\ source \in Trees
  /\ mirror = NoTree
  /\ staging = NoStaging
  /\ state = [rev |-> 0, tree |-> NoTree]
  /\ client = ClientIdle(1)
  /\ wire = Nothing
  /\ node = NodeOff
  /\ acked = {}
  /\ dirty = FALSE /\ spoiled = FALSE /\ doomed = FALSE
  /\ bounds = [edits |-> 0, faults |-> 0]

-----------------------------------------------------------------------------
(* The client.  Between two syncs its operator sets the revision that comes
   after the one it was last told of. *)

ClientStarts ==
  /\ client.pc = "idle" /\ node.pc = "off" /\ wire \in {Nothing, Closed}
  /\ client.rev <= MaxRevision
  /\ client' = [client EXCEPT !.pc = "diff", !.tree = source]
  /\ wire' = [type |-> "manifest", rev |-> client.rev, tree |-> source]
  /\ spoiled' = FALSE /\ doomed' = FALSE
  /\ UNCHANGED <<source, mirror, staging, state, node, acked, dirty, bounds>>

ClientFails ==
  /\ client' = ClientIdle(client.rev)
  /\ wire' = Closed

(* Of the files the node requests, the empty ones need no transfer. *)
ClientReadsDiff ==
  /\ client.pc = "diff" /\ wire.type = "diff"
  /\ client' = IF wire.accepted
               THEN [client EXCEPT !.pc = "check",
                       !.todo = {p \in wire.requested : client.tree[p].bytes # <<>>}]
               ELSE ClientIdle(wire.current + 1)
  /\ wire' = Nothing
  /\ UNCHANGED <<nodeVars, source, acked, spoiled, bounds>>

(* Reading the source follows a link. *)
SourceBytes(p) == source[IF source[p].kind = "symlink" THEN source[p].to ELSE p].bytes
Current == First(client.todo)
Size == Len(client.tree[Current].bytes)

(* make_plan() compares size and hash with the manifest, *)
ClientChecksFile ==
  /\ client.pc = "check" /\ client.todo # {}
  /\ IF SourceBytes(Current) = client.tree[Current].bytes
     THEN client' = [client EXCEPT !.pc = "plan", !.plan = <<>>] /\ UNCHANGED wire
     ELSE ClientFails
  /\ UNCHANGED <<nodeVars, source, acked, spoiled, bounds>>

(* then reads chunk after chunk for their hashes, and sends those. *)
ClientHashesChunk ==
  /\ client.pc = "plan" /\ Len(client.plan) < Size
  /\ IF Len(client.plan) < Len(SourceBytes(Current))
     THEN /\ client' = [client EXCEPT !.plan = Append(@, SourceBytes(Current)[Len(@) + 1])]
          /\ UNCHANGED wire
     ELSE ClientFails
  /\ UNCHANGED <<nodeVars, source, acked, spoiled, bounds>>

ClientSendsPlan ==
  /\ client.pc = "plan" /\ Len(client.plan) = Size /\ wire = Nothing
  /\ client' = [client EXCEPT !.pc = "missing"]
  /\ wire' = [type |-> "plan", path |-> Current, number |-> client.number, plan |-> client.plan]
  /\ UNCHANGED <<nodeVars, source, acked, spoiled, bounds>>

ClientReadsMissing ==
  /\ client.pc = "missing" /\ wire.type = "missing"
  /\ client' = [client EXCEPT !.pc = "send", !.missing = wire.missing]
  /\ wire' = Nothing
  /\ UNCHANGED <<nodeVars, source, acked, spoiled, bounds>>

(* The source is read again for each chunk that is sent. *)
ClientSendsChunk ==
  /\ client.pc = "send" /\ client.missing # {} /\ wire = Nothing
  /\ LET i == CHOOSE i \in client.missing : \A j \in client.missing : i <= j
     IN IF i <= Len(SourceBytes(Current))
        THEN /\ client' = [client EXCEPT !.missing = @ \ {i}]
             /\ wire' = [type |-> "chunk", path |-> Current, index |-> i,
                         bytes |-> SourceBytes(Current)[i]]
        ELSE ClientFails
  /\ UNCHANGED <<nodeVars, source, acked, spoiled, bounds>>

ClientEndsFile ==
  /\ client.pc = "send" /\ client.missing = {}
  /\ client' = [client EXCEPT !.pc = "check", !.todo = @ \ {Current}, !.number = @ + 1]
  /\ UNCHANGED <<nodeVars, source, acked, wire, spoiled, bounds>>

ClientCommits ==
  /\ client.pc = "check" /\ client.todo = {} /\ wire = Nothing
  /\ client' = [client EXCEPT !.pc = "committed"]
  /\ wire' = [type |-> "commit"]
  /\ UNCHANGED <<nodeVars, source, acked, spoiled, bounds>>

ClientReadsReply ==
  /\ client.pc = "committed" /\ wire.type = "committed"
  /\ IF wire.accepted
     THEN client' = ClientIdle(client.rev + 1) /\ acked' = {client.tree}
     ELSE client' = ClientIdle(client.rev) /\ UNCHANGED acked
  /\ wire' = Nothing
  /\ UNCHANGED <<nodeVars, source, spoiled, bounds>>

ClientSeesClose ==
  /\ client.pc # "idle" /\ wire = Closed
  /\ ClientFails
  /\ UNCHANGED <<nodeVars, source, acked, spoiled, bounds>>

-----------------------------------------------------------------------------
(* The node, up to the commit. *)

Below(p) == {q \in Paths : p \in Above[q]}
LinkAbove(tree, p) == \E q \in Above[p] : tree[q].kind = "symlink"
Wanted(tree, requested) == {p \in requested : tree[p].bytes # <<>>}

(* scope_.resolve(): through a link whose target exists. *)
Resolved(tree, p) ==
  IF tree[p].kind = "symlink" /\ tree[tree[p].to].kind # "absent" THEN tree[p].to ELSE p

RequestedByPresence(tree) == {p \in Paths : tree[p].kind = "file" /\ mirror[p].kind # "file"}

(* begin() asks for the files that are not the manifest's (same_file). *)
Requested(tree) == {p \in Paths : tree[p].kind = "file" /\ mirror[p] # tree[p]}

(* What stands in the way of a sync that nothing disturbs: a link above a file;
   a file where a directory with files shall be, which the transfer meets before
   the commit removes it; a link in place of a file, through which the transfer
   writes when what it points at exists or an earlier transfer makes it; a
   staging file left over that is longer than the file shall be. *)
Number(p, wanted) == Cardinality({q \in wanted : Rank[q] < Rank[p]})
Leads(p, wanted) ==
  /\ mirror[p].kind = "symlink"
  /\ \/ mirror[mirror[p].to].kind # "absent"
     \/ \E q \in wanted : Rank[q] < Rank[p] /\ mirror[p].to \in Above[q]
InTheWay(tree) ==
  LET wanted == Wanted(tree, Requested(tree)) IN
  \/ \E p \in Paths : tree[p].kind = "file" /\ LinkAbove(mirror, p)
  \/ \E p \in wanted :
       \/ \E q \in Above[p] : mirror[q].kind = "file"
       \/ Leads(p, wanted)
       \/ Len(staging[<<p, Number(p, wanted)>>]) > Len(tree[p].bytes)

NodeThrows ==
  /\ node' = NodeOff
  /\ wire' = Closed

(* A process of the node loads the state file and begins. *)
NodeBegins ==
  /\ node.pc = "off" /\ wire.type = "manifest"
  /\ doomed' = InTheWay(wire.tree)
  /\ IF wire.rev # state.rev + 1
     THEN /\ wire' = [type |-> "diff", accepted |-> FALSE, current |-> state.rev, requested |-> {}]
          /\ UNCHANGED node
     ELSE IF \E p \in Paths : wire.tree[p].kind = "file" /\ LinkAbove(mirror, p)
     THEN NodeThrows
     ELSE /\ wire' = [type |-> "diff", accepted |-> TRUE, current |-> state.rev,
                      requested |-> Requested(wire.tree)]
          /\ node' = [NodeOff EXCEPT !.pc = "serving", !.rev = wire.rev, !.tree = wire.tree,
                        !.requested = Requested(wire.tree)]
  /\ UNCHANGED <<clientVars, mirror, staging, state, acked, dirty>>

(* The chunks of the plan that a staging file already holds
   (recover_verified_chunks). *)
Confirmed(plan, bytes) == {i \in 1..Len(plan) : i <= Len(bytes) /\ bytes[i] = plan[i]}

NodeAcceptsPlan ==
  /\ node.pc = "serving" /\ wire.type = "plan"
  /\ LET at == Resolved(mirror, wire.path)
         got == Confirmed(wire.plan, staging[<<at, wire.number>>])
     IN /\ node' = [node EXCEPT !.transfer[wire.path] =
                      [open |-> TRUE, at |-> at, number |-> wire.number, got |-> got,
                       plan |-> wire.plan]]
        /\ wire' = [type |-> "missing", missing |-> (1..Len(wire.plan)) \ got]
  /\ UNCHANGED <<clientVars, mirror, staging, state, acked, dirty, doomed>>

(* Writing at a chunk's offset never truncates what is behind it. *)
Put(bytes, i, chunk) ==
  IF i <= Len(bytes) THEN [bytes EXCEPT ![i] = chunk] ELSE Append(bytes, chunk)
WithParents(p) == [q \in Paths |-> IF q \in Above[p] THEN Directory ELSE mirror[q]]
Incoming == node.transfer[wire.path]
Accepts ==
  /\ wire.bytes = Incoming.plan[wire.index]
  /\ \A q \in Above[Incoming.at] : mirror[q].kind \in {"absent", "directory"}

WritesInPlace(chunk) ==
  /\ mirror' = [WithParents(Incoming.at) EXCEPT ![Incoming.at] =
                  File(Put(mirror[Incoming.at].bytes, wire.index, chunk))]
  /\ staging' = [staging EXCEPT ![<<Incoming.at, Incoming.number>>] = Put(@, wire.index, chunk)]

Writes(chunk) ==
  /\ mirror' = WithParents(Incoming.at)
  /\ staging' = [staging EXCEPT ![<<Incoming.at, Incoming.number>>] = Put(@, wire.index, chunk)]

NodeAcceptsChunk ==
  /\ node.pc = "serving" /\ wire.type = "chunk"
  /\ IF Accepts
     THEN /\ Writes(wire.bytes)
          /\ node' = [node EXCEPT !.transfer[wire.path].got = @ \cup {wire.index}]
          /\ wire' = Nothing
     ELSE NodeThrows /\ UNCHANGED <<mirror, staging>>
  /\ UNCHANGED <<clientVars, state, acked, dirty, doomed>>

NodeSeesClose ==
  /\ node.pc = "serving" /\ wire = Closed
  /\ NodeThrows
  /\ UNCHANGED <<clientVars, mirror, staging, state, acked, dirty, doomed>>

-----------------------------------------------------------------------------
(* The commit: each phase goes through its entries in the manifest's order. *)

Complete ==
  \A p \in Wanted(node.tree, node.requested) :
    node.transfer[p].open /\ node.transfer[p].got = 1..Len(node.transfer[p].plan)
Entries == {p \in Paths : node.tree[p].kind # "absent"}
Directories == {p \in Paths : node.tree[p].kind = "directory"}
Opened == {p \in Paths : node.transfer[p].open}
Small == {p \in Entries : \/ node.tree[p].kind = "symlink"
                          \/ p \in node.requested /\ node.tree[p] = File(<<>>)}

NodeReceivesCommit ==
  /\ node.pc = "serving" /\ wire.type = "commit"
  /\ IF Complete
     THEN /\ node' = [node EXCEPT !.pc = "prepare", !.left = Entries]
          /\ wire' = Nothing
          /\ dirty' = TRUE /\ acked' = {}
     ELSE /\ node' = NodeOff
          /\ wire' = [type |-> "committed", accepted |-> FALSE]
          /\ UNCHANGED <<dirty, acked>>
  /\ UNCHANGED <<clientVars, mirror, staging, state, doomed>>

commitVars == <<clientVars, state, acked, dirty, doomed>>

Treats(phase, p) == node.pc = phase /\ node.left # {} /\ p = First(node.left)
Treated(p) == node' = [node EXCEPT !.left = @ \ {p}] /\ UNCHANGED wire
PhaseEnds(phase, next, left) ==
  /\ node.pc = phase /\ node.left = {}
  /\ node' = [node EXCEPT !.pc = next, !.left = left]
  /\ UNCHANGED <<commitVars, wire, mirror, staging>>

(* remove_all takes what is below the path with it. *)
RemoveAll(p) ==
  /\ mirror' = [q \in Paths |-> IF q \in {p} \cup Below(p) THEN Absent ELSE mirror[q]]
  /\ staging' = [t \in Transfers |-> IF t[1] \in Below(p) THEN <<>> ELSE staging[t]]

WrongType(p) == mirror[p].kind \notin {"absent", node.tree[p].kind}
NodePrepares(p) ==
  /\ Treats("prepare", p)
  /\ IF LinkAbove(mirror, p)
     THEN NodeThrows /\ UNCHANGED <<mirror, staging>>
     ELSE /\ Treated(p)
          /\ IF WrongType(p) THEN RemoveAll(p) ELSE UNCHANGED <<mirror, staging>>
  /\ UNCHANGED commitVars

NodeMakesDirectory(p) ==
  /\ Treats("directories", p)
  /\ mirror' = [WithParents(p) EXCEPT ![p] = Directory]
  /\ Treated(p)
  /\ UNCHANGED <<commitVars, staging>>

WholeUnchecked(bytes, p) == bytes # <<>>

(* The hash of the whole file decides, and the rename fails onto a directory. *)
Whole(bytes, p) == bytes = node.tree[p].bytes
NodeFinalizes(p) ==
  /\ Treats("finalize", p)
  /\ LET transfer == node.transfer[p]
         bytes == staging[<<transfer.at, transfer.number>>]
     IN IF Whole(bytes, p) /\ mirror[transfer.at].kind # "directory"
        THEN /\ mirror' = [mirror EXCEPT ![transfer.at] = File(bytes)]
             /\ staging' = [staging EXCEPT ![<<transfer.at, transfer.number>>] = <<>>]
             /\ Treated(p)
        ELSE NodeThrows /\ UNCHANGED <<mirror, staging>>
  /\ UNCHANGED commitVars

NodeMakesSmall(p) ==
  /\ Treats("small", p)
  /\ mirror' = [WithParents(p) EXCEPT ![p] = node.tree[p]]
  /\ Treated(p)
  /\ UNCHANGED <<commitVars, staging>>

(* What the manifest does not have goes, the deepest first, and with it the
   staging files that are left. *)
Extras == {p \in Paths : mirror[p].kind # "absent" /\ node.tree[p].kind = "absent"}
Leftovers == {t \in Transfers : staging[t] # <<>>}
Depth(p) == Cardinality(Above[p])
Deepest(p) == /\ \A q \in Extras : Depth(q) <= Depth(p)
              /\ \A t \in Leftovers : Depth(t[1]) <= Depth(p)

NodeRemovesExtra ==
  /\ node.pc = "extras"
  /\ \E p \in Extras : Deepest(p) /\ RemoveAll(p)
  /\ UNCHANGED <<commitVars, wire, node>>

NodeRemovesLeftover ==
  /\ node.pc = "extras"
  /\ \E t \in Leftovers : Deepest(t[1]) /\ staging' = [staging EXCEPT ![t] = <<>>]
  /\ UNCHANGED <<commitVars, wire, node, mirror>>

NodeTrustsItself ==
  /\ node.pc = "verify"
  /\ node' = [node EXCEPT !.pc = "reply"]
  /\ UNCHANGED <<commitVars, wire, mirror, staging>>

NodeVerifies ==
  /\ node.pc = "verify"
  /\ IF mirror = node.tree /\ staging = NoStaging
     THEN node' = [node EXCEPT !.pc = "reply"] /\ UNCHANGED wire
     ELSE NodeThrows
  /\ UNCHANGED <<commitVars, mirror, staging>>

(* The client has its answer before the state file is written.  Writing to a
   stream the client has closed may fail or not. *)
NodeReplies ==
  /\ node.pc = "reply"
  /\ node' = [node EXCEPT !.pc = "persist"]
  /\ wire' = IF wire = Closed THEN Closed ELSE [type |-> "committed", accepted |-> TRUE]
  /\ UNCHANGED <<commitVars, mirror, staging>>

NodeReplyFails ==
  /\ node.pc = "reply" /\ wire = Closed
  /\ NodeThrows
  /\ UNCHANGED <<commitVars, mirror, staging>>

NodePersists ==
  /\ node.pc = "persist"
  /\ state' = [rev |-> node.rev, tree |-> node.tree]
  /\ dirty' = FALSE
  /\ node' = NodeOff
  /\ UNCHANGED <<clientVars, acked, doomed, wire, mirror, staging>>

NodePhaseEnds ==
  \/ PhaseEnds("prepare", "directories", Directories)
  \/ PhaseEnds("directories", "finalize", Opened)
  \/ PhaseEnds("finalize", "small", Small)
  \/ PhaseEnds("small", "extras", {})
  \/ Extras = {} /\ Leftovers = {} /\ PhaseEnds("extras", "verify", {})

-----------------------------------------------------------------------------
(* The user edits, the network and the node fail. *)

Edit ==
  /\ bounds.edits < MaxEdits
  /\ source' \in Trees \ {source}
  /\ spoiled' = (spoiled \/ client.pc # "idle")
  /\ bounds' = [bounds EXCEPT !.edits = @ + 1]
  /\ UNCHANGED <<nodeVars, client, wire, acked>>

Fault ==
  /\ bounds.faults < MaxFaults
  /\ bounds' = [bounds EXCEPT !.faults = @ + 1]
  /\ spoiled' = TRUE
  /\ wire' = Closed

Disconnect ==
  /\ wire # Closed /\ (client.pc # "idle" \/ node.pc # "off")
  /\ Fault
  /\ UNCHANGED <<nodeVars, source, client, acked>>

NodeDies ==
  /\ node.pc # "off"
  /\ Fault
  /\ node' = NodeOff
  /\ UNCHANGED <<mirror, staging, state, source, client, acked, dirty, doomed>>

NodeDiesWriting ==
  /\ node.pc = "serving" /\ wire.type = "chunk" /\ Accepts
  /\ Fault
  /\ Writes(Torn)
  /\ node' = NodeOff
  /\ UNCHANGED <<state, source, client, acked, dirty, doomed>>

Client ==
  \/ ClientStarts \/ ClientReadsDiff \/ ClientChecksFile \/ ClientHashesChunk
  \/ ClientSendsPlan \/ ClientReadsMissing \/ ClientSendsChunk \/ ClientEndsFile
  \/ ClientCommits \/ ClientReadsReply \/ ClientSeesClose
Commit ==
  \/ NodeReceivesCommit
  \/ \E p \in Paths : \/ NodePrepares(p) \/ NodeMakesDirectory(p) \/ NodeFinalizes(p)
                      \/ NodeMakesSmall(p)
  \/ NodeRemovesExtra \/ NodeRemovesLeftover \/ NodePhaseEnds
  \/ NodeVerifies \/ NodeReplies \/ NodeReplyFails \/ NodePersists
Node == NodeBegins \/ NodeAcceptsPlan \/ NodeAcceptsChunk \/ NodeSeesClose \/ Commit

Next == Client \/ Node \/ Edit \/ Disconnect \/ NodeDies \/ NodeDiesWriting

Spec == Init /\ [][Next]_vars

-----------------------------------------------------------------------------
(* Properties. *)

(* At every moment, whatever is interrupted, each file of the mirror is a whole
   file of the source: chunks of two versions are never seen together
   (FileTransfer::finalize, commit). *)
NoTornFiles == \A p \in Paths : mirror[p].kind = "file" => mirror[p].bytes \in Contents

(* As long as no commit has begun since the state file was written, the files
   and links of the mirror are those of the revision it names, however many
   transfers were started and given up (commit, persist). *)
StateIsMirrored == ~dirty => FilesAndLinks(mirror) = FilesAndLinks(state.tree)

(* What the client was told is committed stays in the mirror until another
   commit begins, also when the node dies before it has written its state. *)
AcknowledgedIsMirrored ==
  \A tree \in acked : FilesAndLinks(mirror) = FilesAndLinks(tree)

(* Neither side gives up a sync that nothing disturbs, unless what it began on
   stands in its way; and what stands in the way of one always stops it
   (serve_workspace_sync, sync_workspace).  This is about trees whose links
   point at top-level paths that are links in no tree: WorkspaceAssumption. *)
UndisturbedCommits ==
  /\ wire = Closed => spoiled \/ doomed
  /\ node.pc = "reply" => ~doomed
  /\ wire.type = "committed" => wire.accepted

=============================================================================
