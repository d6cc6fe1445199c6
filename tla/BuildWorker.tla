------------------------------ MODULE BuildWorker ------------------------------
(* A build of a pinned revision, from the node's request over the worker's     *)
(* socket to the artifacts it publishes and the evidence it leaves, and the    *)
(* fetch of an artifact. The worker serves one request per process and may     *)
(* die at any step; the node gives up after a timeout and may then commit the  *)
(* next revision into the very files the worker still reads. A file's bytes    *)
(* are the revision they were made from, and their hash is themselves.         *)
EXTENDS Naturals

CONSTANTS
    Builds,       \* ids of builds
    MaxArtifacts, \* bound: artifacts of a build
    MaxRevision,  \* bound: revisions of the workspace
    MaxGivenUp,   \* bound: requests the node gives up
    MaxCrashes    \* bound: deaths of a worker

BuildWorkerConstants ==
    /\ MaxArtifacts \in Nat /\ MaxRevision \in Nat \ {0}
    /\ MaxGivenUp \in Nat /\ MaxCrashes \in Nat

VARIABLES
    recorded,  \* the revision in the workspace state file
    mirror,    \* the revision whose files the mirror holds, or Mixed
    node,      \* the one node process: what it waits for
    worker,    \* the worker process and its connection
    socket,    \* the worker's socket path
    output,    \* the bytes of the built files, which are in the mirror too
    objects,   \* the object store: bytes under a hash
    records,   \* the metadata directory: what an artifact's record says
    pending,   \* artifacts with a .pending record
    evidence,  \* evidence[b]: the evidence file of a build
    partial,   \* builds with an .evidence.partial
    answer,    \* the last build the node recorded with success
    served,    \* history: the bytes a fetch of an artifact began to serve
    bounds     \* what is spent of the bounds

nodeVars == <<recorded, mirror, node, answer>>
store == <<objects, records, pending>>
vars == <<recorded, mirror, node, worker, socket, output, objects, records, pending,
          evidence, partial, answer, served, bounds>>

Mixed == 0
Revisions == 1 .. MaxRevision
Contents == Revisions \cup {Mixed}
Artifacts == Builds \X (1 .. MaxArtifacts)
Nothing == "nothing"
NoObject == MaxRevision + 1
Unknown == [bytes |-> Mixed, revision |-> 0]     \* no record: no build has revision 0
Free == [at |-> "idle", build |-> Nothing, revision |-> 0]
Gone == [at |-> "none", build |-> Nothing, revision |-> 0, read |-> Mixed, astray |-> FALSE,
         result |-> Nothing, index |-> 0, count |-> 0, hash |-> Mixed]

NoAnswer == [build |-> Nothing, revision |-> 0, read |-> Mixed, astray |-> FALSE, count |-> 0]

Init ==
    /\ recorded = 1 /\ mirror = 1
    /\ node = Free /\ worker = Gone /\ socket = "none" /\ output = 1
    /\ objects = [hash \in Contents |-> NoObject]
    /\ records = [a \in Artifacts |-> Unknown] /\ pending = {}
    /\ evidence = [b \in Builds |-> Nothing] /\ partial = {}
    /\ answer = NoAnswer /\ served = {}
    /\ bounds = [givenUp |-> 0, crashes |-> 0]

-----------------------------------------------------------------------------
(* The node: one process at a time holds the listener's port.                 *)

NodeIsFree == node.at = "idle"

\* serve, IpcBuildWorker::execute: the revision is the node's own.
Submits(b) ==
    /\ NodeIsFree /\ worker.at = "listening"
    /\ node' = [at |-> "waiting", build |-> b, revision |-> recorded]
    /\ worker' = [worker EXCEPT !.at = "accepted", !.build = b, !.revision = recorded]
    /\ UNCHANGED <<recorded, mirror, socket, output, store, evidence, partial, answer, served, bounds>>

\* The worker's connection ends without a reply, which is a failed build.
Hangup(pc) == pc \in {"none", "listening"}
NodeFails ==
    /\ node.at = "waiting" /\ Hangup(worker.at)
    /\ node' = Free
    /\ UNCHANGED <<recorded, mirror, worker, socket, output, store, evidence, partial, answer, served, bounds>>

\* The profile's timeout and thirty seconds more have passed, or the node dies.
NodeGivesUp ==
    /\ node.at = "waiting" /\ bounds.givenUp < MaxGivenUp
    /\ node' = Free
    /\ bounds' = [bounds EXCEPT !.givenUp = @ + 1]
    /\ UNCHANGED <<recorded, mirror, worker, socket, output, store, evidence, partial, answer, served>>

\* A sync of the next revision: the commit begins, ends, and is recorded. It may
\* end before either; what it leaves stays.
SyncBegins ==
    /\ NodeIsFree /\ recorded < MaxRevision
    /\ node' = [Free EXCEPT !.at = "committing"]
    /\ mirror' = Mixed
    /\ UNCHANGED <<recorded, worker, socket, output, store, evidence, partial, answer, served, bounds>>

SyncCommits ==
    /\ node.at = "committing"
    /\ node' = [node EXCEPT !.at = "committed"]
    /\ mirror' = recorded + 1
    /\ output' \in {output, recorded + 1}
    /\ UNCHANGED <<recorded, worker, socket, store, evidence, partial, answer, served, bounds>>

SyncRecords ==
    /\ node.at = "committed"
    /\ recorded' = recorded + 1 /\ node' = Free
    /\ UNCHANGED <<mirror, worker, socket, output, store, evidence, partial, answer, served, bounds>>

SyncEnds ==
    /\ node.at \in {"committing", "committed"}
    /\ node' = Free
    /\ UNCHANGED <<recorded, mirror, worker, socket, output, store, evidence, partial, answer, served, bounds>>

-----------------------------------------------------------------------------
(* The worker: serve_once and execute_request.                                *)

Connected == node.at = "waiting" /\ node.build = worker.build /\ node.revision = worker.revision

Listens ==
    /\ worker.at = "none" /\ socket = "none"
    /\ worker' = [Gone EXCEPT !.at = "listening"] /\ socket' = "bound"
    /\ UNCHANGED <<nodeVars, output, store, evidence, partial, served, bounds>>

\* Leaving serve_once removes the socket path and closes the connection.
Leaves == worker' = Gone /\ socket' = "none"

AcceptTimesOut ==
    /\ worker.at = "listening" /\ Leaves
    /\ UNCHANGED <<nodeVars, output, store, evidence, partial, served, bounds>>

\* The revision is current, or the request is refused.
Checks ==
    /\ worker.at = "accepted"
    /\ IF worker.revision = recorded
         THEN /\ worker' = [worker EXCEPT !.at = "building", !.read = mirror,
                                          !.astray = mirror /= recorded]
              /\ UNCHANGED socket
         ELSE Leaves
    /\ UNCHANGED <<nodeVars, output, store, evidence, partial, served, bounds>>

\* BuildRunner::run: the command reads the mirror from its start to its end.
AfterArtifact(next, count) == IF next > count THEN "evidence" ELSE "hash"
Reads == IF mirror = worker.read THEN mirror ELSE Mixed
BuildEnds(result, count) ==
    /\ worker.at = "building" /\ (result /= "succeeded" => count = 0)
    /\ worker' = [worker EXCEPT !.at = AfterArtifact(1, count), !.read = Reads,
                                !.result = result, !.index = 1, !.count = count]
    /\ output' = IF result = "succeeded" THEN Reads ELSE output
    /\ UNCHANGED <<nodeVars, socket, store, evidence, partial, served, bounds>>

Artifact == <<worker.build, worker.index>>

\* publish: an id that has a record is refused; the source is hashed.
Hashes ==
    /\ worker.at = "hash" /\ records[Artifact] = Unknown
    /\ worker' = [worker EXCEPT !.at = "object", !.hash = output]
    /\ UNCHANGED <<nodeVars, socket, output, store, evidence, partial, served, bounds>>

\* An object that is there must be what its name says; otherwise the source,
\* read a second time, is moved to the place its first reading gave.
Stores ==
    /\ worker.at = "object"
    /\ objects[worker.hash] \in {NoObject, worker.hash}
    /\ objects' = IF objects[worker.hash] = NoObject
                    THEN [objects EXCEPT ![worker.hash] = output] ELSE objects
    /\ worker' = [worker EXCEPT !.at = "record"]
    /\ UNCHANGED <<nodeVars, socket, output, records, pending, evidence, partial, served, bounds>>

\* stage_record.
Stages ==
    /\ worker.at = "record" /\ Artifact \notin pending
    /\ pending' = pending \cup {Artifact}
    /\ worker' = [worker EXCEPT !.at = "commit"]
    /\ UNCHANGED <<nodeVars, socket, output, objects, records, evidence, partial, served, bounds>>

\* commit_record: the move, and the error of its flush.
Commits ==
    /\ worker.at = "commit"
    /\ records' = [records EXCEPT ![Artifact] = [bytes |-> worker.hash, revision |-> worker.revision]]
    /\ pending' = pending \ {Artifact}
    /\ \/ /\ worker' = [worker EXCEPT !.at = AfterArtifact(worker.index + 1, worker.count),
                                      !.index = @ + 1, !.hash = Mixed]
          /\ UNCHANGED socket
       \/ Leaves
    /\ UNCHANGED <<nodeVars, output, objects, evidence, partial, served, bounds>>

\* Both files of the evidence must be absent.
Anything(b) == TRUE
Vacant(b) == evidence[b] = Nothing /\ b \notin partial

WritesEvidence ==
    /\ worker.at = "evidence" /\ Vacant(worker.build)
    /\ partial' = partial \cup {worker.build}
    /\ worker' = [worker EXCEPT !.at = "move"]
    /\ UNCHANGED <<nodeVars, socket, output, store, evidence, served, bounds>>

MovesEvidence ==
    /\ worker.at = "move"
    /\ evidence' = [evidence EXCEPT ![worker.build] = worker.result]
    /\ partial' = partial \ {worker.build}
    /\ worker' = [worker EXCEPT !.at = "reply"]
    /\ UNCHANGED <<nodeVars, socket, output, store, served, bounds>>

\* Any step may throw: a refusal, a full disk, a packager that fails, a move of
\* the evidence whose flush fails, a reply nobody reads.
Throws ==
    /\ worker.at \in {"hash", "object", "record", "commit", "evidence", "move", "reply"}
    /\ Leaves
    /\ UNCHANGED <<nodeVars, output, store, evidence, partial, served, bounds>>

\* The node records what it is answered; nobody may be left to hear it.
RepliedEarly == worker.at \in {"move", "reply"}
Replied == worker.at = "reply"
Outcome == [build |-> worker.build, revision |-> worker.revision, read |-> worker.read,
            astray |-> worker.astray, count |-> worker.count]
Replies ==
    /\ Replied /\ Leaves
    /\ IF Connected
         THEN /\ node' = Free
              /\ answer' = IF worker.result = "succeeded" THEN Outcome ELSE answer
         ELSE UNCHANGED <<node, answer>>
    /\ UNCHANGED <<recorded, mirror, output, store, evidence, partial, served, bounds>>

\* The node asks for an artifact, and the worker begins to serve its object.
Bound(a) == records[a].revision = recorded /\ objects[records[a].bytes] = records[a].bytes
Serves(a) ==
    /\ NodeIsFree /\ worker.at = "listening" /\ Bound(a) /\ Leaves
    /\ served' = served \cup {<<a, objects[records[a].bytes]>>}
    /\ UNCHANGED <<nodeVars, output, store, evidence, partial, bounds>>

\* The worker dies, and its socket path stays until the operator removes it.
Dies ==
    /\ worker.at /= "none" /\ bounds.crashes < MaxCrashes
    /\ worker' = Gone /\ socket' = "stale"
    /\ bounds' = [bounds EXCEPT !.crashes = @ + 1]
    /\ UNCHANGED <<nodeVars, output, store, evidence, partial, served>>

Cleans ==
    /\ socket = "stale" /\ socket' = "none"
    /\ UNCHANGED <<nodeVars, worker, output, store, evidence, partial, served, bounds>>

Next ==
    \/ \E b \in Builds : Submits(b)
    \/ NodeFails \/ NodeGivesUp \/ SyncBegins \/ SyncCommits \/ SyncRecords \/ SyncEnds
    \/ Listens \/ AcceptTimesOut \/ Checks
    \/ \E result \in {"succeeded", "failed", "cancelled"} : \E count \in 0 .. MaxArtifacts :
          BuildEnds(result, count)
    \/ Hashes \/ Stores \/ Stages \/ Commits \/ WritesEvidence \/ MovesEvidence
    \/ Throws \/ Replies \/ Dies \/ Cleans
    \/ \E a \in Artifacts : Serves(a)

Spec == Init /\ [][Next]_vars

-----------------------------------------------------------------------------
\* A build the node recorded as succeeded has left its evidence and a record of
\* each of its artifacts, made of the files of the revision it was pinned to,
\* unless a sync that failed had left other files there before it began.
AnsweredIsBuilt ==
    answer /= NoAnswer =>
        /\ evidence[answer.build] = "succeeded"
        /\ \A index \in 1 .. answer.count :
              records[<<answer.build, index>>] = [bytes |-> answer.read, revision |-> answer.revision]
        /\ answer.read = answer.revision \/ answer.astray

\* What was published stays: a record, an object and an evidence are written
\* once, and every fetch of an artifact serves the same bytes.
PublishedStays ==
    [][/\ \A a \in Artifacts : records[a] /= Unknown => records'[a] = records[a]
       /\ \A hash \in Contents : objects[hash] /= NoObject => objects'[hash] = objects[hash]
       /\ \A b \in Builds : evidence[b] /= Nothing => evidence'[b] = evidence[b]
       /\ \A x, y \in served' : x[1] = y[1] => x[2] = y[2]]_vars

=============================================================================
