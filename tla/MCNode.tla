-------------------------------- MODULE MCNode --------------------------------
(* The parts of a node, each checked on its own because they share nothing but *)
(* its certificate and the number of its revision: the pairing file with the   *)
(* commands that use it, the sessions with their audit trail, the builds of    *)
(* the worker, the download of an artifact, the jobs of an agent, the history  *)
(* of a workspace, and the trace of a desktop session, which the viewer keeps  *)
(* in the same way. A behaviour is one of a single part.                       *)
EXTENDS Naturals

CONSTANTS Commands, Fingerprints, Configured, NoDevice, MaxAttempts,
          Sessions, Workspaces, Mirrored, Lease, NotAfter, MaxActive, MaxEvents,
          MaxTime, MaxSteps, MaxProcesses, MaxLines, MaxFaults,
          Builds, MaxArtifacts, MaxRevision, MaxGivenUp, MaxCrashes,
          MaxChunks, MaxBreaks,
          MaxJobs, Texts, MaxClock, MaxParallel, MaxStarts, MaxCalls, Timeout, Minute, MaxEdits,
          PathCount, Bodies, Permissions, Capacity,
          QueueSize, Stall, Hard, MaxFrame, MaxRecords, MaxNow

VARIABLES stored, staged, command, held, attempts, standing,
          now, steps, session, active, log, process,
          recorded, mirror, caller, worker, socket, output, objects, records, pending,
          evidence, partial, answer, served, bounds,
          staging, destination, client, relay, wire, sent, breaks,
          jobs, starts, audited, file, patch, approved, replaced, edits,
          state, revision, revisions, failed, tree, begun,
          host, reached, formed, holding, queue, counted, closed, writer, invalid, live, watch,
          timer, reported, ending,
          part

Pairing == INSTANCE PairedDevice WITH None <- NoDevice
Control == INSTANCE NodeControl
Build == INSTANCE BuildWorker WITH node <- caller
Download == INSTANCE ArtifactDownload WITH node <- relay
Agent == INSTANCE AgentRuntime WITH Contents <- Texts, MaxTime <- MaxClock
History == INSTANCE WorkspaceHistory
    WITH Contents <- Bodies, Modes <- Permissions, Records <- Capacity,
         records <- revisions, mirror <- tree
Trace == INSTANCE VisualTrace WITH recorded <- formed, now <- timer

ASSUME PairingAssumption == Pairing!PairedDeviceConstants
ASSUME ControlAssumption == Control!NodeControlConstants
ASSUME BuildAssumption == Build!BuildWorkerConstants
ASSUME DownloadAssumption == Download!ArtifactDownloadConstants
ASSUME AgentAssumption == Agent!AgentRuntimeConstants
ASSUME HistoryAssumption == History!WorkspaceHistoryConstants
ASSUME TraceAssumption == Trace!VisualTraceConstants

pairing == <<stored, staged, command, held, attempts, standing>>
control == <<now, steps, session, active, log, process>>
build == <<recorded, mirror, caller, worker, socket, output, objects, records, pending,
           evidence, partial, answer, served, bounds>>
download == <<staging, destination, client, relay, wire, sent, breaks>>
agent == <<jobs, starts, audited, file, patch, approved, replaced, edits>>
history == <<state, revision, revisions, failed, tree, begun>>
trace == <<host, reached, formed, holding, queue, counted, closed, writer, invalid, live, watch,
           timer, reported, ending>>

SomeText == CHOOSE text \in Texts : TRUE

\* The texts are interchangeable: the file starts with any one of them.
Init ==
    /\ part \in {"pairing", "control", "build", "download", "agent", "history", "trace"}
    /\ Pairing!Init /\ Control!Init /\ Build!Init /\ Download!Init
    /\ Agent!Init /\ file = SomeText /\ History!Init
    /\ Trace!Init /\ (part = "trace" \/ host = "mac")

Next ==
    \/ /\ part = "pairing" /\ Pairing!Next
       /\ UNCHANGED <<control, build, download, agent, history, trace, part>>
    \/ /\ part = "control" /\ Control!Next
       /\ UNCHANGED <<pairing, build, download, agent, history, trace, part>>
    \/ /\ part = "build" /\ Build!Next
       /\ UNCHANGED <<pairing, control, download, agent, history, trace, part>>
    \/ /\ part = "download" /\ Download!Next
       /\ UNCHANGED <<pairing, control, build, agent, history, trace, part>>
    \/ /\ part = "agent" /\ Agent!Next
       /\ UNCHANGED <<pairing, control, build, download, history, trace, part>>
    \/ /\ part = "history" /\ History!Next
       /\ UNCHANGED <<pairing, control, build, download, agent, trace, part>>
    \/ /\ part = "trace" /\ Trace!Next
       /\ UNCHANGED <<pairing, control, build, download, agent, history, part>>

Spec == Init /\ [][Next]_<<pairing, control, build, download, agent, history, trace, part>>

\* The pairing file follows what the commands have reported.
TrustFollowsCommands == Pairing!TrustFollowsCommands
\* The events in memory are in the journal, in the order of the clock, only its
\* last line can be unfinished, and a session that can be used is opened and not
\* closed in it.
JournalIsSound ==
    Control!MemoryIsOnDisk /\ Control!OnlyTheLastIsTorn /\ Control!UseIsOnRecord
\* An ended session does not come back.
EndedStaysEnded == Control!EndedStaysEnded
\* A build reported as succeeded has left its evidence and its artifacts.
AnsweredIsBuilt == Build!AnsweredIsBuilt
\* Objects, records and evidence are written once.
PublishedStays == Build!PublishedStays
\* An undisturbed download takes half of what it asked for.
AttemptsAddUp == Download!AttemptsAddUp
\* A patch of an agent has an approval of its own.
PatchesAreReviewed == Agent!PatchesAreReviewed
\* The difference of two manifests leads from one to the other, and the history
\* of revisions has no gap and ends with what the destination holds.
HistoryIsSound == History!HistoryIsSound
\* An event of the trace is written or counted, and only what stalled recovers.
TraceIsSound == Trace!TraceIsSound
=============================================================================
