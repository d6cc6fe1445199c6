------------------------------ MODULE VisualTrace ------------------------------
(* The trace of a visual session in the agent and in the viewer: threads       *)
(* record the progress of frames, a watchdog records stalls of it, everything  *)
(* passes a bounded queue to the thread that writes it, and the end of the     *)
(* session stops the threads one after the other.                              *)
EXTENDS Naturals, FiniteSets

CONSTANTS
    QueueSize,   \* capacity of VisualTraceQueue
    Stall, Hard, \* stall_threshold_us and hard_timeout_us
    MaxFrame,    \* bound: frames of the session
    MaxRecords,  \* bound: events that are recorded
    MaxNow       \* bound: the clock

VisualTraceConstants ==
    /\ QueueSize \in Nat \ {0} /\ Stall \in Nat \ {0} /\ Hard \in Nat /\ Hard >= Stall
    /\ MaxFrame \in Nat /\ MaxRecords \in Nat /\ MaxNow \in Nat

VARIABLES
    host,      \* "mac" or "windows": whose trace it is
    reached,   \* snapshot_: the last frame of every stage of the host
    recorded,  \* event_sequence_, and the events of the other host
    holding,   \* threads that have recorded an event and not yet pushed it
    queue,     \* the number of events_
    counted,   \* dropped_events_ and trace_write_dropped, and history: events written
    closed,    \* closed_
    writer,    \* the writing thread: "checks", "pops", "writes", "ended"
    invalid,   \* trace_invalid
    live,      \* video_liveness_enabled
    watch,     \* the watchdog
    now,
    reported,  \* history: what the watchdog recorded last
    ending     \* how far the end of the session has come

vars == <<host, reached, recorded, holding, queue, counted, closed, writer, invalid, live,
          watch, now, reported, ending>>
trace == <<queue, counted, closed, writer, invalid>>

\* Agent: source, published, submitted, encoded, written. Viewer: received,
\* decoded, committed, present submitted.
Stages == 1 .. (IF host = "mac" THEN 5 ELSE 4)

\* The thread that records a stage; the input worker and the control writer
\* record no stage, and the reader of the errors hands on the agent's events.
Records(thread, stage) ==
    \/ host = "mac" /\ thread = <<"capture", "capture", "encoder", "encoder", "agent">>[stage]
    \/ host = "windows" /\ thread = <<"reader", "reader", "compositor", "compositor">>[stage]
Bystander == IF host = "mac" THEN "input" ELSE "errors"
Producers == IF host = "mac" THEN {"capture", "encoder", "agent", "input"}
                             ELSE {"reader", "compositor", "errors"}
Threads == Producers \cup {"watchdog"}

Nothing == [about |-> "nothing", stage |-> 0, frame |-> 0]
Asleep == [stage |-> 0, frame |-> 0, since |-> 0, stalled |-> FALSE, hard |-> FALSE]

\* The end stops the threads one after the other: "running", "producers",
\* "watchdog", "closed", "writer", "over". The agent's input worker is joined
\* and its capture destroyed after all that.
At(phase) == ending = phase
Outlives == {"capture", "input"}
Runs(thread) ==
    \/ At("running")
    \/ thread = "watchdog" /\ At("producers")
    \/ thread \in Outlives

Init ==
    /\ host \in {"mac", "windows"}
    /\ reached = [stage \in 1 .. 5 |-> 0] /\ recorded = 0
    /\ holding = {}
    /\ queue = 0 /\ counted = 0 /\ closed = FALSE /\ writer = "checks" /\ invalid = FALSE
    /\ live = TRUE /\ watch = Asleep /\ now = 1 /\ reported = Nothing
    /\ ending = "running"

-----------------------------------------------------------------------------
(* record() forms the event under the tracker's mutex and pushes it after.     *)

Forms(thread) ==
    /\ thread \notin holding /\ recorded < MaxRecords
    /\ recorded' = recorded + 1 /\ holding' = holding \cup {thread}

\* Frames only go forward: advance_generation throws otherwise, and a stage has
\* only frames that the one before it had; a frame may be recorded again.
Advances(thread, stage) ==
    /\ Runs(thread) /\ Records(thread, stage)
    /\ \E frame \in reached[stage] .. (IF stage = 1 THEN MaxFrame ELSE reached[stage - 1]) :
          reached' = [reached EXCEPT ![stage] = frame]
    /\ Forms(thread)
    /\ UNCHANGED <<host, trace, live, watch, now, reported, ending>>

\* An event without a generation: input, acknowledgements, the other host's.
Notes(thread) ==
    /\ thread = Bystander /\ Runs(thread) /\ Forms(thread)
    /\ UNCHANGED <<host, reached, trace, live, watch, now, reported, ending>>

\* try_push: a full or closed queue counts the event. The viewer marks a trace
\* that lost an event of the agent.
Refuses == closed \/ queue >= QueueSize

Pushes(thread) ==
    /\ thread \in holding /\ holding' = holding \ {thread}
    /\ \/ /\ ~Refuses
          /\ queue' = queue + 1 /\ UNCHANGED <<counted, invalid>>
       \/ /\ Refuses
          /\ counted' = counted + 1 /\ UNCHANGED queue
          /\ invalid' = (invalid \/ thread = "errors")
    /\ UNCHANGED <<host, reached, recorded, closed, writer, live, watch, now, reported, ending>>

-----------------------------------------------------------------------------
(* The writing thread: a loop over wait_pop.                                   *)

StopRequested == ending \in {"writer", "over"}
WriterKeeps == UNCHANGED <<host, reached, recorded, holding, closed, live, watch, now, reported, ending>>

WriterChecks ==
    /\ writer = "checks"
    /\ writer' = IF ~StopRequested \/ queue > 0 THEN "pops" ELSE "ended"
    /\ WriterKeeps /\ UNCHANGED <<queue, counted, invalid>>

\* A closed queue is not waited for, and an empty one for 100 ms.
WriterPops ==
    /\ writer = "pops"
    /\ \/ queue > 0 /\ queue' = queue - 1 /\ writer' = "writes"
       \/ queue = 0 /\ writer' = "checks" /\ UNCHANGED queue
    /\ WriterKeeps /\ UNCHANGED <<counted, invalid>>

WriterWrites ==
    /\ writer = "writes"
    /\ \/ writer' = "checks" /\ counted' = counted + 1 /\ UNCHANGED invalid
       \/ /\ host = "windows" \* the file is full
          /\ writer' = "checks" /\ counted' = counted + 1 /\ invalid' = TRUE
       \/ /\ host = "windows" \* the file cannot be written
          /\ writer' = "ended" /\ invalid' = TRUE /\ UNCHANGED counted
    /\ WriterKeeps /\ UNCHANGED queue

-----------------------------------------------------------------------------
(* VisualLivenessWatchdog, polled by its thread.                               *)

\* gap: the first stage of the host that is behind the one before it.
Behind == {stage \in Stages \ {1} : reached[stage] < reached[stage - 1]}
Gap == CHOOSE stage \in Behind : \A other \in Behind : stage <= other

Polls == Runs("watchdog") /\ live /\ "watchdog" \notin holding
WatchdogKeeps == UNCHANGED <<host, reached, trace, live, now, ending>>

Reports(about, stage, frame) ==
    /\ reported' = [about |-> about, stage |-> stage, frame |-> frame]
    /\ Forms("watchdog")

Recovers ==
    /\ Polls /\ Behind = {}
    /\ \/ watch.stalled /\ Reports("recovered", watch.stage, watch.frame)
       \/ ~watch.stalled /\ UNCHANGED <<recorded, holding, reported>>
    /\ watch' = Asleep
    /\ WatchdogKeeps

\* Mutant: a new gap keeps what was reported of the one before.
ObservesStalled(stage) ==
    [watch EXCEPT !.stage = stage, !.frame = reached[stage - 1], !.since = now]
Observed(stage) ==
    [stage |-> stage, frame |-> reached[stage - 1], since |-> now, stalled |-> FALSE, hard |-> FALSE]

Known == watch.stage = Gap /\ watch.frame = reached[Gap - 1]

Observes ==
    /\ Polls /\ Behind /= {} /\ ~Known
    /\ watch' = Observed(Gap)
    /\ WatchdogKeeps /\ UNCHANGED <<recorded, holding, reported>>

StallDetected ==
    /\ Polls /\ Behind /= {} /\ Known
    /\ \/ /\ ~watch.stalled /\ now - watch.since >= Stall
          /\ watch' = [watch EXCEPT !.stalled = TRUE]
          /\ Reports("stalled", Gap, watch.frame)
       \/ /\ watch.stalled /\ ~watch.hard /\ now - watch.since >= Hard
          /\ watch' = [watch EXCEPT !.hard = TRUE]
          /\ UNCHANGED <<recorded, holding, reported>>
    /\ WatchdogKeeps

\* The exact representation has no liveness of video: the watchdog forgets.
LivenessChanges ==
    /\ At("running") /\ live' = ~live
    /\ UNCHANGED <<host, reached, recorded, holding, trace, watch, now, reported, ending>>

Forgets ==
    /\ Runs("watchdog") /\ ~live /\ "watchdog" \notin holding /\ watch' = Asleep
    /\ WatchdogKeeps /\ UNCHANGED <<recorded, holding, reported>>

TimePasses ==
    /\ now < MaxNow /\ now' = now + 1
    /\ UNCHANGED <<host, reached, recorded, holding, trace, live, watch, reported, ending>>

-----------------------------------------------------------------------------
(* The end: producers are joined, then the watchdog, then the queue is closed  *)
(* and the writer is joined.                                                   *)

\* Mutant: the writer is stopped while threads may still record.
JoinsNobody(threads) == TRUE
Joined(threads) == threads \cap holding = {}

Becomes(phase) ==
    /\ ending' = phase
    /\ UNCHANGED <<host, reached, recorded, holding, queue, counted, writer, invalid, live, watch,
                   now, reported>>

EndBegins == At("running") /\ Becomes("producers") /\ UNCHANGED closed
JoinProducers ==
    /\ At("producers") /\ Joined(Producers \ Outlives) /\ Becomes("watchdog") /\ UNCHANGED closed
JoinWatchdog ==
    /\ At("watchdog") /\ Joined(Threads \ Outlives) /\ Becomes("closed") /\ closed' = TRUE
StopWriter == At("closed") /\ Becomes("writer") /\ UNCHANGED closed
JoinWriter == At("writer") /\ writer = "ended" /\ Becomes("over") /\ UNCHANGED closed

Ending == EndBegins \/ JoinProducers \/ JoinWatchdog \/ StopWriter \/ JoinWriter

Next ==
    \/ \E thread \in Threads :
          \/ \E stage \in Stages : Advances(thread, stage)
          \/ Notes(thread) \/ Pushes(thread)
    \/ WriterChecks \/ WriterPops \/ WriterWrites
    \/ Recovers \/ Observes \/ StallDetected \/ LivenessChanges \/ Forgets \/ TimePasses
    \/ Ending

Spec == Init /\ [][Next]_vars

-----------------------------------------------------------------------------

\* When the writer was joined, every event that was recorded is written, or
\* counted as dropped, or the trace is marked: nothing is lost unnoticed in the
\* order in which the threads end. Only the threads that go on may have one under way.
EndedIsCounted ==
    At("over") =>
        \/ invalid
        \/ recorded = counted + Cardinality(holding \cap Outlives)

\* The watchdog only reports the recovery of a stage after it has reported its
\* stall at this frame, and nothing in between.
RecoveryFollowsStall ==
    watch.stalled =>
        reported = [about |-> "stalled", stage |-> watch.stage, frame |-> watch.frame]

TraceIsSound == EndedIsCounted /\ RecoveryFollowsStall
=============================================================================
