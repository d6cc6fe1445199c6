----------------------------- MODULE NodeControl ------------------------------
(* The sessions a node grants and the audit trail it keeps of them:            *)
(* NodeControlService over SessionService, and the AuditLog in memory over the *)
(* journal file that outlives the process.  An operation appends events one by *)
(* one; any append may be refused (the wall clock stepped back), may fail in    *)
(* the file system, or may be cut off by the death of the process, and each    *)
(* operation deals with that in its own way.                                   *)
EXTENDS Naturals, Sequences, SequencesExt, FiniteSets, FiniteSetsExt

CONSTANTS
    Sessions,       \* session ids a client may ask for
    Workspaces,
    Mirrored,       \* the workspaces of the policy
    Lease,          \* what a session lasts
    NotAfter,       \* end of the device's certificate
    MaxActive,      \* maximum_active_sessions
    MaxEvents,      \* events the log keeps in memory
    MaxTime, MaxSteps, MaxProcesses, MaxLines, MaxFaults     \* bounds

\* What the constants must be; the model-checking module assumes it.
NodeControlConstants ==
    /\ Mirrored \subseteq Workspaces
    /\ {Lease, NotAfter, MaxActive, MaxEvents, MaxTime, MaxSteps, MaxProcesses,
        MaxLines, MaxFaults} \subseteq Nat
    /\ Lease > 0 /\ MaxActive > 0 /\ MaxEvents > 0

VARIABLES
    now,        \* the wall clock
    steps,      \* how often it stepped back
    session,    \* SessionService: every id this process has opened
    active,     \* NodeControlService: the ids it serves
    log,        \* the events in memory, the lines of the journal, faults left
    process     \* which process of the node this is

vars == <<now, steps, session, active, log, process>>

None == [state |-> "none"]
Opened(workspace) == [state |-> "open", workspace |-> workspace, expires |-> now + Lease]
Closed(s) == [session[s] EXCEPT !.state = "closed"]

Event(s, action, result) ==
    [process |-> process, at |-> now, session |-> s, action |-> action, result |-> result]
Anyone == "unresolved"      \* the session of a request that was not understood

-----------------------------------------------------------------------------
(* AuditLog::append and DurableAuditFileSink::append_line.                     *)

Trim(events) == IF Len(events) <= MaxEvents THEN events
                ELSE SubSeq(events, Len(events) - MaxEvents + 1, Len(events))

Remember(l, event) == [l EXCEPT !.memory = Trim(Append(@, event))]

\* A line is the events that can be read in it; it is open until its newline is
\* written, and what comes next goes on in an open line.
Extend(journal, events, ended) ==
    IF journal /= <<>> /\ ~Last(journal).ended
      THEN [journal EXCEPT ![Len(journal)] = [events |-> @.events \cup events, ended |-> ended]]
      ELSE Append(journal, [events |-> events, ended |-> ended])

Write(l, events, ended) == [l EXCEPT !.journal = Extend(@, events, ended)]

Ordered(l, event) == l.memory = <<>> \/ Last(l.memory).at <= event.at

\* Remembered first, written after.
AppendsEagerly(l, event) ==
    {[log |-> Remember(l, event), end |-> "failed"],
     [log |-> Remember(Write(l, {event}, TRUE), event), end |-> "done"]}

\* What appending an event may come to: the log as it is then, and how it ended.
\* A failing append has written nothing, a part, or the whole line.
Appends(l, event) ==
    IF ~Ordered(l, event) THEN {[log |-> l, end |-> "refused"]}
    ELSE {[log |-> Remember(Write(l, {event}, TRUE), event), end |-> "done"]}
           \cup (IF l.faults = 0 THEN {} ELSE
                   LET spent == [l EXCEPT !.faults = @ - 1]
                   IN {[log |-> cut, end |-> "failed"] :
                          cut \in {spent, Write(spent, {}, FALSE), Write(spent, {event}, TRUE)}})

\* Two appends in a row, the second only after the first.
AppendsBoth(l, first, second) ==
    LET begun == Appends(l, first)
    IN {o \in begun : o.end /= "done"}
         \cup UNION {Appends(o.log, second) : o \in {b \in begun : b.end = "done"}}

Logs(outcomes) == {o.log : o \in outcomes}

-----------------------------------------------------------------------------
(* SessionService.                                                            *)

Certified == now < NotAfter     \* DeviceRegistry::verify of the paired device
Active(s) == session[s].state = "open" /\ now < session[s].expires

\* open looks an id up among all this process ever opened.
KnownIfOpen(s) == session[s].state = "open"
Known(s) == session[s].state /= "none"

\* permits: a certificate that is no longer valid closes the session; no event.
AfterPermits(s) ==
    IF Certified \/ session[s].state = "none" THEN session
    ELSE [session EXCEPT ![s] = Closed(s)]

-----------------------------------------------------------------------------
(* NodeControlService.                                                        *)

\* prune_expired closes each session whose lease is over and drops it, whatever
\* the log makes of it.
Expired == {s \in active : session[s].expires <= now}
Live == active \ Expired
Pruned == [s \in Sessions |-> IF s \in Expired THEN Closed(s) ELSE session[s]]
PrunedLogs ==
    FoldSet(LAMBDA s, logs : UNION {Logs(Appends(l, Event(s, "closed", "allowed"))) : l \in logs},
            {log}, Expired)

Denied(s, l) == Appends(l, Event(s, "opened", "denied"))

\* serve_session_open answers, or notes that it could not and throws.
Answer(outcomes) ==
    \E o \in outcomes :
        log' \in IF o.end = "done" THEN {o.log} ELSE Logs(Denied(Anyone, o.log))

\* The reply cannot be written: the session it opened stays.
AnswerLost(outcomes) ==
    \E o \in outcomes : log' \in Logs(Denied(Anyone, o.log))

Malformed ==
    /\ log' \in Logs(Denied(Anyone, log))
    /\ UNCHANGED <<now, steps, session, active, process>>

\* A duplicate, the capacity or a device that is not the one of the certificate.
Turned(s, bound) ==
    /\ s \in Live \/ Cardinality(Live) >= MaxActive \/ ~bound
    /\ session' = Pruned /\ active' = Live
    /\ \E l \in PrunedLogs : Answer(Denied(s, l)) \/ AnswerLost(Denied(s, l))
    /\ UNCHANGED <<now, steps, process>>

Considered(s) == s \notin Live /\ Cardinality(Live) < MaxActive

\* SessionService refuses: an id it knows, without an event; a peer or a
\* workspace it does not accept, with one. A logic error is an answer all the
\* same, an error of the file system is not.
Refused(s, workspace, accepted) ==
    /\ Considered(s)
    /\ session' = Pruned /\ active' = Live
    /\ \E l \in PrunedLogs :
          IF Known(s)
           THEN log' \in {l} \cup Logs(Denied(Anyone, l))
           ELSE /\ ~(accepted /\ Certified /\ workspace \in Mirrored)
                /\ \E o \in Denied(s, l) :
                     log' \in (IF o.end = "failed" THEN {} ELSE {o.log})
                                \cup Logs(Denied(Anyone, o.log))
    /\ UNCHANGED <<now, steps, process>>

\* The session exists before its events are written, and is served after.
ServesAnyway(end) == TRUE
Serves(end) == end = "done"

Granted(s, workspace) ==
    /\ Considered(s) /\ ~Known(s)
    /\ Certified /\ workspace \in Mirrored
    /\ session' = [Pruned EXCEPT ![s] = Opened(workspace)]
    /\ \E l \in PrunedLogs :
         \E o \in AppendsBoth(l, Event(s, "authenticated", "allowed"), Event(s, "opened", "allowed")) :
           /\ active' = IF Serves(o.end) THEN Live \cup {s} ELSE Live
           /\ log' \in (IF o.end = "failed" THEN {} ELSE {o.log}) \cup Logs(Denied(Anyone, o.log))
    /\ UNCHANGED <<now, steps, process>>

PermitsSession(s) ==
    /\ log' \in PrunedLogs
    /\ active' = Live
    /\ session' = IF s \in Live THEN [Pruned EXCEPT ![s] = AfterPermits(s)[s]] ELSE Pruned
    /\ UNCHANGED <<now, steps, process>>

\* record_workspace_sync, record_build, record_artifact, record_deployment: an
\* event of a session that is served; its lease is not looked at.
Record(s, workspace) ==
    /\ s \in active /\ session[s].workspace = workspace
    /\ log' \in Logs(Appends(log, Event(s, "recorded", "allowed")))
    /\ UNCHANGED <<now, steps, session, active, process>>

\* close_session: a session whose end is not written down stays among the
\* active ones, closed.
CloseSession(s) ==
    /\ session[s].state /= "none"
    /\ session' = [session EXCEPT ![s] = Closed(s)]
    /\ \E o \in Appends(log, Event(s, "closed", "allowed")) :
         /\ log' = o.log
         /\ active' = IF o.end = "done" THEN active \ {s} ELSE active
    /\ UNCHANGED <<now, steps, process>>

Health(s) ==
    /\ s \in Live
    /\ log' \in PrunedLogs
    /\ active' = IF Certified /\ Active(s) THEN Live ELSE Live \ {s}
    /\ session' = [Pruned EXCEPT ![s] = AfterPermits(s)[s]]
    /\ UNCHANGED <<now, steps, process>>

-----------------------------------------------------------------------------
Tick == /\ now < MaxTime
        /\ now' = now + 1
        /\ UNCHANGED <<steps, session, active, log, process>>

StepBack == /\ now > 0 /\ steps < MaxSteps
            /\ now' = now - 1 /\ steps' = steps + 1
            /\ UNCHANGED <<session, active, log, process>>

\* The process ends, or dies in the middle of an append; the next one starts
\* with the journal alone.
Restart ==
    /\ process < MaxProcesses /\ process' = process + 1
    /\ session' = [s \in Sessions |-> None] /\ active' = {}
    /\ \E cut \in {log} \cup (IF log.faults = 0 THEN {} ELSE
                                {Write([log EXCEPT !.faults = @ - 1], {}, FALSE)}) :
         log' = [cut EXCEPT !.memory = <<>>]
    /\ UNCHANGED <<now, steps>>

Init ==
    /\ now = 0 /\ steps = 0 /\ process = 0
    /\ session = [s \in Sessions |-> None] /\ active = {}
    /\ log = [memory |-> <<>>, journal |-> <<>>, faults |-> MaxFaults]

Serve(s, workspace) ==
    \/ Malformed
    \/ \E bound \in BOOLEAN : Turned(s, bound)
    \/ \E accepted \in BOOLEAN : Refused(s, workspace, accepted)
    \/ Granted(s, workspace)

Next ==
    /\ Len(log.journal) < MaxLines
    /\ \/ \E s \in Sessions, workspace \in Workspaces : Serve(s, workspace) \/ Record(s, workspace)
       \/ \E s \in Sessions : PermitsSession(s) \/ CloseSession(s) \/ Health(s)
       \/ Tick \/ StepBack \/ Restart

Spec == Init /\ [][Next]_vars

-----------------------------------------------------------------------------
(* Properties.                                                                *)

Events == [process : Nat, at : Nat, session : Sessions \cup {Anyone},
           action : {"authenticated", "opened", "closed", "recorded"},
           result : {"allowed", "denied"}]

TypeOK ==
    /\ now \in 0 .. MaxTime /\ steps \in 0 .. MaxSteps /\ process \in 0 .. MaxProcesses
    /\ DOMAIN session = Sessions
    /\ \A s \in Sessions :
         \/ session[s] = None
         \/ session[s] \in [state : {"open", "closed"}, workspace : Mirrored, expires : Nat]
    /\ active \subseteq Sessions /\ Cardinality(active) <= MaxActive
    /\ log.memory \in Seq(Events) /\ Len(log.memory) <= MaxEvents
    /\ log.journal \in Seq([events : SUBSET Events, ended : BOOLEAN])
    /\ log.faults \in 0 .. MaxFaults

OnDisk(event) == \E i \in DOMAIN log.journal : event \in log.journal[i].events
Closes(s) == {event \in UNION {log.journal[i].events : i \in DOMAIN log.journal} :
                event.process = process /\ event.session = s /\ event.action = "closed"}

\* A session can be used only while the journal says that this process opened
\* it and does not say that it was closed, whatever append of whatever event
\* was refused or failed and whichever way the clock went: no right is exercised
\* that the trail does not show.
UseIsOnRecord ==
    \A s \in active : Certified /\ Active(s) =>
        /\ \E at \in 0 .. MaxTime :
             OnDisk([Event(s, "opened", "allowed") EXCEPT !.at = at])
        /\ Closes(s) = {}

\* The log in memory never claims an event the journal does not hold, and keeps
\* the order of the clock, so that for_session and the health count answer from
\* what would survive the process.
MemoryIsOnDisk ==
    /\ \A i \in DOMAIN log.memory : OnDisk(log.memory[i])
    /\ \A i \in 1 .. Len(log.memory) - 1 : log.memory[i].at <= log.memory[i + 1].at

\* A session that was closed, pruned or lost its certificate never comes back
\* within its process, also when the clock steps back behind the end of its
\* lease or the same id is asked for again.
EndedStaysEnded ==
    [][\A s \in Sessions :
         /\ session[s].state = "closed" /\ process' = process => session'[s].state = "closed"
         /\ s \notin active /\ s \in active' => session[s].state = "none"]_vars

\* A query reads the journal unless its last line is an unfinished one; any
\* event appended later finishes it, so an interrupted append hides the trail
\* for a while and never for good.
OnlyTheLastIsTorn ==
    \A i \in DOMAIN log.journal : i < Len(log.journal) => log.journal[i].ended

=============================================================================
