------------------------------ MODULE AgentRuntime ------------------------------
(* The jobs of an agent: created under a limit that first ends what has run    *)
(* too long, given tools to call, and made to wait for a human before every    *)
(* patch. Every call brings its own time; the audit log refuses a time before  *)
(* its last, and what the call had changed by then stays. One caller at a time *)
(* uses the runtime, but others write the workspace.                           *)
EXTENDS Naturals, FiniteSets

CONSTANTS
    MaxJobs,     \* bound: ids of jobs, in the order of the map
    Contents,    \* what the patched file may hold
    MaxTime,     \* bound: the clock
    MaxParallel, \* maximum_parallel_jobs
    MaxStarts,   \* maximum_jobs_per_minute
    MaxCalls,    \* maximum_tool_calls_per_job
    Timeout,     \* job_timeout
    Minute,      \* the window of MaxStarts
    MaxEdits     \* bound: writes of others

AgentRuntimeConstants ==
    /\ MaxJobs \in Nat \ {0} /\ Contents /= {} /\ MaxTime \in Nat \ {0}
    /\ MaxParallel \in Nat \ {0} /\ MaxStarts \in Nat \ {0} /\ MaxCalls \in Nat \ {0}
    /\ Timeout \in Nat \ {0} /\ Minute \in Nat /\ MaxEdits \in Nat

VARIABLES
    jobs,     \* jobs_, with the evidence of each job counted by kind
    starts,   \* job_starts_: the jobs whose start still counts
    audited,  \* the time of the last event of the audit log
    file,     \* the file the patches are about
    patch,    \* the patch that is being made
    approved, \* history: approvals of a human, by job
    replaced, \* history: replacements of the file, by job
    edits     \* what is spent of the bound

vars == <<jobs, starts, audited, file, patch, approved, replaced, edits>>

Jobs == 1 .. MaxJobs
Times == 1 .. MaxTime
Active == {"running", "waiting"}
States == Active \cup {"none", "timed_out", "succeeded", "failed", "cancelled"}
NoJob == [state |-> "none", started |-> 0, last |-> 0, granted |-> FALSE, mayPatch |-> FALSE,
          calls |-> 0, failures |-> 0, patches |-> 0, claims |-> 0]
NoPatch == [job |-> 0, at |-> "none", time |-> 0, after |-> CHOOSE c \in Contents : TRUE]

Init ==
    /\ jobs = [j \in Jobs |-> NoJob] /\ starts = {} /\ audited = 0
    /\ file \in Contents /\ patch = NoPatch
    /\ approved = [j \in Jobs |-> 0] /\ replaced = [j \in Jobs |-> 0]
    /\ edits = 0

-----------------------------------------------------------------------------
Idle == patch.at = "none"
IsActive(j) == jobs[j].state \in Active
Expired(j, t) == t - jobs[j].started > Timeout

\* AuditLog::append: an event before the last one is refused, with the caller's
\* exception and after the caller's change.
Audits(t) == audited' = IF t < audited THEN audited ELSE t

\* active_job: the state of a job that is active and not called with a time
\* before its last. One that has run too long is ended by the call.
Callable(j, t) == Idle /\ IsActive(j) /\ t >= jobs[j].last
Calls(j, t) == Callable(j, t) /\ ~Expired(j, t)

TimesOut(j, t) ==
    /\ Callable(j, t) /\ Expired(j, t)
    /\ jobs' = [jobs EXCEPT ![j].state = "timed_out", ![j].last = t]
    /\ Audits(t)
    /\ UNCHANGED <<starts, file, patch, approved, replaced, edits>>

\* create_job: the sweep ends what has run too long, in the order of the map,
\* up to a job whose last event is later or whose end cannot be audited.
Stops(t) == {j \in Jobs : IsActive(j) /\ (t < jobs[j].last \/ (Expired(j, t) /\ t < audited))}
Swept(t) == {j \in Jobs : IsActive(j) /\ Expired(j, t) /\ t >= jobs[j].last
                          /\ \A k \in Stops(t) : j <= k}
Sweep(t) == [j \in Jobs |-> IF j \in Swept(t)
                              THEN [jobs[j] EXCEPT !.state = "timed_out", !.last = t]
                              ELSE jobs[j]]
Counted(t) == {j \in starts : jobs[j].started + Minute >= t}
Room(t) ==
    /\ Cardinality({j \in Jobs : IsActive(j)} \ Swept(t)) < MaxParallel
    /\ Cardinality(Counted(t)) < MaxStarts

\* The job is refused: the sweep stopped, there is no room, the id is taken, or
\* agent.run was not granted, which is audited.
Refuses(j, t) ==
    /\ Idle
    /\ jobs' = Sweep(t)
    /\ \/ /\ Stops(t) /= {}
          /\ UNCHANGED starts
          /\ IF Swept(t) = {} THEN UNCHANGED audited ELSE Audits(t)
       \/ /\ Stops(t) = {} /\ (Room(t) => jobs[j].state /= "none")
          /\ starts' = Counted(t)
          /\ IF Swept(t) = {} THEN UNCHANGED audited ELSE Audits(t)
       \/ /\ Stops(t) = {} /\ Room(t) /\ jobs[j].state = "none"
          /\ starts' = Counted(t) /\ Audits(t)
    /\ UNCHANGED <<file, patch, approved, replaced, edits>>

Creates(j, t, mayPatch) ==
    /\ Idle /\ Stops(t) = {} /\ Room(t) /\ jobs[j].state = "none"
    /\ jobs' = [Sweep(t) EXCEPT ![j] = [NoJob EXCEPT !.state = "running", !.started = t,
                                                     !.last = t, !.mayPatch = mayPatch]]
    /\ starts' = Counted(t) \cup {j}
    /\ Audits(t)
    /\ UNCHANGED <<file, patch, approved, replaced, edits>>

\* approve_patch: the grant stays when its event is refused.
Approves(j, t) ==
    /\ Calls(j, t) /\ jobs[j].state = "waiting"
    /\ jobs' = [jobs EXCEPT ![j].state = "running", ![j].granted = TRUE, ![j].last = t]
    /\ approved' = [approved EXCEPT ![j] = @ + 1]
    /\ Audits(t)
    /\ UNCHANGED <<starts, file, patch, replaced, edits>>

-----------------------------------------------------------------------------
(* execute.                                                                   *)
Runs(j, t) == Calls(j, t) /\ jobs[j].state = "running"
Executes(j, t) == Runs(j, t) /\ jobs[j].calls < MaxCalls

\* A call beyond the limit leaves its time.
Overruns(j, t) ==
    /\ Runs(j, t) /\ jobs[j].calls >= MaxCalls
    /\ jobs' = [jobs EXCEPT ![j].last = t]
    /\ UNCHANGED <<starts, audited, file, patch, approved, replaced, edits>>

\* Any tool but the patch, and any tool whose capability is denied.
UsesTool(j, t, succeeds) ==
    /\ Executes(j, t)
    /\ jobs' = [jobs EXCEPT ![j].last = t, ![j].calls = @ + 1,
                            ![j].failures = @ + (IF succeeds THEN 0 ELSE 1)]
    /\ Audits(t)
    /\ UNCHANGED <<starts, file, patch, approved, replaced, edits>>

AsksReview(j, t) ==
    /\ Executes(j, t) /\ jobs[j].mayPatch /\ ~jobs[j].granted
    /\ jobs' = [jobs EXCEPT ![j].last = t, ![j].state = "waiting"]
    /\ Audits(t)
    /\ UNCHANGED <<starts, file, patch, approved, replaced, edits>>

\* The grant is taken before the patch is tried.
GrantAfterSuccess == TRUE
GrantAfter == FALSE
BeginsPatch(j, t, after) ==
    /\ Executes(j, t) /\ jobs[j].mayPatch /\ jobs[j].granted
    /\ jobs' = [jobs EXCEPT ![j].last = t, ![j].granted = GrantAfter]
    /\ patch' = [job |-> j, at |-> "compare", time |-> t, after |-> after]
    /\ UNCHANGED <<starts, audited, file, approved, replaced, edits>>

\* workspace_patch: the hash of the file is what the caller expects and not that
\* of the replacement, which is then staged.
Compares ==
    /\ patch.at = "compare"
    /\ \E expected \in Contents :
          patch' = [patch EXCEPT !.at = IF file = expected /\ file /= patch.after
                                          THEN "replace" ELSE "failed"]
    /\ UNCHANGED <<jobs, starts, audited, file, approved, replaced, edits>>

Replaces ==
    /\ patch.at = "replace"
    /\ \/ /\ file' = patch.after
          /\ replaced' = [replaced EXCEPT ![patch.job] = @ + 1]
          /\ patch' = [patch EXCEPT !.at = "verify"]
       \/ /\ patch' = [patch EXCEPT !.at = "failed"]
          /\ UNCHANGED <<file, replaced>>
    /\ UNCHANGED <<jobs, starts, audited, approved, edits>>

\* The evidence of the patch is kept before its event is audited.
EndsPatch ==
    /\ patch.at \in {"verify", "failed"}
    /\ LET verified == patch.at = "verify" /\ file = patch.after
       IN jobs' = [jobs EXCEPT ![patch.job].calls = @ + 1, ![patch.job].patches = @ + 1,
                               ![patch.job].claims = @ + (IF verified THEN 1 ELSE 0),
                               ![patch.job].failures = @ + (IF verified THEN 0 ELSE 1)]
    /\ Audits(patch.time)
    /\ patch' = NoPatch
    /\ UNCHANGED <<starts, file, approved, replaced, edits>>

Completes(j, t) ==
    /\ Runs(j, t) /\ jobs[j].calls > 0
    /\ jobs' = [jobs EXCEPT ![j].last = t,
                            ![j].state = IF jobs[j].failures = 0 THEN "succeeded" ELSE "failed"]
    /\ Audits(t)
    /\ UNCHANGED <<starts, file, patch, approved, replaced, edits>>

Cancels(j, t) ==
    /\ Calls(j, t)
    /\ jobs' = [jobs EXCEPT ![j].last = t, ![j].state = "cancelled"]
    /\ Audits(t)
    /\ UNCHANGED <<starts, file, patch, approved, replaced, edits>>

\* A writer of the workspace that is not the runtime.
Edits ==
    /\ edits < MaxEdits /\ edits' = edits + 1
    /\ file' \in Contents
    /\ UNCHANGED <<jobs, starts, audited, patch, approved, replaced>>

Next ==
    \/ \E j \in Jobs, t \in Times :
          \/ TimesOut(j, t) \/ Refuses(j, t) \/ Approves(j, t) \/ Overruns(j, t)
          \/ AsksReview(j, t) \/ Completes(j, t) \/ Cancels(j, t)
          \/ \E mayPatch, succeeds \in BOOLEAN : Creates(j, t, mayPatch) \/ UsesTool(j, t, succeeds)
          \/ \E after \in Contents : BeginsPatch(j, t, after)
    \/ Compares \/ Replaces \/ EndsPatch \/ Edits

Spec == Init /\ [][Next]_vars

-----------------------------------------------------------------------------
\* Every approval of a job is one patch that was tried, succeeded or not, or is
\* still to be used; a job replaces the file at most once for each, claims no
\* more patches than it made, and one that succeeded claims every patch it tried.
PatchesAreReviewed ==
    \A j \in Jobs :
        LET tried == jobs[j].patches + (IF patch.job = j THEN 1 ELSE 0)
        IN /\ approved[j] = tried + (IF jobs[j].granted THEN 1 ELSE 0)
           /\ replaced[j] <= tried /\ jobs[j].claims <= replaced[j]
           /\ jobs[j].state = "succeeded" =>
                  jobs[j].calls > 0 /\ jobs[j].claims = approved[j] - (IF jobs[j].granted THEN 1 ELSE 0)

=============================================================================
