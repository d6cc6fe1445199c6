---------------------------- MODULE CommandExecution ----------------------------
(* A command runs as a process of its own, perhaps with a descendant, and      *)
(* writes into two pipes. The executor reads them until the command has ended, *)
(* is cancelled or is out of time: on macOS by polling everything in one       *)
(* thread, on Windows with a thread per pipe and a job that holds the          *)
(* processes. What is read beyond a limit is dropped, which changes no step.   *)
EXTENDS Naturals, Sequences, SequencesExt

CONSTANT PipeSize  \* what a pipe holds

CommandExecutionConstants == PipeSize \in Nat \ {0}

VARIABLES
    system,   \* it runs on, which never changes
    pc,       \* the executor in execute()
    at,       \* the pipe it drains, or whose reader it joins
    outcome,  \* of the command: evidence.cancelled, timed_out, or an exit code
    main,     \* the command's process
    child,    \* a descendant of it
    pipes,    \* who wrote what is unread
    readers,  \* stdout_reader and stderr_reader (Windows)
    overdue,  \* the time of the command is over
    stop      \* its token is cancelled

vars == <<system, pc, at, outcome, main, child, pipes, readers, overdue, stop>>

Outputs == {"stdout", "stderr"}
Done == pc \in {"returned", "threw"}
Alive(process) == process \in {"running", "escaped", "killed"}

TypeOK ==
    /\ system \in {"macos", "windows"}
    /\ pc \in {"start", "assign", "resume", "drain", "wait", "look", "reap", "close", "join",
               "returned", "threw"}
    /\ at \in Outputs /\ outcome \in {"none", "exited", "cancelled", "timed out", "failed"}
    /\ main \in {"none", "suspended", "running", "killed", "gone"}
    /\ child \in {"none", "running", "escaped", "killed", "gone"}
    /\ pipes \in [Outputs -> BoundedSeq({"main", "child"}, PipeSize)]
    /\ readers \in [Outputs -> {"none", "reading", "ended"}]
    /\ overdue \in BOOLEAN /\ stop \in BOOLEAN

Init ==
    /\ system \in {"macos", "windows"}
    /\ pc = "start" /\ at = "stdout" /\ outcome = "none"
    /\ main = "none" /\ child = "none"
    /\ pipes = [s \in Outputs |-> <<>>] /\ readers = [s \in Outputs |-> "none"]
    /\ overdue = FALSE /\ stop = FALSE

-----------------------------------------------------------------------------
(* The processes, the clock and whoever cancels.                              *)

MainWrites(s) ==
    /\ main = "running" /\ Len(pipes[s]) < PipeSize
    /\ pipes' = [pipes EXCEPT ![s] = Append(@, "main")]
    /\ UNCHANGED <<system, pc, at, outcome, main, child, readers, overdue, stop>>

ChildWrites(s) ==
    /\ Alive(child) /\ ~Done /\ Len(pipes[s]) < PipeSize
    /\ pipes' = [pipes EXCEPT ![s] = Append(@, "child")]
    /\ UNCHANGED <<system, pc, at, outcome, main, child, readers, overdue, stop>>

MainEnds ==
    /\ main = "running" /\ main' = "gone"
    /\ UNCHANGED <<system, pc, at, outcome, child, pipes, readers, overdue, stop>>

\* A descendant can leave the process group, but not the job.
ChildGoesOn ==
    /\ \/ main = "running" /\ child = "none" /\ child' = "running"
       \/ system = "macos" /\ child = "running" /\ child' = "escaped"
       \/ child \in {"running", "escaped"} /\ child' = "gone"
    /\ UNCHANGED <<system, pc, at, outcome, main, pipes, readers, overdue, stop>>

\* A process that was killed ends.
Dies ==
    /\ \/ main = "killed" /\ main' = "gone" /\ UNCHANGED child
       \/ child = "killed" /\ child' = "gone" /\ UNCHANGED main
    /\ UNCHANGED <<system, pc, at, outcome, pipes, readers, overdue, stop>>

TimePasses ==
    /\ pc /= "start" /\ ~Done /\ ~overdue /\ overdue' = TRUE
    /\ UNCHANGED <<system, pc, at, outcome, main, child, pipes, readers, stop>>

Cancel ==
    /\ ~stop /\ stop' = TRUE
    /\ UNCHANGED <<system, pc, at, outcome, main, child, pipes, readers, overdue>>

-----------------------------------------------------------------------------
(* How the command begins.                                                    *)

\* macOS: fork and setpgid. Windows: a suspended process is put into the job.
Starts ==
    /\ pc = "start"
    /\ IF system = "macos" THEN pc' = "drain" /\ main' = "running"
                           ELSE pc' = "assign" /\ main' = "suspended"
    /\ UNCHANGED <<system, at, outcome, child, pipes, readers, overdue, stop>>

DoesNotStart ==
    /\ pc = "start" /\ pc' = "threw"
    /\ UNCHANGED <<system, at, outcome, main, child, pipes, readers, overdue, stop>>

StartFails ==
    /\ pc \in {"assign", "resume"} /\ pc' = "threw"
    /\ main' = "killed"
    /\ UNCHANGED <<system, at, outcome, child, pipes, readers, overdue, stop>>

Assigns ==
    /\ pc = "assign" /\ pc' = "resume"
    /\ UNCHANGED <<system, at, outcome, main, child, pipes, readers, overdue, stop>>

Resumes ==
    /\ pc = "resume" /\ pc' = "wait" /\ main' = "running"
    /\ readers' = [s \in Outputs |-> "reading"]
    /\ UNCHANGED <<system, at, outcome, child, pipes, overdue, stop>>

-----------------------------------------------------------------------------
(* How it is watched.                                                         *)

\* macOS: reads a pipe until it finds it empty.
Drains ==
    /\ pc = "drain" /\ pipes[at] /= <<>>
    /\ pipes' = [pipes EXCEPT ![at] = Tail(@)]
    /\ UNCHANGED <<system, pc, at, outcome, main, child, readers, overdue, stop>>

Drained ==
    /\ pc = "drain" /\ pipes[at] = <<>>
    /\ IF at = "stdout" THEN at' = "stderr" /\ UNCHANGED pc
       ELSE at' = "stdout" /\ pc' = IF outcome = "none" THEN "wait" ELSE "returned"
    /\ UNCHANGED <<system, outcome, main, child, pipes, readers, overdue, stop>>

\* The command is found ended. macOS drains once more what it wrote before.
AfterExit == IF system = "macos" THEN "drain" ELSE "close"

FindsEnded ==
    /\ pc = "wait" /\ main = "gone"
    /\ outcome' = "exited" /\ pc' = AfterExit
    /\ UNCHANGED <<system, at, main, child, pipes, readers, overdue, stop>>

FindsRunning ==
    /\ pc = "wait" /\ main /= "gone" /\ pc' = "look"
    /\ UNCHANGED <<system, at, outcome, main, child, pipes, readers, overdue, stop>>

\* kill of the process group, TerminateJobObject.
LeavesChild(process) == process
KillsChild(process) == IF process = "running" THEN "killed" ELSE process
Kill(why) ==
    /\ outcome' = why /\ pc' = "reap"
    /\ main' = IF main = "running" THEN "killed" ELSE main
    /\ child' = KillsChild(child)

WaitFails ==
    /\ pc = "wait" /\ Kill("failed")
    /\ UNCHANGED <<system, at, pipes, readers, overdue, stop>>

Looks ==
    /\ pc = "look"
    /\ \/ stop /\ Kill("cancelled")
       \/ ~stop /\ overdue /\ Kill("timed out")
       \/ /\ ~stop /\ ~overdue
          /\ pc' = IF system = "macos" THEN "drain" ELSE "wait"
          /\ UNCHANGED <<system, outcome, main, child>>
    /\ UNCHANGED <<system, at, pipes, readers, overdue, stop>>

\* Waits for the process that was killed, without a limit.
Reaps ==
    /\ pc = "reap" /\ main = "gone"
    /\ pc' = IF system = "macos" /\ outcome = "failed" THEN "threw" ELSE AfterExit
    /\ UNCHANGED <<system, at, outcome, main, child, pipes, readers, overdue, stop>>

\* Windows: a reader ends when nobody can write into its pipe any more, and the
\* job that is closed before the join kills who still could.
Reads(s) ==
    /\ readers[s] = "reading" /\ pipes[s] /= <<>>
    /\ pipes' = [pipes EXCEPT ![s] = Tail(@)]
    /\ UNCHANGED <<system, pc, at, outcome, main, child, readers, overdue, stop>>

ReaderEnds(s) ==
    /\ readers[s] = "reading" /\ pipes[s] = <<>>
    /\ ~Alive(main) /\ ~Alive(child)
    /\ readers' = [readers EXCEPT ![s] = "ended"]
    /\ UNCHANGED <<system, pc, at, outcome, main, child, pipes, overdue, stop>>

JobWithoutLimit(process) == process
JobClosed(process) == IF process = "running" THEN "killed" ELSE process
ClosesJob ==
    /\ pc = "close" /\ pc' = "join" /\ child' = JobClosed(child)
    /\ UNCHANGED <<system, at, outcome, main, pipes, readers, overdue, stop>>

\* After the joins a failed wait, or an exit code that cannot be read, throws.
Joins ==
    /\ pc = "join" /\ readers[at] = "ended"
    /\ IF at = "stdout" THEN at' = "stderr" /\ UNCHANGED pc
       ELSE /\ UNCHANGED at
            /\ pc' \in IF outcome = "failed" THEN {"threw"} ELSE {"returned", "threw"}
    /\ UNCHANGED <<system, outcome, main, child, pipes, readers, overdue, stop>>

Executor ==
    \/ StartFails \/ Assigns \/ Resumes
    \/ Drains \/ Drained \/ FindsEnded \/ FindsRunning \/ WaitFails \/ Looks \/ Reaps
    \/ ClosesJob \/ Joins

Next ==
    \/ Starts \/ DoesNotStart \/ Executor
    \/ \E s \in Outputs : MainWrites(s) \/ ChildWrites(s) \/ Reads(s) \/ ReaderEnds(s)
    \/ MainEnds \/ ChildGoesOn \/ Dies \/ TimePasses \/ Cancel

\* Once begun, threads run, time passes and killed processes end. Nobody has to
\* execute a command; no process has to end by itself, or to write, nor anybody
\* to cancel.
Fairness ==
    /\ WF_vars(Executor) /\ WF_vars(Dies) /\ WF_vars(TimePasses)
    /\ \A s \in Outputs : WF_vars(Reads(s)) /\ WF_vars(ReaderEnds(s))

Spec == Init /\ [][Next]_vars /\ Fairness

-----------------------------------------------------------------------------
(* Properties.                                                                *)

\* Whatever the command wrote before it ended has been read when execute()
\* returns; and however execute() ends a command that has not ended by itself,
\* no process of it goes on, but a descendant that left the group on macOS.
CommandLeavesNothing ==
    /\ pc = "returned" => \A s \in Outputs : ~Contains(pipes[s], "main")
    /\ Done => main \notin {"suspended", "running"}
    /\ Done /\ (outcome /= "exited" \/ system = "windows") => child /= "running"

\* execute() comes back, also from a command that never ends and whose
\* descendants keep its pipes. On macOS there is one exception: while the pipe
\* fills as fast as it is read, drain() neither returns nor looks at the clock.
CommandEnds == [](pc = "start") \/ <>Done \/ <>[](pc = "drain" /\ (Alive(main) \/ Alive(child)))

=============================================================================
