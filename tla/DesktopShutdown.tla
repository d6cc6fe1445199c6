---------------------------- MODULE DesktopShutdown ----------------------------
(* How a desktop session ends, over SSH pipes or two TLS channels: stop() in   *)
(* the viewer's window thread joins the threads that may be blocked in reads   *)
(* and writes, ends the SSH process in between, and the agent on the other     *)
(* side notices through its input worker, even when it has nothing to write.   *)
EXTENDS Naturals

CONSTANTS
    Capacity,       \* messages a direction holds, the pipe to SSH included
    Window,         \* messages SSH takes in without the other side reading
    MaxMessages     \* bound on control messages and frames

\* What the constants must be.
DesktopShutdownConstants == Window \in Nat /\ Capacity \in Nat /\ Window < Capacity /\ MaxMessages \in Nat

VARIABLES
    mode,       \* SSH or TLS, view-only or interactive
    ui,         \* where the window thread is in stop()
    queue,      \* control messages not yet written
    writer,     \* control_writer
    reader,     \* frame_reader
    input,      \* the direction to the agent: messages, still open
    output,     \* the direction to the viewer
    link,       \* the connection: alive, cut (no longer carries) or dead
    worker,     \* input_worker of the agent
    main,       \* the visual loop of the agent, then the end of its process
    sent        \* control messages and frames so far

vars == <<mode, ui, queue, writer, reader, input, output, link, worker, main, sent>>

Tls == mode.tls
Dead == link = "dead"
Stopping == ui /= "running"

\* Only an interactive viewer has an input pipe to SSH; TLS always has both
\* channels, for the heartbeats.
Writes == Tls \/ mode.interactive

-----------------------------------------------------------------------------
(* The viewer: enqueue_control, control_writer_loop and frame_reader_loop.     *)

Queue ==
    /\ ~Stopping /\ Writes /\ sent.control < MaxMessages
    /\ queue' = queue + 1 /\ sent' = [sent EXCEPT !.control = @ + 1]
    /\ UNCHANGED <<mode, ui, writer, reader, input, output, link, worker, main>>

WriterTakes ==
    /\ writer = "waiting" /\ queue > 0
    /\ queue' = queue - 1 /\ writer' = "writing"
    /\ UNCHANGED <<mode, ui, reader, input, output, link, worker, main, sent>>

WriterWrites ==
    /\ writer = "writing" /\ ~Dead /\ input < Capacity
    /\ input' = input + 1 /\ writer' = "waiting"
    /\ UNCHANGED <<mode, ui, queue, reader, output, link, worker, main, sent>>

\* A broken pipe, a cancelled channel, or ten seconds on a TLS channel that
\* takes nothing; then both channels are cancelled.
WriterFails ==
    /\ writer = "writing" /\ (Dead \/ Tls)
    /\ writer' = "ended" /\ link' = IF Tls THEN "dead" ELSE link
    /\ UNCHANGED <<mode, ui, queue, reader, input, output, worker, main, sent>>

\* Over SSH the writer also waits until SSH has read the pipe.
WriterEnds ==
    /\ writer = "waiting" /\ queue = 0 /\ Stopping
    /\ Tls \/ Dead \/ input <= Window
    /\ writer' = "ended"
    /\ UNCHANGED <<mode, ui, queue, reader, input, output, link, worker, main, sent>>

ReaderReads ==
    /\ reader = "reading" /\ output > 0
    /\ output' = output - 1
    /\ \/ ~Stopping /\ UNCHANGED <<reader, link>>
       \* stopping is seen, or the frame makes no sense
       \/ reader' = "ended" /\ link' = IF Tls THEN "dead" ELSE link
    /\ UNCHANGED <<mode, ui, queue, writer, input, worker, main, sent>>

ReaderFails ==
    /\ reader = "reading" /\ output = 0 /\ Dead
    /\ reader' = "ended"
    /\ UNCHANGED <<mode, ui, queue, writer, input, output, link, worker, main, sent>>

-----------------------------------------------------------------------------
(* stop(), step by step.                                                      *)

Ui(from, to) == ui = from /\ ui' = to

\* A last release-all is queued before the writer drains.
Stop ==
    /\ Ui("running", IF Writes THEN "join writer" ELSE "cancel")
    /\ queue' = IF mode.interactive THEN queue + 1 ELSE queue
    /\ UNCHANGED <<mode, writer, reader, input, output, link, worker, main, sent>>

JoinsWriter ==
    /\ Ui("join writer", "cancel") /\ writer = "ended"
    /\ UNCHANGED <<mode, queue, writer, reader, input, output, link, worker, main, sent>>

\* Cancelling the channels, or closing input_write.
Cancels ==
    /\ Ui("cancel", "terminate")
    /\ link' = IF Tls THEN "dead" ELSE link
    /\ UNCHANGED <<mode, queue, writer, reader, input, output, worker, main, sent>>

InputClosed == ui \in {"terminate", "join reader", "done"}

\* The SSH process is left to end by itself.
TerminatesNever == link
\* TerminateProcess, after a quarter of a second.
Terminates == "dead"

TerminatesSsh ==
    /\ Ui("terminate", "join reader")
    /\ link' = IF Tls THEN link ELSE Terminates
    /\ UNCHANGED <<mode, queue, writer, reader, input, output, worker, main, sent>>

JoinsReader ==
    /\ Ui("join reader", "done") /\ reader = "ended"
    /\ UNCHANGED <<mode, queue, writer, reader, input, output, link, worker, main, sent>>

-----------------------------------------------------------------------------
(* The agent: input_worker, the visual loop and the end of stream_h264_stdio.  *)

\* Over SSH a view-only agent has no input worker.
WorkerReads ==
    /\ worker = "reading" /\ input > 0 /\ link = "alive"
    /\ input' = input - 1
    /\ UNCHANGED <<mode, ui, queue, writer, reader, output, link, worker, main, sent>>

\* The end of the input, half a minute without any over TLS, or a message that
\* is refused. Everything held is released before.
WorkerEnds ==
    /\ worker = "reading"
    /\ Dead \/ Tls \/ input > 0 \/ (InputClosed /\ link = "alive")
    /\ worker' = "ended" /\ link' = IF Tls THEN "dead" ELSE link
    /\ UNCHANGED <<mode, ui, queue, writer, reader, input, output, main, sent>>

\* control_disconnected.
Disconnected == worker = "ended"

\* A write blocks until there is room.
AgentBegins ==
    /\ main = "looping" /\ sent.frames < MaxMessages
    /\ main' = "writing" /\ sent' = [sent EXCEPT !.frames = @ + 1]
    /\ UNCHANGED <<mode, ui, queue, writer, reader, input, output, link, worker>>

AgentWrites ==
    /\ main = "writing" /\ ~Dead /\ output < Capacity
    /\ output' = output + 1 /\ main' = "looping"
    /\ UNCHANGED <<mode, ui, queue, writer, reader, input, link, worker, sent>>

\* std::cout turns bad only when something is written: after the end of the
\* connection, or ten seconds on a TLS channel that takes nothing.
AgentFinds ==
    /\ \/ main = "looping" /\ Disconnected
       \/ main = "writing" /\ (Dead \/ Tls)
    /\ main' = "joining" /\ link' = IF Tls THEN "dead" ELSE link
    /\ UNCHANGED <<mode, ui, queue, writer, reader, input, output, worker, sent>>

\* The process ends, and with it the remote end of the connection.
AgentExits ==
    /\ main = "joining" /\ worker \in {"none", "ended"}
    /\ main' = "exited" /\ link' = IF link = "alive" THEN "dead" ELSE link
    /\ UNCHANGED <<mode, ui, queue, writer, reader, input, output, worker, sent>>

-----------------------------------------------------------------------------
(* The network, TCP's timeouts and the SSH process in between.                *)

NetworkFails ==
    /\ link = "alive" /\ link' = "cut"
    /\ UNCHANGED <<mode, ui, queue, writer, reader, input, output, worker, main, sent>>

TcpTimesOut ==
    /\ link = "cut" /\ link' = "dead"
    /\ UNCHANGED <<mode, ui, queue, writer, reader, input, output, worker, main, sent>>

\* What a broken connection had not delivered is gone for the viewer.
Loses ==
    /\ Dead /\ output > 0 /\ output' = 0
    /\ UNCHANGED <<mode, ui, queue, writer, reader, input, link, worker, main, sent>>

Init ==
    /\ mode \in [tls : BOOLEAN, interactive : BOOLEAN]
    /\ ui = "running" /\ queue = 0 /\ input = 0 /\ output = 0 /\ link = "alive"
    /\ writer = IF Writes THEN "waiting" ELSE "ended"
    /\ reader = "reading"
    /\ worker = IF Writes THEN "reading" ELSE "none"
    /\ main = "looping" /\ sent = [control |-> 0, frames |-> 0]

Viewer ==
    \/ WriterTakes \/ WriterWrites \/ WriterFails \/ WriterEnds
    \/ ReaderReads \/ ReaderFails
    \/ JoinsWriter \/ Cancels \/ TerminatesSsh \/ JoinsReader

Agent == WorkerReads \/ AgentWrites \/ AgentFinds \/ AgentExits

\* What the input worker must do, and what it merely may.
WorkerMustEnd == WorkerEnds /\ (Dead \/ (InputClosed /\ input = 0))

Next ==
    \/ Queue \/ Stop \/ Viewer \/ Agent \/ WorkerEnds
    \/ AgentBegins \/ NetworkFails \/ TcpTimesOut \/ Loses

\* Threads run, blocked TLS writes and dead TCP connections time out. Neither
\* does the user have to stop, nor the desktop to change.
Fairness ==
    /\ WF_vars(WriterTakes) /\ WF_vars(WriterWrites) /\ WF_vars(WriterFails) /\ WF_vars(WriterEnds)
    /\ WF_vars(ReaderReads) /\ WF_vars(ReaderFails)
    /\ WF_vars(JoinsWriter \/ Cancels \/ TerminatesSsh \/ JoinsReader)
    /\ WF_vars(WorkerReads) /\ WF_vars(WorkerMustEnd)
    /\ WF_vars(AgentWrites) /\ WF_vars(AgentFinds) /\ WF_vars(AgentExits)
    /\ WF_vars(TcpTimesOut)

Spec == Init /\ [][Next]_vars /\ Fairness

-----------------------------------------------------------------------------
(* Properties.                                                                *)

TypeOK ==
    /\ mode \in [tls : BOOLEAN, interactive : BOOLEAN]
    /\ ui \in {"running", "join writer", "cancel", "terminate", "join reader", "done"}
    /\ queue \in 0 .. MaxMessages + 1
    /\ writer \in {"waiting", "writing", "ended"} /\ reader \in {"reading", "ended"}
    /\ input \in 0 .. Capacity /\ output \in 0 .. Capacity
    /\ link \in {"alive", "cut", "dead"}
    /\ worker \in {"none", "reading", "ended"} /\ main \in {"looping", "writing", "joining", "exited"}
    /\ sent \in [control : 0 .. MaxMessages, frames : 0 .. MaxMessages]

\* Over SSH, an agent that has refused a control message reads no more of
\* them; if a large frame holds it in a write which nobody reads any longer, it
\* never notices, and the writer stays blocked in a full pipe.
Stuck ==
    /\ mode = [tls |-> FALSE, interactive |-> TRUE]
    /\ ui = "join writer" /\ reader = "ended"
    /\ worker = "ended" /\ main = "writing" /\ input > Window

\* stop() returns, and the window closes: no join waits for a thread that is
\* blocked in a read or write which nothing interrupts, whatever the agent,
\* the SSH process and the network do. The order of stop(), which terminates
\* SSH after it joins the writer, leaves one exception.
StopReturns == Stopping ~> (ui = "done" \/ Stuck)

\* "EOF ends an interactive session even on a static desktop": once the
\* viewer has stopped, the agent's process ends although it has nothing to
\* write and so never sees that its output is broken.
AgentFollows == (Writes /\ ui = "done") ~> main = "exited"

=============================================================================
