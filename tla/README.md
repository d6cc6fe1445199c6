# A verification project for LanPilot

LanPilot shows the screen of a Mac in a window on Windows, sends keyboard and
mouse input back, and carries the services of a remote workspace (builds,
deployments, updates, agents, pairing) between the same two machines.  This
directory holds TLA+ models of the parts whose correctness depends on the order
of events, TLC configurations that check them on small instances, and theorems
checked by TLAPS.

## 1. The system

| Component | State it keeps | Operations | Talks to |
| --- | --- | --- | --- |
| capture and exact analyser (`platform/macos/src/desktop_runtime.mm`) | latest frame, content generation, exact base, reserved target | capture callback, analyse, snapshot, evaluate rectangles, promote, invalidate | encoder worker, visual loop |
| encoder worker and VideoToolbox encoder (same file, `desktop-agent/main.cpp`) | submission gate, output queue of 4, minimum epoch, tail-refresh budget | submit latest, repeat last, deliver, discard old epochs | visual loop |
| visual loop of the agent (`desktop-agent/main.cpp`) | mode, epochs, pending snapshot, exact base, rectangle in flight | quiesce, snapshot, send, rectangle, acknowledge, time out, recover | viewer (visual stream) |
| viewer frame reader (`viewer/main.cpp`) | representation, epoch, half-received snapshot or rectangles, digest | reset, chunk, rectangle, commit, access unit, recover | compositor (commands, slot), agent (requests) |
| viewer compositor and renderer (`viewer/main.cpp`, `viewer/d3d11_renderer.cpp`) | canonical framebuffer, two surfaces, upload in progress | begin, chunk, commit, rectangle, cancel, expire, draw | agent (acknowledgements) |
| viewer window and control writer (`viewer/main.cpp`) | focus, reliable queue of 256, one pointer slot, sequences, input epoch | capture input, focus, queue, write, stop | agent (control stream) |
| input worker and receiver (`desktop-agent/main.cpp`, `desktop/src/desktop.cpp`) | wire sequence, input epoch, last sequences, held controls | receive, inject, release all, end | native input backend, visual loop |
| deployment service and backend (`core/src/deployment.cpp`) | records by id; the active file, a rollback, a quarantine and a staging path per id | deploy (stop, stage, install, start, health), undo, manual rollback | command executor, durable file system, artifact store, audit |
| broker process (`broker/main.cpp`) | its socket, one connection | serve one request, answer, exit | node (socket), deployment service |
| node's deployment call (`deployment_broker_ipc.cpp`, `deployment_service.cpp`, `control_service.cpp`) | the connection, the audit row of the answer | submit, wait with a timeout, check and record the answer | broker, client |
| release update (`core/src/release_update.cpp`) | records by id; packages as above; backups, restores and damaged trees of the protected state | apply, undo, manual rollback | command executor, durable file system |
| workspace client (`client/src/workspace_client.cpp`, `client/main.cpp`) | the manifest it scanned, the plan of the file it sends | scan, plan, send chunks, commit | node (file stream) |
| workspace mirror (`node/src/workspace_service.cpp`, `core/src/file_transfer.cpp`) | the mirror, staging files, the open transfers, the state file | begin, accept plan and chunk, commit in phases, persist | client, Build Worker (reads mirror and state file) |
| pairing (`core/src/pairing_store.cpp`, `identity.cpp`, `node/src/pairing_service.cpp`, commands of `node/main.cpp`) | the state file and its staging file; a window with its budget | pair, confirm, revoke, load | node commands, listener (certificate), audit |
| node control (`node/src/control_service.cpp`, `core/src/session_service.cpp`) | sessions ever opened, active ids | open, permit, record, close, prune | audit log, every service of the node |
| audit log and journal (`core/src/audit.cpp`, `audit_file.cpp`) | events in memory, lines on disk | append, query | all of the above |
| resilient transport (`transport/src/resilient_transport.cpp`, `encrypted_fallback.cpp`) | state, failure count, endpoint, the active connection | connect, network_changed, reconnect, close | QUIC connector, fallback provider |
| Schannel provider (`platform/windows/src/schannel_transport.cpp`) | pending binding; per channel the undecrypted bytes; per TLS plane streams, queues and the frame buffer | TLS then DTLS handshake, send and parse frames, pump | resilient transport, sockets |
| MsQuic transport (`transport/src/msquic_client.cpp`) | per connection what its callbacks noted; pending connections; three kinds of receive queues | accept, open, read, datagrams, migrate | MsQuic's worker threads |
| Network.framework transport (`platform/macos/src/network_transport.mm`) | the same, on dispatch queues | the same | Network.framework |
| end of a desktop session (`viewer/main.cpp`, `desktop-agent/main.cpp`) | stopping, the control queue, two pipes or channels, the SSH process | stop, join, cancel, terminate; input EOF | window, SSH or TLS, both processes |
| datagram video (`desktop/src/desktop.cpp`) | the frame being put together, whether a keyframe is needed, the last frame completed | receive, notify_loss | datagrams of the video channel |
| audio (`audio/src/audio.cpp`) | packets held, the position | push, pop, reset | datagrams of the audio channel, the player |
| command executors (`platform/macos/src/command_executor.cpp`, `platform/windows/src/command_executor.cpp`) | the process, two pipes, evidence; on Windows a job and two reader threads | execute | processes of the system; Build Worker, broker, update |
| visual traces (`desktop/src/visual_trace.cpp`, threads of viewer and agent) | events waiting to be written, the last frame of every stage, what the watchdog observes | record, push, pop, poll, close | every thread that handles frames, the end of the session |
| workspace sync state machine (`core/src/workspace_sync.cpp`) | state, pending revision, records | diff, apply, begin, commit, fail | its tests |
| Build Worker (`build-worker/main.cpp`, `core/src/build.cpp`, `node/src/build_service.cpp`) | its socket path, evidence files, one job per process | build, publish, serve an artifact, leave evidence | node (socket), workspace mirror (the files it reads), artifact store |
| artifact store and transfer (`core/src/artifact_store.cpp`, `file_transfer.cpp`, client and node services) | objects, records, staging files | publish, plan, accept a chunk, finalize | Build Worker, node relay, client |
| agent runtime (`core/src/agent_runtime.cpp`) | jobs, starts, grants, evidence | create, execute, approve, complete, cancel | audit log, workspace files, build |

`PROJECT.json` lists every part, the ones that are not modelled with the reason.

### What is hard

* The agent runs four threads over the same epoch (encoder worker, dirty
  worker, visual loop, input worker), the viewer four (window, reader,
  compositor, control writer).  None of them waits for another one's state:
  they exchange queues, flags and a single slot.
* Either side may abandon a transaction at any point: half-sent snapshots,
  expired uploads, rectangles whose acknowledgement is late.  Both sides must
  then agree again on what the viewer shows, because the next rectangle patches
  it.
* The control queue is bounded; an overflow must not lose a release.
* A deployment or an update is a dozen steps of which each may fail, some of
  them after they took effect, in a process that may die between any two, while
  the caller may already have given up.
* A workspace sync rewrites a live tree in phases, from files the user may be
  editing, over a connection that may break, in a process that may die; the next
  sync starts from whatever is left.
* The node's commands are processes of their own that share files and nothing
  else; any of them may die between two file steps, and every audited operation
  can fail in its audit line.
* The transports answer to callbacks of libraries on threads of their own;
  whatever a thread decided under one mutex may be wrong when it takes the next.
* Readers and writers block.  A session ends only if each of them is woken by
  something: the order of joins, cancels and of the process's end matters.
* The Build Worker reads files that the node may replace, and outlives the node's
  patience; an artifact is two files and an evidence is a third.

## 2. Modules

### InputChannel

Viewer window -> control queues -> control writer -> stream -> input worker.

| Variables | Code |
| --- | --- |
| `reliable`, `pointer`, `nextOrder`, `nextReliable`, `nextPointer`, `epoch` | `ViewerState::reliable_control`, `pointer_control`, `next_control_order`, the two sequences, `input_epoch` |
| `foreground`, `focusMsgs`, `focused` | the window's foreground state, its message queue, `InputFocusReleaseGate` |
| `closing`, `writer`, `nextWire` | `stopping`/`control_closing`, `control_writer_loop` |
| `inputEpoch`, `lastWire`, `lastReliable`, `lastPointer`, `held` | `InputReceiver` and `last_sequence` of the input worker |

Every action is one message of the window procedure, one turn of the writer or
one message of the worker.  `EnqueueReliable` is `enqueue_control`: admit with
the frozen pointer motion, or refuse, or clear the queue and open an epoch.
`down` and `pos` are history the properties need: what the user holds, and where
the pointer was when an edge was queued.  Keys are forwarded by the keyboard hook,
which asks for the foreground window; the messages of the mouse are handled
without that question.  So a motion is always queued, and a button that is let
go in the background may be (`Reaches`; or another window gets the message).  A
button that is pressed is in the foreground: Windows activates the window under
the pointer before it delivers the press.

### VisualSession, and ExactFramebuffer above it

`VisualSession` is the picture of an interactive SSH session, from the capture
callback to the D3D11 surface and back to the acknowledgement.  Its variables
are grouped by the thread that owns them: `shot`/`analyzed` (capture and
analyser), `encoder`, `agent` (the visual loop), `inbox` (what the input worker
leaves for it), `wire` (visual stream), `reader`, `cmds`/`slot` (what the reader
leaves for the compositor), `compositor`, `ctl` (control stream).

* A frame is its number; `shot` gives its content.  A digest is abstracted to
  the history it hashes, so two digests are equal exactly when the hashed pixels
  are (SHA-256 without collisions).
* A rectangle transaction carries one rectangle from the content of the base to
  the content of the target.  `Patch` gives `Garbled` when the surface shows
  neither: that is what patching a wrong base looks like.
* `AgentSnapshots` and `Capture` model what the code reads at that moment: the
  snapshot is of the latest analysed frame, not of the frame that made the
  screen quiet.
* The encoder emits one access unit per submitted frame and may choose an IDR by
  itself (`keyframe_interval`), so `key` is a free choice unless one was forced.
* `CompositorDraws` and `CompositorCommits` have a failing branch: the surfaces
  are swapped, then the present throws.  `MaxFaults` bounds it.
* Timers: the quiet interval, the re-entry cooldown and the acknowledgement
  timeouts are nondeterministic.  A timeout that fires although its answer (or
  an analysis) is still under way is counted in `MaxTimeouts`; one that fires
  when nothing else can happen is not bounded.
* The encoder worker visits the submission gate twice to repeat a frame
  (`EncoderFindsNothing`, `EncoderRepeats`), and between the visits any thread may
  do anything: the second visit checks only that video is on, and submits under
  the epoch it then finds.  A worker that was delayed across a whole snapshot
  thus submits its old frame as the IDR of the new epoch.  `draw_video` shows it
  over the newer exact picture before `commit_video` refuses it as older
  (viewer/main.cpp:1405), so that the compositor still calls exact what is not.
  `encoder.late` is history: the frames that were repeated like this, with the
  epoch they went out in.  `OnlyLateRepeatsRegress` and `ExactIsTheFrame` except
  exactly these; without the exceptions TLC refutes both at the bounds of
  `visual_modes` and of `visual_converges`, so the runs do reach the case.
  `ConvergesToExact` has no exception: the session ends up exact all the same.
  `MaxVisits` bounds the visits that find no fresh frame.

`ExactFramebuffer` is what the session promises without epochs, messages or
threads: the viewer's committed frame only advances; the agent relies on a frame
the viewer committed exactly; while it does, no lossy frame replaces the picture
and at most one exact commit is ahead.  `VisualSession` implements it under
`shown <- compositor.frame, quality <- compositor.quality, agreed <- agent.exactFrame`
(`ImplementsExactFramebuffer`).

### SlotStore, Deployment and ReleaseUpdate

`SlotStore` has the file moves that the deployment and the update backend share,
each as the set of results it can have: how it ended and which files it leaves.
A rename that is followed by a failing flush of the directory has thrown and has
happened.  A file is its content; `previous[id]`, `failed[id]` and `part` are the
paths `rollback/<id>.previous`, `failed/<id>.failed` and `.deploy-<id>.part`.

`Deployment` runs those moves as steps of `DeploymentService::deploy`:

| Variables | Code |
| --- | --- |
| `files`, `running` | the runtime directory; what the stop and start commands control |
| `worker` | the local state of `deploy()` or `rollback()`: the step, the request, the outcome |
| `records` | `DeploymentService::records_`, lost with the process |
| `endpoint`, `call` | the broker's socket path, the node's connection |
| `ledger` | the last answer `record_deployment` wrote |
| `prior`, `submitted`, `faults` | history, and the bounds on timeouts and crashes |

`FileStep` and the three command actions are `file_step` and `process_step`;
`Fails` is where the two `catch` blocks lead.  A failing command may have
done its work.  `OneShot` is the broker of the product, which exits after one
request; the embedded service keeps its records and offers the manual rollback.

`ReleaseUpdate` has the same package moves and adds the protected state: `state`
is a version per directory, `backups`, `restores` and `damaged` are the trees
under the transaction root, `used` says which of them exist.  `HalfMoved` is what
the loop of renames in `restore_state` and its undoing can leave.  The service
writes whenever it runs (`ServiceWrites`).

### WorkspaceSync

One client, one source tree and a node that serves one sync per process.

| Variables | Code |
| --- | --- |
| `source`, `mirror` | the tree of the user, the mirror root; a path is absent, a directory, a file or a link |
| `staging` | the `.rwn-<transfer>.part` files; the revision in their name is left out, since every commit removes those that are left |
| `state` | `WorkspaceMirrorStateFile`; the manifest hash stands for the tree it is a hash of |
| `client` | the locals of `sync_workspace` and `make_plan` |
| `node` | `WorkspaceMirrorService`: pending manifest, requested files, transfers, and the place in `commit` |
| `wire` | the file stream; one message at a time, because nothing the node does with a chunk depends on what the client does with the next |

A file is the sequence of its chunks.  Each phase of a commit treats one entry a
step, so that the node can die between any two entries; the node can also die in
the middle of a chunk, which leaves it `Torn`.  `acked`, `dirty`, `spoiled` and
`doomed` are history.  `InTheWay` is evaluated when the node begins and says
which mirrors a sync cannot convert.

`UndisturbedCommits` is an exact statement about trees whose links point at
top-level paths that are links in no tree (`WorkspaceAssumption`; links that lead
inside a directory or to another link are not modelled): a sync that nothing
disturbs fails
if, and only if, one of four things was in its way when it began: a link above
a file of the manifest (`begin` throws); a file where a directory with files
shall be (`accept_chunk` cannot create the parent, because the commit, which
would remove the file, comes later); a link in place of a file, when what it
points at exists or an earlier transfer of the same sync makes it (the transfer
resolves its destination through the link and overwrites the link's target); a
staging file of an interrupted transfer that is longer than the file is now
(chunks are written over it, nothing truncates it, and `finalize` refuses its
size). The first, second and fourth leave the mirror as it was, so every retry
fails until the source changes or an operator removes what is in the way; the
third has lost the link, so that the next sync finds nothing in its way there.

### PairedDevice and NodeControl

`PairedDevice` has the pairing file as the commands of the node use it, one
process each.  `stored` and `staged` are the state file and `<file>.staging`;
`command[p]` is where a process is in `pair_once`, `revoke_pairing` or
`serve_once`; `held` is the device it loaded or is about to write; `attempts`
the budget of its window.  `Check`, `Open`, `Write` and `Move` are
`PairingStore::persist`, which nothing locks: `Alone` is the administrator who
runs one pairing command at a time.  A process that serves may run beside it.
`standing` is history: what the last completed command established.

`NodeControl` has `session` (`SessionService::sessions_`), `active`
(`NodeControlService::active_`), the wall clock and `log`, the events in memory
with the lines of the journal.  `Appends` gives the outcomes of
`AuditLog::append`: refused because the clock stepped back, done, or failed with
nothing, a part or all of the line written.  Each operation says what it does
with each outcome, the denial that `serve_session_open` writes in its `catch`
included.  A restarted process knows no session and goes on in the same journal.

`MCNode` checks these and five more modules in one run: a
behaviour is one of a single part, because the parts share no state a property
of either is about.

### The transports and the end of a session

`MCTransport` runs nine modules without shared state side by side and gives a
behaviour to one of them at a time: these six, and the three of the next two
sections.

| Module | State | Code |
| --- | --- | --- |
| `ResilientTransport` | `client`, `attempt`, `pending` | `ResilientTransport` of several clients, the place of each in `connect`, `pending_binding_` of the provider they share |
| `StreamMux` | `wire`, `buffer`, `queue`, `reader`, `pump` | the TLS plane: records under way, `frame_buffer_`, `StreamState::messages`, readers at their deadline, who holds `receive_mutex_` |
| `TlsRecords` | `unsent`, `incoming`, `pending`, `fed` | TCP's bytes cut anywhere, the handshake's input, `encrypted_pending_`, what Schannel was given |
| `QuicServer` | `conn`, `pending`, `accepting` | what the callbacks noted of each connection, `pending_`, the place in `accept()` |
| `QuicInbox` | `queue`, `refused`, `errors` | the receive queues of a stream and a connection |
| `DesktopShutdown` | `ui`, `writer`, `reader`, `input`, `output`, `link`, `worker`, `main` | the window thread in `stop()`, the viewer's and the agent's threads, the pipes or channels between them |

`QuicServer` and `QuicInbox` have a constant `Library`: the two implementations
of one interface differ in when a handshake begins, in what a callback takes
back, and in what a full queue does.

* Migration is MsQuic's `confirm_migration`, which asks for the same host and a
  changed local address.  Network.framework's `path_changed` accepts any call
  with the same host and port.
* A stream's frame that finds the message queue full is parsed again when more
  plaintext arrives, not before.  A record that finds the frame buffer full is
  dropped and reported to the reader that pumped it (`spilled`), whosever frame
  it belongs to.  A record counts as one unit, so the model's buffer stays full
  where the code, which compares bytes, may still take a shorter record and
  complete the truncated frame with it: what follows a dropped record is not
  followed, and `ReadsAPrefix` claims nothing of it.
* MsQuic notifies the listener without its mutex, so a wake-up can be lost until
  the timeout; a connection that fails before it is accepted keeps its place
  among the pending ones (`AcceptTakes`).
* `link` in `DesktopShutdown` is alive, cut (nothing arrives, TCP does not know
  yet) or dead.  `start_ssh` sets no `ServerAliveInterval`, so over SSH the time
  from cut to dead is TCP's own.  A view-only agent over SSH is not told that its
  viewer is gone until it writes, which `AgentFollows` (in `SessionEnds`) leaves out (`Writes`).
* `StopReturns` has one exception, `Stuck`, without which TLC refutes it: over
  interactive SSH `stop()` joins the control writer before it terminates SSH.
  When the agent's input worker has ended by a refused message, while a large
  frame holds the agent's loop in a write which the viewer's reader, already
  stopping, no longer reads, then nobody reads the control pipe; a writer with
  more queued than the pipe and SSH's window hold blocks for good.

### The datagrams of video and audio

`FrameReassembly` is `FrameReassembler`: `current`, `fragments`,
`keyframeRequired`, `completed`; `heard` remembers the first newer frame of which
anything arrived since a frame came out.  `JitterBuffer` is `AudioJitterBuffer`:
`packets`, `expected`; `accepted`, `played` and `concealed` remember what it did.
In both the network is a choice: any fragment or packet that was sent arrives at
any later time, any number of times, or never.  They are parts of `MCTransport`.

* A fragment that contradicts its frame throws and leaves the frame as it is;
  one sender makes all fragments of a frame, so this is not a state of the model.
* A frame of which nothing arrives is not noticed: the next delta frame is
  shown.  The code leaves this to `notify_loss`, and `DeltasFollow` speaks only
  of frames that were heard of or reported.
* `pop` conceals a missing packet at once when a later one is held, and else
  when the player's deadline is over.  The position runs ahead while the sender
  is silent (`audio.cpp:209`), every packet after that is late until `reset`;
  `AcceptedIsPlayed` is about packets that were accepted.

### The execution of a command

`CommandExecution` is `execute()` of both executors: `system` is chosen once,
`pc`, `at` and `outcome` are the executor's, `main` and `child` the command's
process and a descendant, `pipes` what is unread and who wrote it, `readers` the
two threads on Windows.  It is a part of `MCTransport` because it has, as the end
of a session, a liveness property.

* Output beyond 16 MiB is read and dropped, which changes no step; the model has
  no such limit, and a process may write for ever.
* On macOS a descendant may leave the process group and is not killed then; on
  Windows nothing leaves the job.  After a command that ended by itself macOS
  leaves its descendants alone, which a deployment's start command relies on.
* `CommandEnds` has an exception: on macOS, `drain()` (line 50) reads until the
  pipe is empty.  While a process fills it as fast as it is read, `execute()`
  neither sees that the command has ended nor looks at its token and its time.
  Without the exception TLC shows that behaviour, also after the command itself
  has ended and only a descendant writes.

### VisualTrace and WorkspaceHistory

`VisualTrace` has what agent and viewer share: `reached` is the tracker's
snapshot, one number per stage of the host; `holding` the threads between
`record()`, which numbers the event, and `try_push`, each under a mutex of its
own; `queue` and `counted` the events waiting and those written or counted as
dropped; `watch` the watchdog, `ending` how far the end of the session has come.
The agent's capture and input worker outlive the writer; everybody else is
joined before.  Two things the model shows besides its property:

* a stall is measured per stage and frame, so a stage that stays behind while new
  frames arrive at the one before it starts its threshold again with each of them;
* a stall whose gap changes is never followed by a recovery of its own.

`WorkspaceHistory` has `diff_manifests` and `apply_manifest_diff` as operators
over manifests (a function from paths, ordered as their names, to entries), the
state machine `begin`, `commit`, `fail`, and `mirror`, the entries the caller
keeps.  A symbolic link is not an entry of its own: to both functions it is, as
a directory, something that is not a file.

### BuildWorker, ArtifactDownload and AgentRuntime

`BuildWorker` has both sides of the worker's socket.  `recorded` is the revision in
the workspace state file, `mirror` the revision whose files are in the mirror
(`Mixed` while a commit is under way or after one that failed); `node` is the one
node process, `worker.at` the place in `serve_once` and `execute_request`;
`objects`, `records`, `pending` are the three directories of the `ArtifactStore`,
`evidence` and `partial` the two evidence files.  A file's bytes are the revision
they were built from and their hash is themselves, so "the object is what its
name says" is an equality.  A node that waits starts no sync, because one process
holds the listener; a node that gave up does, while the worker still reads:
`Reads` then is `Mixed`.  What the model shows besides its properties:

* a `.pending` record or an `.evidence.partial` left by a dead worker blocks its id
  for ever; a build id that already succeeded is built and published again before
  its evidence refuses it;
* a sync whose commit ended before it was recorded leaves other files than the
  recorded revision names, and a build that starts there (`astray`) succeeds for
  the recorded one;
* the worker goes on for a node that no longer waits.

`ArtifactDownload` is `download_artifact` against `serve_artifact_download`: a chunk
of the staging file is absent, torn or right, `client.expected` is the set the loop
both takes from and counts against, `wire` is the stream, in which what the node
sent before it ended is still read.

`AgentRuntime` has every public operation that changes a job.  `jobs` is `jobs_`
with the evidence counted by kind, `starts` is `job_starts_`, `audited` the time of
the last audit event: `Audits` refuses an earlier time after the caller has made
its change, as the code does, so an approval whose event is refused still grants
and a job starts without its start event.  `patch` is the call of
`workspace_patch` under way, split where another writer of the file can come in:
compare, replace, verify.  A grant is for the next patch of the job, whichever
that is.

`MCNode` runs these three too; `MCDownload` has the one property of the download
that fails.

## 3. Runs

| Run | Instance | Shows |
| --- | --- | --- |
| `input_channel` | 1 key, 1 button, 2 positions, queue of 2, 3 queued messages, 2 focus changes, fair threads | the queue, the wire and the worker stay on one rising sequence of epochs; nothing stays pressed after the worker ends or once the channel is idle; an edge acts at its own position; a focus loss releases everything, or the user is back |
| `input_gap` (violation) | 1 button, 5 queued messages | a refused edge leaves a hole in the reliable sequence that ends the session |
| `visual_modes` | exact-only and hybrid, 3 contents, snapshots of 2 chunks, 1 encoder slot; 3 events in hybrid mode and 4 in the exact-only one, an event being a capture, an early timer or a failing present; 1 repeat, decided and submitted at any two moments | no garbled picture, an agreed base, equal digests; exact means exact and no older frame is drawn over a newer one, late repeats apart; a legal stream; the refinement |
| `visual_converges` | exact-only and hybrid, 2 contents, snapshots of 1 chunk, 3 and 4 events as above without failing presents, 1 repeat, fair threads | a still screen ends up shown exactly, and the agent knows it |
| `idr_opens_video` (violation) | hybrid, 4 events | the IDR of an epoch can be lost in the slot and a non-IDR frame replaces the exact picture |
| `rollback` | 3 ids, 3 artifacts, 1 timeout, 1 crash of the broker; also the embedded service, with repeated ids and manual rollbacks | what "active" and "rolled back" promise, nothing overwritten, the missing file is recoverable, the node's record agrees; or 2 updates of 3 packages, 2 directories, 1 write: the same promises, no version of the protected state is lost, the service never runs without a directory |
| `deployment_redeploy` (violation) | one-shot broker, an id submitted again | "rolled back" puts an older file back |
| `rollback_state` (violation) | 2 ids, 3 packages, 2 directories, 1 write | a manual rollback takes a late write back |
| `workspace_sync` | 14 trees over `d` (a file, a link to `f`, a directory with `d/x`) and `f` (a file, a directory with `f/x`); 2 revisions, 2 edits, 2 faults | whole files only, the recorded revision is mirrored until a commit begins, an acknowledged one stays, and exactly which syncs fail |
| `node` | 2 processes, 2 fingerprints; or 2 sessions, capacity 1, 3 events in memory, 3 lines, 1 backward step of the clock, 1 failing append, 1 restart; or 1 build id, 2 artifacts, 2 revisions, 1 node that gives up, 1 death of a worker; or 4 chunks, 2 breaks; or 2 jobs, a clock of 3, 1 tool call each, 1 foreign write | the pairing file follows the commands through every crash; no session is usable that the journal does not show open, memory is a part of the journal, a torn line is only ever the last, an ended session stays ended; an answered build has left its evidence and artifacts of its revision, and what is published stays; an undisturbed download takes half of what it asked for; a patch has an approval of its own |
| `transport` | 2 clients, 4 endpoints, fallback after 2 failures; 2 streams of 3 messages, 1 queued; 3 handshake and 2 data records of 3 pieces; 3 QUIC connections, 2 pending; 3 messages, streams and datagrams into queues of 1; 2 messages per direction, 3 control messages and frames, fair threads; 4 frames of up to 2 fragments; 6 packets into a buffer of 3; a command with 1 descendant on either system | a ready connection is whole; no binding is left behind; nothing is read past something lost; only proved peers are handed out, once; a delta frame is never shown after a gap that was seen; accepted audio is played once, in order; a session ends on both sides, and so does a command, of which nothing is left |
| `download_omitted` (violation) | 3 chunks, 1 break | a client that asked for two chunks reads one and says the node omitted the other |

### Bounds

Three captures give every order of two changes of representation (a base, a
rectangle on it, a newer source during it).  Captures, early timers and
failing presents share one bound (`MaxEvents`), so each of them meets the others
at every place without all of them meeting at once; the exact-only mode has
fewer threads and one event more (`MaxExactEvents`).  The first frame shows `a`
(`FirstContents`): contents are interchangeable, and `visual_modes` also
identifies the other two; TLC takes no symmetry set with liveness.  Snapshots
of two chunks can be abandoned half-way.  Two contents let the screen go back to
what it showed; the third one is what makes a patch on a wrong base visible.  A queue of two is the smallest one in which a
frozen motion and its edge fit, so every overflow case happens.  The wire and
the control stream are unbounded FIFO queues: SSH and TLS are reliable streams.
Deadlock checking is off where every bound is spent: the instance stops there.

Three deployments are one that succeeds, one that fails on top of it and one
that finds what the first two left; a failing step of each is not bounded.  Two
directories are enough for a rename to fail between them.

For `WorkspaceSync` two revisions suffice, since a sync only depends on the
tree and the staging files the last one left; two edits and two faults, so that
a resumed transfer can be interrupted again and the source can change on both
sides of an interruption; files of at most two chunks, so that a staging file
can be shorter, longer, and of a different beginning; and `f` before `d` in the
order of the manifest, so that a transfer can make the directory a link of `d`
leads to before the transfer of `d` resolves that link.

In `node` one failing append at any point of two sessions meets every branch that
handles one; a second one only repeats it in a later state.

In `transport` two clients are what it takes to mix up a provider's bindings;
a third one only repeats that.  Three messages fill a queue of one, have one
refused and one behind it.  Eight handshake legs for three records leave room
for records that come in pieces and for running out of legs.  Pipes of two, one
of them the window of SSH, and four messages fill both directions at once.

For the datagrams, four frames of up to two fragments are a frame that is given
up, one that is refused and two that come out; six packets and a buffer of three
that starts at two make room for an overflow, a gap and a late packet at once,
and the position may run two past the last packet.

A command has one descendant and pipes of two pieces: full, empty, and holding
pieces of both.

The history has three paths, two contents and two permissions, of which every
manifest is tried against every other: two new paths can have the content of a
third that is gone, and each kind of change meets each other.  The trace has five
events, one frame and a queue of one, which is full when a second thread pushes.

In the other parts of `node`: one build id submitted again and again, two artifacts
(a worker can die between them), two revisions (a build can be overtaken once),
one node that gives up and one death of a worker; four chunks, so that an
undisturbed download takes three attempts, and two breaks; two jobs, a clock of
three with a timeout of one (a job can expire, and the sweep can stop at the other
one), one call per job beyond which it overruns, one foreign write.

### Fairness

Each thread of the program is a loop that keeps running, so each action of a
thread that is enabled for good is taken (weak fairness).  The quiet interval
and the cooldown elapse, and a genuine acknowledgement timeout fires.  Nothing
is assumed of the user, of captures, of early timers, of failing presents or of
the encoder's choice to repeat a frame.

The deployment and update models have no liveness: their steps end in a status
whatever happens, and a dead process is not restarted by anybody in the code.

For the end of a session (`DesktopShutdown!Fairness`) every thread that can go
on does, a TLS write that nobody takes fails after ten seconds, and TCP gives a
dead connection up.  Nothing is assumed of the user, of frames or of the network
while it is alive.

For a command (`CommandExecution!Fairness`) the executor and its readers run, time
passes and a killed process ends.  The processes have to do nothing, and nobody
has to cancel.

## 4. Proofs

| Theorem | Statement |
| --- | --- |
| `InputChannelProofs!TypeCorrect` | `Spec => []TypeOK` |
| `InputChannelProofs!FenceHolds`, `FenceCorrect` | `Spec => []FenceInv`, `Spec => []EpochFenced` |
| `InputChannelProofs!ReleaseCorrect` | `Spec => []EndedReleased` |
| `InputChannelProofs!ControlCorrect` | `Spec => []NoStuckControl` |
| `InputChannelProofs!PositionCorrect` | `Spec => EdgeAtItsPosition` |
| `VisualSessionProofs!PictureIsWhole`, `BaseIsAgreed` | `Spec => []NeverGarbled`, `Spec => []AgreedBase` |
| `VisualSessionProofs!StreamIsLegal`, `DigestsAreAgreed` | `Spec => []StreamLegal`, `Spec => []DigestsAgree` |
| `VisualSessionProofs!VideoIsForward`, `ExactIsShown` | `Spec => []OnlyLateRepeatsRegress`, `Spec => []ExactIsTheFrame` |
| `VisualSessionProofs!SessionImplements` | `Spec => ImplementsExactFramebuffer`: the refinement |
| `VisualSessionProofs!BaseIsCommitted`, `ExactIsKept` | what the refinement gives: the agent's base is committed, and kept while it is relied on |
| `DeploymentProofs!TypeCorrect`, `ActiveCorrect`, `NothingIsLost` | `Spec => []TypeOK`, `Spec => []ActiveRuns`, `Spec => NothingLost` |
| `DeploymentProofs!RollbackCorrect`, `RecoveryCorrect`, `LedgerCorrect` | without `ReuseIds`: `Spec => []RolledBackRestores`, `Spec => []PriorIsRecoverable`, `Spec => []LedgerAgrees` |
| `RollbackProofs!UpdateCorrect`, `NothingIsOverwritten` | `BothSpec => []UpdateIsSound`, `BothSpec => NothingOverwritten` |
| `WorkspaceSyncProofs!TypeCorrect` | `Spec => []TypeOK` |
| `WorkspaceSyncProofs!MirrorCorrect`, `WholeFiles`, `RecordedIsMirrored`, `AcknowledgedKept` | `Spec => []MirrorInv`, and the three properties of the mirror that it contains |
| `WorkspaceSyncProofs!UndisturbedSucceeds` | `Spec => []UndisturbedCommits` |
| `TransportProofs!ConnectionCorrect` | `Spec => []ConnectionIsWhole` of `MCTransport` |
| `TransportProofs!DeltasCorrect` | `Spec => DeltasFollow` |
| `TransportProofs!AudioCorrect` | `Spec => []AcceptedIsPlayed` |
| `TransportProofs!NothingSkipped` | `Spec => []NothingIsSkipped` |
| `TransportProofs!NothingIsLeft` | `Spec => [](Execution!TypeOK /\ CommandLeavesNothing)` |
| `NodeProofs!TrustCorrect` | `Spec => []TrustFollowsCommands` of `MCNode` |
| `NodeProofs!JournalCorrect`, `EndedCorrect` | `Spec => []JournalIsSound`, `Spec => EndedStaysEnded` |
| `NodeProofs!AnsweredCorrect`, `PublishedCorrect` | `Spec => []AnsweredIsBuilt`, `Spec => PublishedStays` |
| `NodeProofs!AttemptsCorrect` | `Spec => []AttemptsAddUp` |
| `NodeProofs!PatchesCorrect` | `Spec => []PatchesAreReviewed` |
| `NodeProofs!TraceCorrect` | `Spec => []TraceIsSound` |
| `NodeProofs!HistoryCorrect` | `Spec => []HistoryIsSound` |

The theorems of `InputChannelProofs` hold for all controls, positions, bounds and
capacities of at least two (`InputAssumption`), with a `None` that is no message
(`NoneAssumption`).  `EpochFenced` is not inductive: that the worker never sees
a new epoch without a release-all depends on what is still queued.  `FenceInv`
says it for the whole path: everything queued has the current epoch, the wire is
numbered without holes, epochs on it never fall, where they rise the message is
a release-all, and when the queue is an epoch ahead of the wire its head is a
release-all that goes out before the pending motion.  TLC checks `FenceInv` as
an invariant of `input_channel`.

`NoStuckControl` speaks only of states with nothing under way, so it says nothing
of the steps that lead there.  `HoldInv` says what will be held once everything
in flight has been applied: the messages on the wire and in the queue, ordered as
they will be applied, leave a control pressed (`Holds`) only if the user holds it
or a lost focus is still to be announced.  What this rests on is that nothing of
the current sequence is missing: either every reliable number from the last
applied one to the next is still in flight (`Whole`), or the worker has stopped,
and that the focus messages still queued alternate and end in the truth
(`FocusOrder`).  TLC checked `HoldInv` on the instance of `input_channel` before
it was proved.

`EdgeAtItsPosition` looks at one step, the injection of an edge.  `PositionInv`
carries the promise from the keystroke to that step.  `At(e, o, pos)` says where
whatever the user does next after order `o` of epoch `e` will act: at the newest
move before it that is still under way, or, when there is none, where the
pointer of the Mac already is.  Every edge under way and the last motion of the
current epoch satisfy it.  It holds because edges and moves go out in the order
they were made (`ActOrder`), because the pending motion is the newest of them
unless a barrier froze it (`PendingLast`), and because pointer numbers grow with
that order, so the worker never takes a move for an old one (`Steps`,
`Pointed`).  An overflow may drop edges and moves, but never a move without every
edge behind it.  The invariant needs `HoldInv`: no edge of a past epoch is left
when the worker enters the next.  TLC checked `PositionInv` on instances of up to
two million states before it was proved.

The theorems of `VisualSessionProofs` hold for all contents, numbers of chunks,
encoder capacities, repeats and bounds, in the exact-only mode and out of it,
with rectangles and without (`VisualAssumption`), and for any delay of any thread.
None of the invariants is inductive.  What the compositor shows
depends on what the reader queued, that on what is in flight, and that on what
the agent's loop has sent or given up.  `SafetyInv` is a conjunction that follows
the stream from one end to the other:

* `Plan` says what the loop's mode stands for: which snapshot is being sent, what
  the base and the digest are, which rectangle is under way.
* `WireInv` describes what can be in flight: each message says what was captured
  (`Right`) and follows the one before it in the way the agent sends them
  (`Follows`), and the reader can take the first of them (`Fits`).  A rectangle
  is the first message, or the second behind its reset: the agent never sends one
  while anything else is under way.
* `ReaderInv` says that what the reader has half read is one snapshot or one
  rectangle of its epoch, and `StreamInv`, per mode of the agent, what the wire
  ends with or, when it is empty, what the reader has made of it.  It is what
  makes `StreamLegal` hold across a recovery: a new epoch abandons whatever was
  under way, and a reset is the only message that may follow.
* `EncoderInv` says that until a frame of the epoch is on the wire the next one is
  an IDR, wherever it is between the submission and the queue.
* `CmdsInv`, `UploadInv` and `SlotInv` lead from the reader to the surfaces: the
  parts queued after a begin are of one frame, and an upload holds parts of that
  frame only, so a complete one is never garbled.
* `RectAhead` and `BaseInv` say that wherever a rectangle is (wire, reader or
  command queue) its base is on the screen, committed exactly, and that nothing
  queued before it but a cancel can change that.
* `OwnInv` and `AckInv` say which transaction an acknowledgement can answer.  An
  acknowledgement of a past epoch may come at any time; one of the agent's epoch
  is for the snapshot it waits for, with its digest, for a rectangle it already
  agreed on, or for the one it waits for.

TLC checked `SafetyInv` on several instances, with late repeats and failing
presents, before it was proved.  There is a lemma for each action.  The refinement
then needs no invariant of its own: the `Shows` lemmas say for each action which
of the four abstract steps it is, or that it is not seen, and the two theorems
about `ExactFramebuffer` are proved of the abstract specification and carried
over to the session.

`VideoIsForward` and `ExactIsShown` rest on a second invariant, `OrderInv`, that
looks at the frames which are on their way to the screen, from the encoder's
queue over the wire and the reader's commands to the decoded frame: one that is
further behind is older only if it is a late repeat (`SlotOrder`, `WireOrder`,
`QueueOrder`), and neither is the frame older that a worker which found nothing
new in this epoch may still repeat (`RepeatOrder`).  Inside the encoder even a late
repeat is in order, since nothing of its epoch is submitted before it that is
newer; it is the snapshots and rectangles of earlier epochs that it falls behind.  Frames of a
past epoch in the encoder's queue are left out, because they are dropped before
they reach the wire.  This is what makes it inductive: a new epoch takes
everything out of the encoder at once, and the messages of the loop itself carry
captured frames that no decoded frame can still overtake.  `Faithful` then says
of an exact surface that, until a present fails, it shows the frame it names or
the late repeat that covers it (`CoveredBy`): the one step that can leave a drawn
surface exact is a video frame older than the one committed, and by `OrderInv`
that is a late repeat.  TLC checked both invariants before they
were proved.

`DeploymentProofs` rests on `SlotStoreProofs`, one lemma per file move: its
results are `Files`, everything kept is still kept, and which slots it changes.
Three invariants carry the theorems.  `PhaseInv` ties the step to the machine:
from `install` on the active path is free until the rename, from `start` on it
holds the artifact, a stopped service is stopped.  `PriorInv` ties the slots to
the ids: a filled slot holds what was active when its id's deployment began, an
id that never began (`Begun`: submitted to the one-shot broker, recorded or
running in the node) has an empty slot, and from `restore` on the slot of the
running deployment is filled.  `LedgerInv` adds that an answered id is neither
queued nor running.  The last two need fresh ids, which the one-shot broker cannot
check itself; without that assumption `deployment_redeploy` is the
counterexample.

`RollbackProofs` uses the same lemmas for the packages of an update, through an
instance of `SlotStoreProofs`, and three invariants of its own.  `PlaceInv`: between
the stop and the start command nothing runs, while a package is copied the active
path is free, and from the state's copy on the package that was active before is
back.  `SlotInv`: a filled rollback slot holds what was active when its update
began.  `StateInv`: from the snapshot on the protected state is whole until a
rename of `restore_state()` fails, after which nothing starts the service, and a
slot of the transaction root that is not used yet is empty.  No update and no
manual rollback is ever given its slot twice, because a record other than `none`
or `active` is final; so `NothingOverwritten` needs no assumption on the ids.
TLC evaluated the three invariants on the instance of `rollback` first.

The theorems of `WorkspaceSyncProofs` hold for every finite set of paths, every
set of trees over it and every bound.  Types need `NumberInv`: the number of a
transfer plus the files still to send is at most the number of paths, so that
the numbers the client gives stay in range.  The three properties of the mirror
are proved with `MirrorInv`, which adds `CommitInv` (a commit in progress is
dirty and has voided what was acknowledged; from `reply` on the mirror is the
tree) and `SessionInv` (what is on the wire belongs to the sync the client is
in: while the stream is open the tree the node serves is the client's, and a
refusal or an answer is under way only when the node has left the phases before
it).  Without `SessionInv` the acknowledged tree, which is the client's, would be
unrelated to the mirror, which is the node's.

`UndisturbedCommits` says nothing of how a sync proceeds, and one that fails does
so many steps after what stopped it.  `CommitsInv` follows the sync instead, and
it has two halves, one for each value of `doomed`.  For a sync that began with
nothing in its way, `SmoothInv` says that no transfer leaves its path, that no
staging file is longer than its file, and, phase by phase of the commit, which
entries of the mirror are already those of the tree; at the end that is all of
them.  For one that did not, `DoomInv` names the file that will stop it: a file
whose parent cannot be made (`Blocked`), one that is written where a link leads
(`Misled`), or one whose staging file is not the file (`TooLong`).  A blocked
file never gets its first chunk, so the commit never begins; a misled one is not
a file when the mirror is verified, because the only paths a transfer is led to
are no links of any tree; a staging file that is too long stays so until
`finalize` refuses it.  The rest is what these two rest on.  `GroundInv`: mirror
and staging are trees, so nothing stands below what is not a directory, and a
removal takes no file that is still needed with it.  `WireInv`, that client and
node count alike: which file is sent, under which number, and which of its chunks
were got (`TodoInv`, `FileInv`, `ChunkInv`, `EndsInv`).  `HonestInv`, that without
an edit the chunks sent are the tree's.  The number of a transfer is how many
files before it are wanted, so two transfers never share a staging file
(`NumberFacts`).  TLC checked `CommitsInv` on two instances, of three and of
four paths, before it was proved.

`TransportProofs` is about the parts of `MCTransport`, under the assumptions that
module makes of its constants.  A step of another part leaves the variables of a
part alone, so each part has an inductive invariant of its own.

* Fallback: `Attached` (who is in `connect()` has no connection; planes lead to the
  client's endpoint, which cannot change before `connect()` is over) and
  `Separate` (no two clients carry the same binding).  That a new TLS plane finds
  a fresh binding is `FreshBinding`, which counts: a client uses at most two
  bindings at a time, because one that has a connection is in no attempt.
* The QUIC servers: `Noted` (a connection that is up was allowed and has not
  failed), `OnePlace` (a connection waits once, or is looked at, or was handed out
  once) and `Looked`, for both libraries in one proof.
* Audio: `Passed` (the positions played or concealed are an interval that ends
  before the next one) and `Waiting`.  It needs that a nonempty set of numbers has
  a smallest one (`NatMin`).
* `DeltasFollow` is a property of steps: `Followed` relates the frame being put
  together to what was heard (while no keyframe is needed, nothing newer was heard
  of than that frame; while one is needed, that frame is one) and `Ahead` puts it
  after the last completed one.
* `CommandLeavesNothing` needs to know where the executor is (`Stages`), which
  processes there are then (`Processes`: a process that was killed is not running
  again, in a closed job nothing runs) and which pipes were read to their end
  (`ReadOut`: a reader that ended, or the first half of the last drain, saw its
  pipe empty after the command was gone).

* `NothingIsSkipped` is three invariants, one for each part it is about.
  `MuxInv` looks at the buffer and the wire as one sequence of records, `Flow`, and
  at what a stream has of messages, `Seen`: what is under way comes after what was
  seen and in the writer's order (`Rising`); without a spill every message follows
  the one before it (`Gapless`) and, while the connection works, the last one sent
  is seen or under way (`Reaches`).  A step that parses moves a beginning of `Flow`
  to the streams: `DeliveredIsTaken` says what it delivers, by the least length for
  which that could fail.  `RecordsInv` says that the bytes held by the handshake or
  by the reads, followed by those still with TCP, are all pieces after the records
  Schannel was given.  `InboxInv` says that what came of a kind, read or queued, is
  what was sent but for what was refused, and that nothing read is newer than a
  refused message, whose refusal left an error that reads meet first.

`NodeProofs` has one inductive invariant per part of `MCNode`, since a step of the
node is a step of one part.

* Sessions (`ControlInv`). `UseIsOnRecord` is not inductive: a `closed` event must
  never be written for a session that stays usable, and a `closed` event of an
  earlier process must not count. The invariant says that an event never comes
  from a later process, that whoever has a `closed` event of this process is
  closed, and that whoever is served and open was opened in the journal.
  `AppendsKeeps` says once what any outcome of an append (done, refused, cut off,
  written and yet failed) leaves of the log, and `OnTrail` carries it through the
  two or three appends of an operation. `prune_expired` appends in a loop, which
  the model writes as a fold over the expired sessions. Induction over data is out
  of reach in general, but this fold is over a finite set of a state: `FoldExists`
  shows by a smallest counterexample that the recursion has a solution, and
  `PrunedOnTrail` by another that every log it ends with is on the trail.
* Pairing (`Persists`): what a command is about to write is a device that was
  confirmed or loaded, and what it has staged is that device.
* Builds (`Pinned`, `Unpublished`, `Answered`): while the node waits, it and the
  worker speak of one build and the node commits nothing under it; what the worker
  has published so far is of that revision, and the place it fills next is free.
* Download (`Streams`, `Lacks`): the stream brings every chunk once; what the client
  lacks is what it expects and the chunk in its hand, and it has taken one of each
  two since it asked.  This needs cardinalities of finite sets throughout.
* Jobs (`Spends`): grants, patches tried, replacements and claims of a job are
  counted against each other, with the patch that is being made.
* Trace (`TraceInv`): an event that was recorded is held by its thread, in the
  queue, with the writer, or counted; and the join order empties these places one
  after the other.

* Revisions (`HistoryInv`). That the difference leads from any manifest to any
  other is induction over paths and changes, which the proof does by smallest
  counterexamples (`FoundIsComplete`, `DiffIsComplete`, `ApplyIsAfter`), after
  `Recursion` has shown that the recursive functions of the model have a
  solution. The difference is `Legal`: what it takes away is gone from the source
  and is taken away once, so a rename never needs an entry that was taken or put
  there; it is `Placed` and `Cleared`: every path that differs is put and every
  path that is gone is taken away. `After` gives what the first changes of a legal
  difference make of a manifest without recursion: what they put, and what is left
  of the rest. With all changes that is the source. The history itself only adds
  that a record is of the revision that was begun, and that the number of a
  revision that failed is used again.

Only model-checked: all liveness (TLAPS does not reason about fairness here),
and the five properties whose runs expect a violation.

## 5. Not modelled

Pixels, codecs, colour conversion, scaling and resizing; cursor messages and
clipboard; measurements and traces; the view-only TLS preview, in which any
compositor exception ends the session, and h264-only mode, which has no
snapshots; in `VisualSession` the capacity of pipes and of the control queue
(`DesktopShutdown` has both).
The hazards of what is modelled, and the first ones of the parts that come next,
are in `PROJECT.json`; these come besides:

| Where | Hazard no property covers |
| --- | --- |
| `desktop/src/desktop.cpp:936` | after one gap `VisualSequenceTracker` keeps its old sequence, so every later message, the recovery reset included, is refused; the stream is a reliable byte stream, so the first gap does not come |
| `viewer/main.cpp:1340` | a rectangle fails while the control queue is full: the request is queued outside the try block and the exception ends the compositor |
| `viewer/main.cpp:583` | the compositor is 256 commands behind: the reader throws and the session ends |
| `broker/main.cpp:185` | a broker that dies leaves its socket path behind and every later one refuses to start; the model has an operator who removes it |
| `core/src/agent_runtime.cpp:163` | `create_job` times out the jobs of others, with their audit rows, before it refuses the request it was called for |
| `core/src/agent_runtime.cpp:495` | the hash of a file is compared, then the file is replaced: a change in between is lost; the runtime promises no lock against other writers, and `AgentRuntime` has the window |
| `viewer/main.cpp:987` | the upload expires while the control queue is full: the command that was popped is lost |
| `audio/src/audio.cpp:209` | the play-out position runs ahead while the sender is silent; every packet after that is late |

## 6. Plan

Done: the session (`InputChannel`, `VisualSession` with `ExactFramebuffer` above
it, `DesktopShutdown`), the release (`Deployment` and `ReleaseUpdate` over
`SlotStore`), the mirror and its builds (`WorkspaceSync`, `BuildWorker`,
`ArtifactDownload`), the node (`AgentRuntime`, `PairedDevice`, `NodeControl`), the
transports (`ResilientTransport`, `StreamMux`, `TlsRecords`, `QuicServer`,
`QuicInbox`), the datagrams (`FrameReassembly`, `JitterBuffer`) and the commands
(`CommandExecution`), with eight proof modules.

Every safety property that a run checks is proved; what is left is the liveness.

What is left to model.

* The admission of a TLS viewer and its channel session.  The order of the two
  connections alone keeps two viewers from being mixed, so little could go wrong.
* The terminal of the node, the watchers of a directory with their debouncer,
  and the Windows desktop runtime: small state, most of it system calls.

Abstract specifications worth stating besides: an atomic mirror (revision and
tree change in one step) that `WorkspaceSync` implements up to a commit in
progress, and an atomic swap of the active file that `Deployment` implements
when it reports an outcome.
