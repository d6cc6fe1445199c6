---------------------------- MODULE VisualSession ----------------------------
(***************************************************************************)
(* The picture of an interactive SSH session.  The agent captures frames,  *)
(* analyses which of them change the screen, and shows them as lossy H.264 *)
(* video, as a full snapshot, or as rectangles that patch the last exact   *)
(* frame.  Every change of representation opens a new epoch.  The viewer's *)
(* reader thread checks the stream and queues commands, its compositor     *)
(* thread commits frames and acknowledges the exact ones on the reverse    *)
(* control channel.                                                        *)
(***************************************************************************)
EXTENDS Naturals, Sequences

CONSTANTS
  Contents,      \* what a screen can show
  None,          \* no picture yet
  Garbled,       \* a picture that is no captured frame
  RuntimeModes,  \* exact-only (no encoder, no decoder), or not, or either
  RawRect,       \* rectangles are allowed
  Chunks,        \* wire chunks of a snapshot
  EncoderSlots,  \* encoded_queue_capacity (4 in the code)
  MaxRepeats,    \* tail refresh count (5 in the code)
  FirstContents, \* bound on the first frame's: contents are interchangeable
  MaxCapture,    \* bound on captured frames
  MaxVisits,     \* bound on visits of the encoder worker that find no fresh frame
  MaxTimeouts,   \* bound on timers that fire early
  MaxEvents,     \* bound on captures, early timers and failing presents together
  MaxExactEvents, \* the same in the exact-only mode, which has fewer threads
  MaxFaults      \* bound on failing presents

ASSUME VisualAssumption ==
  /\ RuntimeModes \subseteq BOOLEAN /\ RuntimeModes # {} /\ RawRect \in BOOLEAN
  /\ TRUE \in RuntimeModes => RawRect
  /\ FirstContents \subseteq Contents
  /\ None \notin Contents /\ Garbled \notin Contents \cup {None}
  /\ {Chunks, EncoderSlots, MaxCapture} \subseteq Nat \ {0}
  /\ {MaxRepeats, MaxVisits, MaxTimeouts, MaxEvents, MaxExactEvents, MaxFaults} \subseteq Nat

VARIABLES
  shot,        \* content of every captured frame; the frame id is the index
  analyzed,    \* latest analysed frame, its content frame, and the quiet gate
  encoder,     \* frames in VideoToolbox or its output queue, oldest first
  agent,       \* state of the agent's visual loop and of its exact base
  inbox,       \* what the input worker stored for the loop
  wire,        \* visual messages to the viewer
  reader,      \* state of frame_reader_loop
  cmds,        \* snapshot_commands
  slot,        \* the decoded frame the compositor has not handled
  compositor,  \* CanonicalFramebufferState, the renderer's surfaces, the upload
  ctl,         \* reverse control messages to the agent
  budget,      \* spent timeouts and faults
  fault        \* why a thread ended the session

vars == <<shot, analyzed, encoder, agent, inbox, wire, reader, cmds, slot,
          compositor, ctl, budget, fault>>
sourceVars == <<shot, analyzed>>
agentVars  == <<agent, inbox>>
viewerVars == <<reader, cmds, slot, compositor>>
limitVars  == <<budget, fault>>

Frames  == 1..MaxCapture
Picture == [content: Contents \cup {None, Garbled}, lossy: BOOLEAN]
Modes   == {"video", "quiescing", "sending", "awaiting_ack", "exact", "awaiting_rect_ack"}
Running == fault = "none"
ExactOnly == agent.exactOnly
Spare   == Len(shot) + budget.timeouts + budget.faults
             < (IF ExactOnly THEN MaxExactEvents ELSE MaxEvents)

-----------------------------------------------------------------------------
(* Messages.  A digest is abstracted to what it hashes: the chunks of the  *)
(* snapshot, then each rectangle transaction that advanced it.             *)

Reset(e)           == [type |-> "reset", epoch |-> e]
Chunk(e, f, i, c)  == [type |-> "chunk", epoch |-> e, frame |-> f, offset |-> i, content |-> c]
Rect(e, f, b, u, v) == [type |-> "rect", epoch |-> e, frame |-> f, base |-> b, from |-> u, to |-> v]
Commit(e, f, b)    == [type |-> "commit", epoch |-> e, frame |-> f, base |-> b]
Video(e, f, k)     == [type |-> "video", epoch |-> e, frame |-> f, key |-> k]
Ack(e, f, d)       == [type |-> "ack", epoch |-> e, frame |-> f, digest |-> d]
Request            == [type |-> "request", epoch |-> 0]

NoAck   == Ack(0, 0, <<>>)
NoFrame == [frame |-> 0, epoch |-> 0, key |-> FALSE]
NoSnap  == [epoch |-> 0, frame |-> 0, parts |-> <<>>]
NoRect  == [epoch |-> 0, frame |-> 0, base |-> 0, from |-> None, to |-> None]
Idle    == [active |-> FALSE, parts |-> <<>>]

SnapshotDigest(parts)      == [i \in DOMAIN parts |-> <<0, None, parts[i]>>]
RectDigest(digest, f, u, v) == Append(digest, <<f, u, v>>)

\* What a surface shows after a rectangle from one content to another.
Patch(content, u, v) == IF content \in {u, v} THEN v ELSE Garbled

\* What the chunks of an upload add up to.
Whole(parts) ==
  IF parts # <<>> /\ \A i \in DOMAIN parts : parts[i] = parts[1] THEN parts[1] ELSE Garbled

Init ==
  /\ shot = <<>>
  /\ analyzed = [frame |-> 0, content |-> 0, quiet |-> FALSE]
  /\ encoder = [queue |-> <<>>, consumed |-> 0, repeats |-> 0, idr |-> TRUE, tried |-> 0,
             late |-> {}]
  /\ \E exactOnly \in RuntimeModes :
       agent = [exactOnly |-> exactOnly, mode |-> "video", epoch |-> 1, cooling |-> FALSE,
                snapEpoch |-> 0, snapFrame |-> 0, snapContent |-> 0, sent |-> 0,
                exactFrame |-> 0, exactContent |-> 0, digest |-> <<>>, rectEpoch |-> 0,
                target |-> 0, targetContent |-> 0, rectDigest |-> <<>>, considered |-> 0,
                base |-> 0, pending |-> 0]
  /\ inbox = [recovery |-> FALSE, ack |-> NoAck]
  /\ wire = <<>>
  /\ reader = [epoch |-> 0, rep |-> "none", frame |-> 0, digest |-> <<>>,
               resetEpoch |-> 0, poisoned |-> 0, snap |-> NoSnap, rect |-> NoRect]
  /\ cmds = <<>>
  /\ slot = NoFrame
  /\ compositor = [epoch |-> 0, rep |-> "recovery", frame |-> 0, quality |-> "unavailable",
                   picture |-> [content |-> None, lossy |-> FALSE],
                   lastVideo |-> 0, upload |-> Idle]
  /\ ctl = <<>>
  /\ budget = [repeats |-> 0, timeouts |-> 0, faults |-> 0]
  /\ fault = "none"

-----------------------------------------------------------------------------
(* The source: capture, analysis, and the two timers of the visual loop.   *)

Capture(c) ==
  /\ Len(shot) < MaxCapture /\ Spare
  /\ shot = <<>> => c \in FirstContents
  /\ shot' = Append(shot, c)
  /\ UNCHANGED <<analyzed, encoder, agentVars, wire, viewerVars, ctl, limitVars>>

\* Whether a newly captured frame differs from the one analysed before it.
ContentChanged(f) == analyzed.frame = 0 \/ shot[f] # shot[analyzed.frame]

Analyze ==
  /\ Len(shot) > analyzed.frame
  /\ LET f == Len(shot) IN
       analyzed' = IF ContentChanged(f)
                     THEN [frame |-> f, content |-> f, quiet |-> FALSE]
                     ELSE [analyzed EXCEPT !.frame = f]
  /\ UNCHANGED <<shot, encoder, agentVars, wire, viewerVars, ctl, limitVars>>

\* snapshot_quiet_interval_us after the last change of content.
BecomesQuiet ==
  /\ analyzed.frame # 0 /\ ~analyzed.quiet
  /\ analyzed' = [analyzed EXCEPT !.quiet = TRUE]
  /\ UNCHANGED <<shot, encoder, agentVars, wire, viewerVars, ctl, limitVars>>

\* snapshot_reentry_cooldown_us after the last forced video.
CooldownEnds ==
  /\ agent.cooling
  /\ agent' = [agent EXCEPT !.cooling = FALSE]
  /\ UNCHANGED <<sourceVars, encoder, inbox, wire, viewerVars, ctl, limitVars>>

-----------------------------------------------------------------------------
(* The encoder worker.  It only submits while the loop is in video mode.   *)
(* When it finds no fresh frame it leaves the submission gate and takes it *)
(* again to repeat the last one.  A frame of an older epoch is dropped by  *)
(* discard_before_epoch, by the output callback, or by the loop.           *)

CanSubmit == ~ExactOnly /\ agent.mode = "video" /\ Len(encoder.queue) < EncoderSlots

Submit(f, repeats, late) ==
  \E key \in BOOLEAN :
    /\ encoder.idr => key
    /\ encoder' = [queue |-> Append(encoder.queue, [frame |-> f, epoch |-> agent.epoch, key |-> key]),
                   consumed |-> f, repeats |-> repeats, idr |-> FALSE, tried |-> 0, late |-> late]

\* Mutant: captures are queued instead of replaced by the latest.
EncoderSubmitsOldest ==
  /\ CanSubmit /\ encoder.tried = 0
  /\ Len(shot) > encoder.consumed
  /\ Submit(encoder.consumed + 1, MaxRepeats, encoder.late)
  /\ UNCHANGED <<sourceVars, agentVars, wire, viewerVars, ctl, limitVars>>

EncoderSubmits ==
  /\ CanSubmit /\ encoder.tried = 0
  /\ Len(shot) > encoder.consumed
  /\ Submit(Len(shot), MaxRepeats, encoder.late)
  /\ UNCHANGED <<sourceVars, agentVars, wire, viewerVars, ctl, limitVars>>

EncoderFindsNothing ==
  /\ CanSubmit /\ encoder.tried = 0
  /\ Len(shot) = encoder.consumed /\ encoder.repeats > 0
  /\ encoder' = [encoder EXCEPT !.tried = agent.epoch]
  /\ budget.repeats < MaxVisits /\ budget' = [budget EXCEPT !.repeats = @ + 1]
  /\ UNCHANGED <<sourceVars, agentVars, wire, viewerVars, ctl, fault>>

\* The second visit submits under the epoch it finds; a repeat that was decided
\* in an earlier one is late, which the worker does not notice.
Repeated == [frame |-> encoder.consumed, epoch |-> agent.epoch]
LateRepeats == encoder.late \cup (IF encoder.tried = agent.epoch THEN {} ELSE {Repeated})

EncoderRepeats ==
  /\ encoder.tried # 0
  /\ IF agent.mode = "video"
       THEN Submit(encoder.consumed, encoder.repeats - 1, LateRepeats)
       ELSE encoder' = [encoder EXCEPT !.tried = 0]
  /\ UNCHANGED <<sourceVars, agentVars, wire, viewerVars, ctl, limitVars>>

EncoderDropsStale ==
  /\ encoder.queue # <<>>
  /\ Head(encoder.queue).epoch # agent.epoch
  /\ encoder' = [encoder EXCEPT !.queue = Tail(@)]
  /\ UNCHANGED <<sourceVars, agentVars, wire, viewerVars, ctl, limitVars>>

-----------------------------------------------------------------------------
(* The agent's visual loop.                                                *)

\* Mutant: the exact frame survives the resynchronisation.
ResumedKeepingBase(a) ==
  [a EXCEPT !.mode = IF ExactOnly THEN "quiescing" ELSE "video",
            !.epoch = a.epoch + 1, !.cooling = ~ExactOnly,
            !.snapEpoch = IF ExactOnly THEN a.epoch + 1 ELSE 0,
            !.snapFrame = 0, !.snapContent = 0, !.sent = 0, !.rectEpoch = 0,
            !.target = 0, !.targetContent = 0, !.considered = 0,
            !.base = 0, !.pending = 0]

\* resume_forced_idr_video: a new epoch, nothing agreed, nothing pending.
Resumed(a) ==
  [a EXCEPT !.mode = IF ExactOnly THEN "quiescing" ELSE "video",
            !.epoch = a.epoch + 1,
            !.cooling = ~ExactOnly,
            !.snapEpoch = IF ExactOnly THEN a.epoch + 1 ELSE 0,
            !.snapFrame = 0, !.snapContent = 0, !.sent = 0,
            !.exactFrame = 0, !.exactContent = 0, !.rectEpoch = 0,
            !.target = 0, !.targetContent = 0, !.considered = 0,
            !.base = 0, !.pending = 0]

\* Mutant: video resumes without forcing an IDR.
ResumeWithoutIdr ==
  /\ agent' = Resumed(agent)
  /\ wire' = Append(wire, Reset(agent.epoch + 1))
  /\ UNCHANGED encoder

Resume ==
  /\ agent' = Resumed(agent)
  /\ wire' = Append(wire, Reset(agent.epoch + 1))
  /\ encoder' = [encoder EXCEPT !.idr = @ \/ ~ExactOnly]

AgentRecovers ==
  /\ Running /\ inbox.recovery
  /\ inbox' = [inbox EXCEPT !.recovery = FALSE]
  /\ Resume
  /\ UNCHANGED <<sourceVars, viewerVars, ctl, limitVars>>

AckIsFor(epoch, frame) == inbox.ack.epoch = epoch /\ inbox.ack.frame = frame
SnapshotAcked == agent.mode = "awaiting_ack" /\ AckIsFor(agent.snapEpoch, agent.snapFrame)
RectAcked     == agent.mode = "awaiting_rect_ack" /\ AckIsFor(agent.rectEpoch, agent.target)
SentDigest    == [i \in 1..Chunks |-> <<0, None, shot[agent.snapFrame]>>]
AckMatches ==
  \/ SnapshotAcked /\ inbox.ack.digest = SentDigest
  \/ RectAcked /\ inbox.ack.digest = agent.rectDigest

\* promote_pending_exact only promotes the frame that is reserved.
Promotes(f) == f # 0 /\ agent.pending = f

AgreeOnSnapshot ==
  LET next == IF RawRect THEN agent.snapEpoch + 1 ELSE agent.snapEpoch IN
  /\ agent' = [agent EXCEPT !.mode = "exact", !.epoch = next, !.rectEpoch = next,
                            !.exactFrame = agent.snapFrame, !.exactContent = agent.snapContent,
                            !.digest = SentDigest, !.base = agent.pending, !.pending = 0]
  /\ wire' = IF RawRect THEN Append(wire, Reset(next)) ELSE wire
  /\ UNCHANGED encoder

AgreeOnRect ==
  /\ agent' = [agent EXCEPT !.mode = "exact", !.exactFrame = agent.target,
                            !.exactContent = agent.targetContent, !.digest = agent.rectDigest,
                            !.target = 0, !.targetContent = 0, !.considered = 0,
                            !.base = agent.pending, !.pending = 0]
  /\ UNCHANGED <<wire, encoder>>

AgentAcks ==
  /\ Running /\ inbox.ack # NoAck
  /\ inbox' = [inbox EXCEPT !.ack = NoAck]
  /\ IF AckMatches
       THEN IF SnapshotAcked
              THEN IF Promotes(agent.snapFrame) THEN AgreeOnSnapshot ELSE Resume
              ELSE IF Promotes(agent.target) THEN AgreeOnRect ELSE Resume
       ELSE IF SnapshotAcked \/ RectAcked THEN Resume ELSE UNCHANGED <<agent, wire, encoder>>
  /\ UNCHANGED <<sourceVars, viewerVars, ctl, limitVars>>

\* An answer to what the agent sent may still be under way, or an analysis
\* that takes milliseconds has not finished: a timer that fires now is early.
AnswerComing == wire # <<>> \/ cmds # <<>> \/ ctl # <<>> \/ inbox.ack # NoAck \/ inbox.recovery
SpareTimeout == budget.timeouts < MaxTimeouts /\ Spare
TimesOutEarly == AnswerComing \/ analyzed.frame < Len(shot)

\* Mutant: only rectangle transactions have a timeout.
AgentRectAckTimesOut ==
  /\ Running /\ agent.mode = "awaiting_rect_ack"
  /\ TimesOutEarly => SpareTimeout
  /\ budget' = [budget EXCEPT !.timeouts = @ + IF TimesOutEarly THEN 1 ELSE 0]
  /\ Resume
  /\ UNCHANGED <<sourceVars, inbox, viewerVars, ctl, fault>>

AgentAckTimesOut ==
  /\ Running /\ agent.mode \in {"awaiting_ack", "awaiting_rect_ack"}
  /\ TimesOutEarly => SpareTimeout
  /\ budget' = [budget EXCEPT !.timeouts = @ + IF TimesOutEarly THEN 1 ELSE 0]
  /\ Resume
  /\ UNCHANGED <<sourceVars, inbox, viewerVars, ctl, fault>>

SnapshotSuperseded == ~ExactOnly /\ analyzed.content > agent.snapContent

\* Mutant: every chunk reads the newest surface instead of the reserved one.
AgentSendsNewest ==
  /\ Running /\ agent.mode = "sending"
  /\ IF SnapshotSuperseded
       THEN Resume
       ELSE LET e == agent.snapEpoch
                f == agent.snapFrame
                last == agent.sent + 1 = Chunks
            IN /\ agent' = [agent EXCEPT !.sent = @ + 1,
                                         !.mode = IF last THEN "awaiting_ack" ELSE "sending"]
               /\ wire' = wire \o <<Chunk(e, f, agent.sent, shot[analyzed.frame])>>
                               \o (IF last THEN <<Commit(e, f, 0)>> ELSE <<>>)
               /\ UNCHANGED encoder
  /\ UNCHANGED <<sourceVars, inbox, viewerVars, ctl, limitVars>>

AgentSends ==
  /\ Running /\ agent.mode = "sending"
  /\ IF SnapshotSuperseded
       THEN Resume
       ELSE LET e == agent.snapEpoch
                f == agent.snapFrame
                last == agent.sent + 1 = Chunks
            IN /\ agent' = [agent EXCEPT !.sent = @ + 1,
                                         !.mode = IF last THEN "awaiting_ack" ELSE "sending"]
               /\ wire' = wire \o <<Chunk(e, f, agent.sent, shot[f])>>
                               \o (IF last THEN <<Commit(e, f, 0)>> ELSE <<>>)
               /\ UNCHANGED encoder
  /\ UNCHANGED <<sourceVars, inbox, viewerVars, ctl, limitVars>>

AgentQuiesces ==
  /\ Running /\ agent.mode = "video" /\ ~agent.cooling
  /\ analyzed.frame # 0 /\ (ExactOnly \/ analyzed.quiet)
  /\ agent' = [agent EXCEPT !.mode = "quiescing", !.epoch = @ + 1, !.snapEpoch = agent.epoch + 1]
  /\ wire' = Append(wire, Reset(agent.epoch + 1))
  /\ UNCHANGED <<sourceVars, encoder, inbox, viewerVars, ctl, limitVars>>

AgentUnquiet ==
  /\ Running /\ ~ExactOnly /\ agent.mode = "quiescing"
  /\ analyzed.frame # 0 /\ ~analyzed.quiet
  /\ Resume
  /\ UNCHANGED <<sourceVars, inbox, viewerVars, ctl, limitVars>>

\* snapshot_latest_source: reads the latest source back and reserves it.
AgentSnapshots ==
  /\ Running /\ agent.mode = "quiescing" /\ encoder.queue = <<>>
  /\ IF analyzed.frame = 0 \/ agent.pending # 0 \/ agent.snapEpoch = 0
       THEN fault' = "snapshot source" /\ UNCHANGED agent
       ELSE /\ agent' = [agent EXCEPT !.mode = "sending", !.snapFrame = analyzed.frame,
                                      !.snapContent = analyzed.content, !.sent = 0,
                                      !.pending = analyzed.frame]
            /\ UNCHANGED fault
  /\ UNCHANGED <<sourceVars, encoder, inbox, wire, viewerVars, ctl, budget>>

-----------------------------------------------------------------------------
(* Rectangles.  evaluate_latest_rect compares the latest source with the   *)
(* exact base; when they differ the selector may refuse the difference.    *)

RectReady(reserve) ==
  /\ agent.base # 0 /\ agent.base = agent.exactFrame
  /\ analyzed.frame > agent.exactFrame
  /\ reserve => agent.pending = 0
Differs == shot[analyzed.frame] # shot[agent.base]
Decisions(reserve) ==
  IF ~RectReady(reserve) THEN {"not_ready"}
  ELSE IF Differs THEN {"selected", "exceeded"} ELSE {"unchanged"}

Considered == [agent EXCEPT !.considered = analyzed.content]

\* Mutant: the difference to the previous source is sent, not to the base.
SendRectFromPrevious ==
  LET f == analyzed.frame
      u == shot[f - 1]
      v == shot[f]
  IN /\ agent' = [Considered EXCEPT !.mode = "awaiting_rect_ack", !.target = f,
                                    !.targetContent = analyzed.content, !.pending = f,
                                    !.rectDigest = RectDigest(agent.digest, f, u, v)]
     /\ wire' = wire \o <<Rect(agent.rectEpoch, f, agent.exactFrame, u, v),
                          Commit(agent.rectEpoch, f, agent.exactFrame)>>
     /\ UNCHANGED encoder

SendRect ==
  LET f == analyzed.frame
      u == shot[agent.base]
      v == shot[f]
  IN /\ agent' = [Considered EXCEPT !.mode = "awaiting_rect_ack", !.target = f,
                                    !.targetContent = analyzed.content, !.pending = f,
                                    !.rectDigest = RectDigest(agent.digest, f, u, v)]
     /\ wire' = wire \o <<Rect(agent.rectEpoch, f, agent.exactFrame, u, v),
                          Commit(agent.rectEpoch, f, agent.exactFrame)>>
     /\ UNCHANGED encoder

AgentRects ==
  /\ Running /\ agent.mode = "exact"
  /\ analyzed.content > agent.exactContent /\ analyzed.content # agent.considered
  /\ IF RawRect
       THEN \E d \in Decisions(TRUE) :
              CASE d = "selected" -> SendRect
                [] d = "exceeded" -> Resume
                [] OTHER          -> agent' = Considered /\ UNCHANGED <<wire, encoder>>
       ELSE Resume
  /\ UNCHANGED <<sourceVars, inbox, viewerVars, ctl, limitVars>>

AgentSupersedes ==
  /\ Running /\ agent.mode = "awaiting_rect_ack"
  /\ analyzed.content > agent.targetContent /\ analyzed.content # agent.considered
  /\ \E d \in Decisions(FALSE) :
       IF d = "exceeded" THEN Resume ELSE agent' = Considered /\ UNCHANGED <<wire, encoder>>
  /\ UNCHANGED <<sourceVars, inbox, viewerVars, ctl, limitVars>>

AgentDeliversVideo ==
  /\ Running /\ encoder.queue # <<>>
  /\ LET h == Head(encoder.queue) IN
       /\ h.epoch = agent.epoch
       /\ wire' = Append(wire, Video(h.epoch, h.frame, h.key))
  /\ encoder' = [encoder EXCEPT !.queue = Tail(@)]
  /\ UNCHANGED <<sourceVars, agentVars, viewerVars, ctl, limitVars>>

-----------------------------------------------------------------------------
(* The viewer's reader thread.  What the stream may not do ends the        *)
(* session or, for exact messages, clears the assembly and asks for a      *)
(* snapshot.                                                               *)

Cancel(epoch) == [kind |-> "cancel", epoch |-> epoch]
Begin(m) == [kind |-> "begin", epoch |-> m.epoch, frame |-> m.frame]
Part(m)  == [kind |-> "chunk", epoch |-> m.epoch, frame |-> m.frame,
             offset |-> m.offset, content |-> m.content]
CommitSnap(m, digest) == [kind |-> "commit", epoch |-> m.epoch, frame |-> m.frame, digest |-> digest]
PatchRect(r, digest)  == [kind |-> "rect", epoch |-> r.epoch, frame |-> r.frame, base |-> r.base,
                          from |-> r.from, to |-> r.to, digest |-> digest]

Reads(type) == Running /\ wire # <<>> /\ Head(wire).type = type /\ wire' = Tail(wire)

\* recover_snapshot, after an optional poisoning of the rectangle epoch.
Recover(poison) ==
  /\ reader' = [reader EXCEPT !.snap = NoSnap, !.rect = NoRect,
                              !.poisoned = IF poison > @ THEN poison ELSE @]
  /\ cmds' = Append(cmds, Cancel(0))
  /\ ctl' = Append(ctl, Request)

ResetAdvances(m) == m.epoch > reader.epoch

ReaderResets ==
  /\ Reads("reset")
  /\ LET m == Head(wire) IN
       IF ~ResetAdvances(m)
         THEN fault' = "reset did not advance" /\ UNCHANGED <<reader, cmds, slot>>
         ELSE /\ reader' = [reader EXCEPT !.snap = NoSnap, !.rect = NoRect, !.resetEpoch = m.epoch,
                                          !.poisoned = IF m.epoch > @ THEN 0 ELSE @]
              /\ cmds' = Append(cmds, Cancel(m.epoch))
              /\ slot' = IF slot.epoch < m.epoch THEN NoFrame ELSE slot
              /\ UNCHANGED fault
  /\ UNCHANGED <<sourceVars, encoder, agentVars, compositor, ctl, budget>>

RectAllowed(m) ==
  /\ RawRect /\ reader.snap = NoSnap /\ reader.digest # <<>>
  /\ IF reader.rep = "rect" THEN m.epoch = reader.epoch ELSE m.epoch = reader.resetEpoch
  /\ m.base = reader.frame /\ m.frame > m.base
  /\ reader.rect = NoRect

ReaderTakesRect ==
  /\ Reads("rect")
  /\ LET m == Head(wire) IN
       CASE m.epoch <= reader.poisoned -> UNCHANGED <<reader, cmds, ctl>>
         [] m.epoch > reader.poisoned /\ ~RectAllowed(m) -> Recover(m.epoch)
         [] OTHER -> /\ reader' = [reader EXCEPT !.rect = [epoch |-> m.epoch, frame |-> m.frame,
                                                            base |-> m.base, from |-> m.from, to |-> m.to]]
                     /\ UNCHANGED <<cmds, ctl>>
  /\ UNCHANGED <<sourceVars, encoder, agentVars, slot, compositor, limitVars>>

ChunkFits(m) ==
  /\ reader.resetEpoch = m.epoch
  /\ m.offset = Len(reader.snap.parts)
  /\ reader.snap # NoSnap => reader.snap.epoch = m.epoch /\ reader.snap.frame = m.frame

ReaderTakesChunk ==
  /\ Reads("chunk")
  /\ LET m == Head(wire) IN
       IF ~ChunkFits(m)
         THEN Recover(0)
         ELSE /\ reader' = [reader EXCEPT !.snap = [epoch |-> m.epoch, frame |-> m.frame,
                                                    parts |-> Append(@.parts, m.content)]]
              /\ cmds' = cmds \o (IF reader.snap = NoSnap THEN <<Begin(m)>> ELSE <<>>) \o <<Part(m)>>
              /\ UNCHANGED ctl
  /\ UNCHANGED <<sourceVars, encoder, agentVars, slot, compositor, limitVars>>

RectComplete(m) ==
  /\ reader.rect.epoch = m.epoch /\ reader.rect.frame = m.frame /\ reader.rect.base = m.base
SnapshotComplete(m) ==
  /\ reader.snap.epoch = m.epoch /\ reader.snap.frame = m.frame /\ m.base = 0
  /\ Len(reader.snap.parts) = Chunks

\* The reader's own record of the picture moves with the queued command.
Moved(rep, m, digest) ==
  [reader EXCEPT !.epoch = m.epoch, !.rep = rep, !.frame = m.frame, !.digest = digest,
                 !.resetEpoch = 0, !.snap = NoSnap, !.rect = NoRect]

\* Mutant: the reader's digest stays at the base.
CommitsRectKeepsDigest(m) ==
  IF RectComplete(m)
    THEN LET digest == RectDigest(reader.digest, m.frame, reader.rect.from, reader.rect.to)
         IN /\ reader' = Moved("rect", m, reader.digest)
            /\ cmds' = Append(cmds, PatchRect(reader.rect, digest))
            /\ UNCHANGED ctl
    ELSE Recover(m.epoch)

CommitsRect(m) ==
  IF RectComplete(m)
    THEN LET r == reader.rect
             digest == RectDigest(reader.digest, r.frame, r.from, r.to)
         IN reader' = Moved("rect", m, digest) /\ cmds' = Append(cmds, PatchRect(r, digest)) /\ UNCHANGED ctl
    ELSE Recover(m.epoch)

CommitsSnapshot(m) ==
  IF SnapshotComplete(m)
    THEN LET digest == SnapshotDigest(reader.snap.parts)
         IN reader' = Moved("snapshot", m, digest) /\ cmds' = Append(cmds, CommitSnap(m, digest)) /\ UNCHANGED ctl
    ELSE Recover(0)

ReaderCommits ==
  /\ Reads("commit")
  /\ LET m == Head(wire) IN IF reader.rect # NoRect THEN CommitsRect(m) ELSE CommitsSnapshot(m)
  /\ UNCHANGED <<sourceVars, encoder, agentVars, slot, compositor, limitVars>>

OpensVideo(m) == reader.rep # "video" \/ reader.epoch # m.epoch
VideoLegal(m) ==
  OpensVideo(m) => m.key /\ (reader.rep # "none" => reader.resetEpoch = m.epoch)

ReaderDecodes ==
  /\ Reads("video")
  /\ LET m == Head(wire) IN
       /\ cmds' = cmds \o (IF reader.snap # NoSnap THEN <<Cancel(0)>> ELSE <<>>)
                       \o (IF reader.rect # NoRect THEN <<Cancel(m.epoch)>> ELSE <<>>)
       /\ IF VideoLegal(m)
            THEN /\ reader' = IF OpensVideo(m)
                                THEN Moved("video", m, <<>>)
                                ELSE [reader EXCEPT !.snap = NoSnap, !.rect = NoRect]
                 /\ slot' = [frame |-> m.frame, epoch |-> m.epoch, key |-> m.key]
                 /\ UNCHANGED fault
            ELSE fault' = "video transition" /\ UNCHANGED <<reader, slot>>
  /\ UNCHANGED <<sourceVars, encoder, agentVars, compositor, ctl, budget>>

-----------------------------------------------------------------------------
(* The compositor thread.  Commands go before frames.  A step that throws  *)
(* drops the upload; a rectangle that throws also asks for a snapshot.     *)

CanEnter(rep, epoch) ==
  epoch # 0 /\ epoch >= compositor.epoch /\ (epoch = compositor.epoch => rep = compositor.rep)
Entered(rep, epoch) ==
  IF CanEnter(rep, epoch) THEN [compositor EXCEPT !.rep = rep, !.epoch = epoch] ELSE compositor

Runs(kind) == Running /\ cmds # <<>> /\ Head(cmds).kind = kind /\ cmds' = Tail(cmds)

\* A present that fails after the surfaces were swapped.
PresentFails == budget.faults < MaxFaults /\ Spare /\ budget' = [budget EXCEPT !.faults = @ + 1]

BeginAccepted(m) == CanEnter("snapshot", m.epoch) /\ ~compositor.upload.active

CompositorBegins ==
  /\ Runs("begin")
  /\ LET m == Head(cmds) IN
       compositor' = [Entered("snapshot", m.epoch) EXCEPT
                        !.upload = IF BeginAccepted(m) THEN [active |-> TRUE, parts |-> <<>>] ELSE Idle]
  /\ UNCHANGED <<sourceVars, encoder, agentVars, wire, reader, slot, ctl, limitVars>>

Extended(upload, content) == [upload EXCEPT !.parts = Append(@, content)]
PartAccepted(m) == compositor.upload.active /\ Len(compositor.upload.parts) = m.offset

CompositorUploads ==
  /\ Runs("chunk")
  /\ LET m == Head(cmds) IN
       compositor' = [compositor EXCEPT
                        !.upload = IF PartAccepted(m) THEN Extended(@, m.content) ELSE Idle]
  /\ UNCHANGED <<sourceVars, encoder, agentVars, wire, reader, slot, ctl, limitVars>>

SnapshotAccepted(m) ==
  /\ m.epoch = compositor.epoch /\ compositor.rep = "snapshot" /\ m.frame >= compositor.frame
  /\ compositor.upload.active /\ Len(compositor.upload.parts) = Chunks

Shows(c, content, lossy) == [c EXCEPT !.picture = [content |-> content, lossy |-> lossy]]
Exact(c, frame) == [c EXCEPT !.frame = frame, !.quality = "exact"]

\* Mutant: the acknowledgement is queued before the frame is committed.
CompositorAcksFirst ==
  /\ Runs("commit")
  /\ LET m == Head(cmds)
         idle == [compositor EXCEPT !.upload = Idle]
         swapped == Shows(idle, Whole(compositor.upload.parts), FALSE)
     IN IF ~SnapshotAccepted(m)
          THEN compositor' = idle /\ UNCHANGED <<ctl, budget>>
          ELSE /\ ctl' = Append(ctl, Ack(m.epoch, m.frame, m.digest))
               /\ \/ compositor' = Exact(swapped, m.frame) /\ UNCHANGED budget
                  \/ compositor' = swapped /\ PresentFails
  /\ UNCHANGED <<sourceVars, encoder, agentVars, wire, reader, slot, fault>>

CompositorCommits ==
  /\ Runs("commit")
  /\ LET m == Head(cmds)
         idle == [compositor EXCEPT !.upload = Idle]
         swapped == Shows(idle, Whole(compositor.upload.parts), FALSE)
     IN IF ~SnapshotAccepted(m)
          THEN compositor' = idle /\ UNCHANGED <<ctl, budget>>
          ELSE \/ /\ compositor' = Exact(swapped, m.frame)
                  /\ ctl' = Append(ctl, Ack(m.epoch, m.frame, m.digest))
                  /\ UNCHANGED budget
               \/ PresentFails /\ compositor' = swapped /\ UNCHANGED ctl
  /\ UNCHANGED <<sourceVars, encoder, agentVars, wire, reader, slot, fault>>

RectAccepted(m) ==
  /\ CanEnter("rect", m.epoch)
  /\ compositor.quality = "exact" /\ m.base # 0
  /\ m.frame > m.base /\ compositor.frame = m.base

CompositorPatches ==
  /\ Runs("rect")
  /\ LET m == Head(cmds)
         entered == [Entered("rect", m.epoch) EXCEPT !.upload = IF RectAccepted(m) THEN @ ELSE Idle]
         swapped == Shows(entered, Patch(compositor.picture.content, m.from, m.to), compositor.picture.lossy)
     IN IF ~RectAccepted(m)
          THEN compositor' = entered /\ ctl' = Append(ctl, Request) /\ UNCHANGED budget
          ELSE \/ /\ compositor' = Exact(swapped, m.frame)
                  /\ ctl' = Append(ctl, Ack(m.epoch, m.frame, m.digest))
                  /\ UNCHANGED budget
               \/ PresentFails /\ compositor' = [swapped EXCEPT !.upload = Idle]
                               /\ ctl' = Append(ctl, Request)
  /\ UNCHANGED <<sourceVars, encoder, agentVars, wire, reader, slot, fault>>

CompositorCancels ==
  /\ Runs("cancel")
  /\ compositor' = [compositor EXCEPT !.upload = Idle]
  /\ UNCHANGED <<sourceVars, encoder, agentVars, wire, reader, slot, ctl, limitVars>>

\* The upload is older than a second.
CompositorExpires ==
  /\ Running /\ compositor.upload.active
  /\ SpareTimeout
  /\ budget' = [budget EXCEPT !.timeouts = @ + 1]
  /\ compositor' = [compositor EXCEPT !.upload = Idle]
  /\ ctl' = Append(ctl, Request)
  /\ UNCHANGED <<sourceVars, encoder, agentVars, wire, reader, cmds, slot, fault>>

\* The frame repeats the one rendered last, is of an older epoch, or opens
\* an epoch without being an IDR: it is not drawn.
Repeats(s)      == s.frame = compositor.lastVideo /\ compositor.picture.content # None
Enters(s)       == ~Repeats(s) /\ CanEnter("video", s.epoch)
NeedsIdr(s)     == s.epoch # compositor.epoch \/ compositor.rep # "video"
Draws(s)        == Enters(s) /\ (NeedsIdr(s) => s.key)

CompositorDraws ==
  /\ Running /\ cmds = <<>> /\ slot # NoFrame
  /\ slot' = NoFrame
  /\ LET entered == IF Enters(slot) THEN Entered("video", slot.epoch) ELSE compositor
         swapped == Shows(entered, shot[slot.frame], TRUE)
     IN IF ~Draws(slot)
          THEN compositor' = entered /\ UNCHANGED budget
          ELSE \/ /\ compositor' = IF slot.frame >= compositor.frame
                                     THEN [swapped EXCEPT !.frame = slot.frame, !.quality = "lossy",
                                                          !.lastVideo = slot.frame]
                                     ELSE swapped
                  /\ UNCHANGED budget
               \/ PresentFails /\ compositor' = swapped
  /\ UNCHANGED <<sourceVars, encoder, agentVars, wire, reader, cmds, ctl, fault>>

-----------------------------------------------------------------------------
(* The agent's input worker hands control messages to the visual loop: a   *)
(* flag for a recovery, one slot for the latest acknowledgement.           *)

ReceivesControl ==
  /\ Running /\ ctl # <<>>
  /\ inbox' = IF Head(ctl).type = "request"
                THEN [inbox EXCEPT !.recovery = TRUE]
                ELSE [inbox EXCEPT !.ack = Head(ctl)]
  /\ ctl' = Tail(ctl)
  /\ UNCHANGED <<sourceVars, encoder, agent, wire, viewerVars, limitVars>>

Source  == (\E c \in Contents : Capture(c)) \/ Analyze \/ BecomesQuiet \/ CooldownEnds
Encoder == EncoderSubmits \/ EncoderFindsNothing \/ EncoderRepeats \/ EncoderDropsStale \/ AgentDeliversVideo
Agent   == \/ AgentRecovers \/ AgentAcks \/ AgentAckTimesOut \/ AgentSends \/ AgentQuiesces
           \/ AgentUnquiet \/ AgentSnapshots \/ AgentRects \/ AgentSupersedes \/ ReceivesControl
Reader  == ReaderResets \/ ReaderTakesRect \/ ReaderTakesChunk \/ ReaderCommits \/ ReaderDecodes
Compositor == \/ CompositorBegins \/ CompositorUploads \/ CompositorCommits \/ CompositorPatches
              \/ CompositorCancels \/ CompositorExpires \/ CompositorDraws

Next == Source \/ Encoder \/ Agent \/ Reader \/ Compositor
Spec == Init /\ [][Next]_vars

-----------------------------------------------------------------------------
(* What must hold.                                                         *)

SnapState  == [epoch: Nat, frame: Nat, parts: Seq(Contents)]
Upload     == [active: BOOLEAN, parts: Seq(Contents)]

\* Every variable keeps its shape: records, epochs, frame ids and messages.
TypeOK ==
  /\ shot \in Seq(Contents) /\ Len(shot) <= MaxCapture
  /\ analyzed \in [frame: Nat, content: Nat, quiet: BOOLEAN]
  /\ analyzed.content <= analyzed.frame /\ analyzed.frame <= Len(shot)
  /\ encoder.queue \in Seq([frame: Frames, epoch: Nat, key: BOOLEAN])
  /\ Len(encoder.queue) <= EncoderSlots
  /\ encoder.consumed \in 0..Len(shot) /\ encoder.repeats \in 0..MaxRepeats
  /\ encoder.tried \in 0..agent.epoch /\ encoder.late \subseteq [frame: Nat, epoch: Nat]
  /\ agent.mode \in Modes /\ agent.epoch \in Nat
  /\ {agent.snapFrame, agent.exactFrame, agent.target, agent.base, agent.pending} \subseteq 0..Len(shot)
  /\ agent.sent \in 0..Chunks
  /\ reader.rep \in {"none", "video", "snapshot", "rect"}
  /\ reader.snap \in SnapState /\ reader.frame \in 0..Len(shot)
  /\ slot \in [frame: Nat, epoch: Nat, key: BOOLEAN]
  /\ compositor.rep \in {"recovery", "video", "snapshot", "rect"}
  /\ compositor.quality \in {"unavailable", "lossy", "exact"}
  /\ compositor.picture \in Picture /\ compositor.upload \in Upload
  /\ compositor.frame \in 0..Len(shot)
  /\ budget \in [repeats: 0..MaxVisits, timeouts: 0..MaxTimeouts, faults: 0..MaxFaults]

\* No upload mixes chunks of two snapshots and no rectangle patches a
\* picture it was not computed against.
NeverGarbled == compositor.picture.content # Garbled

\* The encoder worker decided this repeat in an earlier epoch.
IsLate(m) == [frame |-> m.frame, epoch |-> m.epoch] \in encoder.late

\* While every present succeeds, the picture the compositor calls exact is
\* the frame it says it committed, and nothing lossy is on top of it: only a
\* late repeat of an older frame may cover it, which draw_video shows before
\* commit_video refuses it.
ExactIsTheFrame ==
  compositor.quality = "exact" /\ budget.faults = 0 =>
    \/ compositor.picture = [content |-> shot[compositor.frame], lossy |-> FALSE]
    \/ \E r \in encoder.late :
         /\ r.frame < compositor.frame /\ r.epoch <= compositor.epoch
         /\ compositor.picture = [content |-> shot[r.frame], lossy |-> TRUE]

\* The agent computes rectangles against its exact base.  Whatever timed out
\* or failed before, the viewer holds that base, or already the target of
\* the one transaction that is under way, and shows it.
AgreedBase ==
  agent.mode \in {"exact", "awaiting_rect_ack"} =>
    /\ agent.base = agent.exactFrame
    /\ compositor.quality = "exact"
    /\ compositor.frame \in {agent.exactFrame, agent.target}
    /\ ~compositor.picture.lossy
    /\ compositor.picture.content \in
         {shot[f] : f \in {agent.exactFrame, agent.target} \ {0}}

\* The reader never meets a message of the agent it has to refuse: the
\* resets, chunks, rectangles and commits are in order whatever the agent
\* abandoned half way, so no thread ends the session.
StreamLegal ==
  /\ Running
  /\ wire # <<>> =>
       LET m == Head(wire) IN
         CASE m.type = "reset"  -> ResetAdvances(m)
           [] m.type = "rect"   -> RectAllowed(m)
           [] m.type = "chunk"  -> ChunkFits(m)
           [] m.type = "commit" -> RectComplete(m) \/ SnapshotComplete(m)
           [] m.type = "video"  -> VideoLegal(m)

\* A frame the compositor is about to draw is older than the one it committed
\* only if it is a late repeat: nothing else makes commit_video refuse what is
\* already on the screen.
OnlyLateRepeatsRegress ==
  slot # NoFrame /\ Draws(slot) => slot.frame >= compositor.frame \/ IsLate(slot)

\* The agent and the reader hash the same history: an acknowledgement of the
\* transaction the agent waits for carries the digest it expects.
DigestsAgree == SnapshotAcked \/ RectAcked => AckMatches

\* An exact picture is replaced by video only through an IDR, as the
\* compositor's own check says ("video representation transition requires
\* IDR").
OnlyIdrReplacesExact ==
  [][compositor.quality = "exact" /\ compositor'.quality = "lossy" => slot.key]_vars

\* The picture seen from outside: the viewer only goes forward, the agent
\* relies on a frame the viewer committed exactly, and while it does no
\* lossy frame replaces it and at most one commit is ahead of it.
Abstract == INSTANCE ExactFramebuffer WITH
  shown <- compositor.frame, quality <- compositor.quality,
  agreed <- agent.exactFrame
ImplementsExactFramebuffer == Abstract!Spec

\* Every thread keeps running, the two gates open and a genuine timeout
\* fires.  Captures, early timers, failing presents and repeats are not fair:
\* a repeat only leaves the gap between its two visits of the gate.
Loop == \/ AgentRecovers \/ AgentAcks \/ AgentSends \/ AgentQuiesces \/ AgentUnquiet
        \/ AgentSnapshots \/ AgentRects \/ AgentSupersedes
        \/ AgentAckTimesOut /\ budget' = budget
Fairness ==
  /\ WF_vars(Analyze) /\ WF_vars(BecomesQuiet) /\ WF_vars(CooldownEnds)
  /\ WF_vars(EncoderSubmits) /\ WF_vars(EncoderRepeats)
  /\ WF_vars(EncoderDropsStale) /\ WF_vars(AgentDeliversVideo)
  /\ WF_vars(Loop) /\ WF_vars(ReceivesControl)
  /\ WF_vars(Reader) /\ WF_vars(Compositor /\ budget' = budget)
FairSpec == Spec /\ Fairness

\* Once the screen stops changing the viewer ends up showing its last
\* content exactly, and the agent knows it.
Settled ==
  /\ agent.mode = "exact"
  /\ compositor.quality = "exact"
  /\ compositor.picture = [content |-> shot[Len(shot)], lossy |-> FALSE]
ConvergesToExact == <>[](shot # <<>> => Settled)
=============================================================================
