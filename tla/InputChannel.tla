---------------------------- MODULE InputChannel ----------------------------
(***************************************************************************)
(* The reverse control channel of an interactive session: the viewer's     *)
(* window thread queues keyboard, button and pointer input, its control    *)
(* writer thread serialises the queue on the wire, and the agent's input   *)
(* worker injects it into the Mac.  The queue is bounded, pointer motion   *)
(* is coalesced, a focus loss releases everything that is held, and an     *)
(* input epoch fences what was queued before an overflow.                  *)
(***************************************************************************)
EXTENDS Naturals, Sequences

CONSTANTS
  Controls,       \* keys and mouse buttons
  Buttons,        \* the mouse buttons among them
  Positions,      \* pointer positions
  None,           \* no control, no position, no pending motion
  QueueLimit,     \* capacity of reliable_control (256 in the code)
  MaxOrder,       \* bound on queued user input and other control messages
  MaxFocus        \* bound on changes of the foreground window

ASSUME InputAssumption ==
  /\ QueueLimit \in Nat \ {0, 1}
  /\ MaxOrder \in Nat
  /\ MaxFocus \in Nat
  /\ Buttons \subseteq Controls /\ None \notin Controls \cup Positions

VARIABLES
  down,           \* controls the user holds physically
  motion,         \* last position queued in the current epoch
  foreground,     \* the viewer owns the foreground window
  focusMsgs,      \* focus messages the window has not processed yet
  focusChanges,   \* how often the foreground changed
  focused,        \* InputFocusReleaseGate::focused_
  reliable,       \* reliable_control
  pointer,        \* pointer_control
  nextOrder, nextReliable, nextPointer, epoch,
  closing,        \* stop() ran: stopping, then control_closing
  writer,         \* the control writer still owns an open stream
  nextWire,       \* next_wire_sequence
  wire,           \* reverse control messages in flight
  cut,            \* the connection failed
  lastWire,       \* last_sequence of the input worker
  inputEpoch, lastReliable, lastPointer,
  held,           \* controls pressed in the backend
  remotePos,      \* pointer position in the backend
  worker,         \* "running" or "ended"
  fault           \* why the input worker gave up

userVars   == <<down, foreground, focusMsgs, focusChanges, focused>>
queueVars  == <<reliable, pointer, motion, nextOrder, nextReliable, nextPointer, epoch>>
writerVars == <<closing, writer, nextWire>>
agentVars  == <<lastWire, inputEpoch, lastReliable, lastPointer, held, remotePos, worker, fault>>
vars == <<userVars, queueVars, writerVars, wire, cut, agentVars>>

-----------------------------------------------------------------------------
(* Messages.  "pos" of a motion is the position it moves to; "pos" of an   *)
(* edge is the last position queued before it in the same epoch, None when *)
(* there was none: the model's record of where the user pressed.           *)

EdgeKinds  == {"press", "release"}
InputKinds == EdgeKinds \cup {"releaseAll"}
Kinds      == InputKinds \cup {"move", "other"}

Fields == [kind: Kinds, ctl: Controls \cup {None}, pos: Positions \cup {None},
           seq: Nat, epoch: Nat, order: Nat]

Message == {m \in Fields : m.kind \in EdgeKinds => m.ctl \in Controls}

ASSUME NoneAssumption == None \notin Message

Packet == [num: Nat, msg: Message]

MakeMessage(kind, ctl, pos, seq) ==
  [kind |-> kind, ctl |-> ctl, pos |-> pos, seq |-> seq,
   epoch |-> epoch, order |-> nextOrder + 1]

-----------------------------------------------------------------------------
(* enqueue_control: a reliable input edge freezes the pending motion ahead *)
(* of itself; when there is no room a release-all empties the queue and    *)
(* opens a new epoch, and anything else is refused with an exception.      *)

Freezes(m) == pointer # None /\ m.kind \in InputKinds

Required(m) == IF Freezes(m) THEN 2 ELSE 1

Admitted(m) == Len(reliable) + Required(m) <= QueueLimit

\* Mutant: the frozen motion is lost.
BarrierDropped(m) == <<>>

Barrier(m) == IF Freezes(m) THEN <<pointer>> ELSE <<>>

\* Mutant: the release-all keeps the epoch it was made in.
FreshQueueSameEpoch(m) == <<m>>

FreshQueue(m) == <<[m EXCEPT !.epoch = epoch + 1]>>

\* Mutant: a full queue refuses a release-all like anything else.
OverflowRefused(m) == FALSE

Overflows(m) == ~Admitted(m) /\ m.kind = "releaseAll"

EnqueueReliable(m, consumed) ==
  /\ nextOrder' = nextOrder + 1
  /\ \/ /\ Admitted(m)
        /\ reliable' = reliable \o Barrier(m) \o <<m>>
        /\ pointer' = IF Freezes(m) THEN None ELSE pointer
        /\ nextReliable' = consumed
        /\ UNCHANGED <<nextPointer, epoch, motion>>
     \/ /\ Overflows(m)
        /\ epoch' = epoch + 1
        /\ reliable' = FreshQueue(m)
        /\ pointer' = None
        /\ nextReliable' = 0
        /\ nextPointer' = 0
        /\ motion' = None
     \/ /\ ~Admitted(m) /\ ~Overflows(m)
        /\ nextReliable' = consumed
        /\ UNCHANGED <<reliable, pointer, nextPointer, epoch, motion>>

ReleaseAllMessage == MakeMessage("releaseAll", None, motion, 0)

-----------------------------------------------------------------------------
(* The window thread.                                                      *)

Queueing == ~closing /\ nextOrder < MaxOrder

\* enqueue_input takes the next reliable sequence number before it queues.
EdgeForwarded(c, kind) ==
  EnqueueReliable(MakeMessage(kind, c, motion, nextReliable + 1), nextReliable + 1)

\* The keyboard hook asks for the foreground.  The window procedure does not: a
\* press brings the window there before it arrives, a release need not.
Reaches(c, kind) == foreground \/ (c \in Buttons /\ kind = "release")

Edge(c) ==
  /\ Queueing
  /\ LET kind == IF c \in down THEN "release" ELSE "press"
     IN  /\ down' = IF c \in down THEN down \ {c} ELSE down \cup {c}
         /\ \/ Reaches(c, kind) /\ EdgeForwarded(c, kind)
            \/ ~foreground /\ UNCHANGED queueVars
  /\ UNCHANGED <<foreground, focusMsgs, focusChanges, focused,
                 writerVars, wire, cut, agentVars>>

Move(p) ==
  /\ Queueing
  /\ nextPointer' = nextPointer + 1
  /\ nextOrder' = nextOrder + 1
  /\ pointer' = MakeMessage("move", None, p, nextPointer + 1)
  /\ motion' = p
  /\ UNCHANGED <<reliable, nextReliable, epoch, userVars, writerVars, wire, cut, agentVars>>

\* Heartbeats, commit acknowledgements and snapshot requests of other threads.
OtherControl ==
  /\ Queueing
  /\ EnqueueReliable(MakeMessage("other", None, None, 0), nextReliable)
  /\ UNCHANGED <<userVars, writerVars, wire, cut, agentVars>>

ForegroundChanges ==
  /\ focusChanges < MaxFocus
  /\ focusChanges' = focusChanges + 1
  /\ foreground' = ~foreground
  /\ focusMsgs' = Append(focusMsgs, IF foreground THEN "lost" ELSE "acquired")
  /\ UNCHANGED <<down, focused, queueVars, writerVars, wire, cut, agentVars>>

FocusAcquired ==
  /\ focusMsgs # <<>> /\ Head(focusMsgs) = "acquired"
  /\ focusMsgs' = Tail(focusMsgs)
  /\ focused' = TRUE
  /\ UNCHANGED <<down, foreground, focusChanges, queueVars, writerVars, wire, cut, agentVars>>

\* Mutant: the release gate is left closed.
NeverReleasesOnLoss == FALSE

ReleasesOnLoss == focused /\ ~closing

FocusLost ==
  /\ focusMsgs # <<>> /\ Head(focusMsgs) = "lost"
  /\ focusMsgs' = Tail(focusMsgs)
  /\ focused' = FALSE
  /\ \/ ReleasesOnLoss /\ EnqueueReliable(ReleaseAllMessage, nextReliable)
     \/ ~ReleasesOnLoss /\ UNCHANGED queueVars
  /\ UNCHANGED <<down, foreground, focusChanges, writerVars, wire, cut, agentVars>>

\* stop() appends a release-all past any limit and lets the writer drain.
Stop ==
  /\ ~closing
  /\ closing' = TRUE
  /\ reliable' = Append(reliable, ReleaseAllMessage)
  /\ nextOrder' = nextOrder + 1
  /\ UNCHANGED <<userVars, pointer, motion, nextReliable, nextPointer, epoch,
                 writer, nextWire, wire, cut, agentVars>>

-----------------------------------------------------------------------------
(* control_writer_loop.                                                    *)

PointerFirst ==
  /\ pointer # None
  /\ reliable # <<>> => pointer.order < Head(reliable).order

Send(m) ==
  /\ nextWire' = nextWire + 1
  /\ wire' = Append(wire, [num |-> nextWire + 1, msg |-> m])

WriterSendsPointer ==
  /\ writer = "open" /\ ~cut
  /\ PointerFirst
  /\ Send(pointer)
  /\ pointer' = None
  /\ UNCHANGED <<userVars, reliable, motion, nextOrder, nextReliable, nextPointer, epoch,
                 closing, writer, cut, agentVars>>

WriterSendsReliable ==
  /\ writer = "open" /\ ~cut
  /\ reliable # <<>> /\ ~PointerFirst
  /\ Send(Head(reliable))
  /\ reliable' = Tail(reliable)
  /\ UNCHANGED <<userVars, pointer, motion, nextOrder, nextReliable, nextPointer, epoch,
                 closing, writer, cut, agentVars>>

WriterCloses ==
  /\ writer = "open"
  /\ \/ closing /\ pointer = None /\ reliable = <<>>
     \/ cut
     \/ worker = "ended"
  /\ writer' = "closed"
  /\ UNCHANGED <<userVars, queueVars, closing, nextWire, wire, cut, agentVars>>

ConnectionFails ==
  /\ ~cut
  /\ cut' = TRUE
  /\ UNCHANGED <<userVars, queueVars, writerVars, wire, agentVars>>

-----------------------------------------------------------------------------
(* The agent's input worker and InputReceiver.                             *)

\* Mutant: an exception leaves the loop without release_all_input.
WorkerEndsHolding(why) ==
  /\ worker' = "ended"
  /\ fault' = why
  /\ UNCHANGED <<lastWire, inputEpoch, lastReliable, lastPointer, remotePos, held>>

WorkerEnds(why) ==
  /\ worker' = "ended"
  /\ fault' = why
  /\ held' = {}
  /\ UNCHANGED <<lastWire, inputEpoch, lastReliable, lastPointer, remotePos>>

Applied(m) == IF m.kind = "press" THEN held \cup {m.ctl} ELSE held \ {m.ctl}

StaleReliable(m, last) == last # 0 /\ m.seq <= last

GapReliable(m, last) == last # 0 /\ m.seq > last + 1

\* InputReceiver::receive of an edge against the last reliable sequence.
InjectEdge(m) ==
  /\ m.kind \in EdgeKinds
  /\ \/ /\ StaleReliable(m, lastReliable)
        /\ UNCHANGED <<lastReliable, held, fault, worker>>
     \/ /\ GapReliable(m, lastReliable)
        /\ worker' = "ended" /\ fault' = "inputGap" /\ held' = {}
        /\ UNCHANGED lastReliable
     \/ /\ ~StaleReliable(m, lastReliable) /\ ~GapReliable(m, lastReliable)
        /\ lastReliable' = m.seq
        /\ held' = Applied(m)
        /\ UNCHANGED <<fault, worker>>
  /\ UNCHANGED <<inputEpoch, lastPointer, remotePos>>

\* Motion is latest-wins: an older position never overwrites a newer one.
InjectMove(m) ==
  /\ m.kind = "move"
  /\ \/ /\ m.seq > lastPointer
        /\ lastPointer' = m.seq
        /\ remotePos' = m.pos
     \/ /\ m.seq <= lastPointer
        /\ UNCHANGED <<lastPointer, remotePos>>
  /\ UNCHANGED <<inputEpoch, lastReliable, held, fault, worker>>

InjectReleaseAll(m) ==
  /\ m.kind = "releaseAll"
  /\ held' = {}
  /\ UNCHANGED <<inputEpoch, lastReliable, lastPointer, remotePos, fault, worker>>

IgnoreOther(m) ==
  /\ m.kind = "other"
  /\ UNCHANGED <<inputEpoch, lastReliable, lastPointer, held, remotePos, fault, worker>>

\* accept_input_epoch of a newer epoch: release everything, forget sequences.
EnterEpoch(m) ==
  /\ held' = {}
  /\ inputEpoch' = m.epoch
  /\ lastReliable' = 0
  /\ lastPointer' = 0
  /\ UNCHANGED <<remotePos, fault, worker>>

Receive(m) ==
  \/ /\ m.epoch < inputEpoch
     /\ UNCHANGED <<inputEpoch, lastReliable, lastPointer, held, remotePos, fault, worker>>
  \/ /\ m.epoch = inputEpoch
     /\ \/ InjectEdge(m)
        \/ InjectMove(m)
        \/ InjectReleaseAll(m)
        \/ IgnoreOther(m)
  \/ /\ m.epoch > inputEpoch
     /\ m.kind = "releaseAll"
     /\ EnterEpoch(m)

WorkerReceives ==
  /\ worker = "running" /\ wire # <<>>
  /\ wire' = Tail(wire)
  /\ LET p == Head(wire)
     IN  \/ /\ p.num # lastWire + 1
            /\ WorkerEnds("wireGap")
         \/ /\ p.num = lastWire + 1
            /\ p.msg.epoch > inputEpoch /\ p.msg.kind # "releaseAll"
            /\ WorkerEnds("epochWithoutRelease")
         \/ /\ p.num = lastWire + 1
            /\ lastWire' = p.num
            /\ Receive(p.msg)
  /\ UNCHANGED <<userVars, queueVars, writerVars, cut>>

\* EOF, or a failed read that loses whatever was still in flight.
WorkerEof ==
  /\ worker = "running"
  /\ cut \/ (writer = "closed" /\ wire = <<>>)
  /\ WorkerEnds("none")
  /\ wire' = <<>>
  /\ UNCHANGED <<userVars, queueVars, writerVars, cut>>

-----------------------------------------------------------------------------

Init ==
  /\ down = {} /\ foreground = TRUE /\ focusMsgs = <<"acquired">> /\ focusChanges = 0
  /\ focused = TRUE
  /\ reliable = <<>> /\ pointer = None /\ motion = None
  /\ nextOrder = 0 /\ nextReliable = 0 /\ nextPointer = 0 /\ epoch = 1
  /\ closing = FALSE /\ writer = "open" /\ nextWire = 0
  /\ wire = <<>> /\ cut = FALSE
  /\ lastWire = 0 /\ inputEpoch = 1 /\ lastReliable = 0 /\ lastPointer = 0
  /\ held = {} /\ remotePos = None /\ worker = "running" /\ fault = "none"

Next ==
  \/ \E c \in Controls: Edge(c)
  \/ \E p \in Positions: Move(p)
  \/ OtherControl
  \/ ForegroundChanges
  \/ FocusAcquired
  \/ FocusLost
  \/ Stop
  \/ WriterSendsPointer
  \/ WriterSendsReliable
  \/ WriterCloses
  \/ ConnectionFails
  \/ WorkerReceives
  \/ WorkerEof

Spec == Init /\ [][Next]_vars

\* The window procedure, the writer thread and the worker thread keep running;
\* TCP either delivers or fails, and a dead peer ends the blocking read.
Fairness ==
  /\ WF_vars(FocusAcquired) /\ WF_vars(FocusLost)
  /\ WF_vars(WriterSendsPointer) /\ WF_vars(WriterSendsReliable) /\ WF_vars(WriterCloses)
  /\ WF_vars(WorkerReceives) /\ WF_vars(WorkerEof)

FairSpec == Spec /\ Fairness

-----------------------------------------------------------------------------
(* Properties.                                                             *)

\* Every variable stays in its type, in particular every queued message does.
TypeOK ==
  /\ down \subseteq Controls /\ held \subseteq Controls
  /\ motion \in Positions \cup {None} /\ remotePos \in Positions \cup {None}
  /\ foreground \in BOOLEAN /\ focused \in BOOLEAN
  /\ focusMsgs \in Seq({"acquired", "lost"}) /\ focusChanges \in Nat
  /\ reliable \in Seq(Message) /\ pointer \in Message \cup {None}
  /\ nextOrder \in Nat /\ nextReliable \in Nat /\ nextPointer \in Nat /\ epoch \in Nat
  /\ closing \in BOOLEAN /\ writer \in {"open", "closed"} /\ nextWire \in Nat
  /\ wire \in Seq(Packet) /\ cut \in BOOLEAN
  /\ lastWire \in Nat /\ inputEpoch \in Nat /\ lastReliable \in Nat /\ lastPointer \in Nat
  /\ worker \in {"running", "ended"}
  /\ fault \in {"none", "inputGap", "wireGap", "epochWithoutRelease"}

\* Overflow of the queue by any thread, at any moment, never makes the agent see
\* a hole in the wire numbering or a new epoch that a release-all does not open:
\* the two rejections of the input worker that end the whole session.
EpochFenced == fault \notin {"wireGap", "epochWithoutRelease"}

\* However the worker ends (gap, broken stream, orderly close), nothing stays
\* pressed on the Mac.
EndedReleased == worker = "ended" => held = {}

Settled ==
  /\ worker = "running" /\ focusMsgs = <<>>
  /\ reliable = <<>> /\ pointer = None /\ wire = <<>>

\* When nothing is in flight the Mac holds nothing for a viewer that lost the
\* foreground, and for a focused viewer nothing the user has let go, provided
\* the worker applied every reliable event the viewer numbered.
NoStuckControl ==
  Settled => /\ ~foreground => held = {}
             /\ lastReliable = nextReliable => held \subseteq down

\* A key or button edge acts at the position of the last motion queued before
\* it: coalescing never lets motion overtake an edge or an edge overtake motion.
EdgeAtItsPosition ==
  [][ \A m \in {p.msg : p \in {wire[i] : i \in DOMAIN wire}} :
        (/\ wire' = Tail(wire) /\ Head(wire).msg = m
         /\ m.kind \in EdgeKinds /\ lastReliable' # lastReliable /\ worker' = "running")
        => (m.pos = None \/ remotePos = m.pos) ]_vars

\* A viewer that loses the foreground gets everything released, unless the user
\* comes back first.
FocusLossReleases == ~foreground ~> (held = {} \/ foreground)

\* The viewer's own queue discipline never makes the worker reject the reliable
\* input sequence as gapped (input_queue_probe.cpp: a refused edge is refused
\* atomically).
InputNeverGapped == fault # "inputGap"

(* The fence, as an inductive invariant: everything queued carries the      *)
(* current epoch, the wire is numbered without holes, epochs on it never    *)
(* fall, and wherever the epoch rises the message is a release-all.         *)

LastEpoch == IF wire = <<>> THEN inputEpoch ELSE wire[Len(wire)].msg.epoch

QueueEpochs ==
  /\ \A i \in DOMAIN reliable: reliable[i].epoch = epoch /\ reliable[i].order <= nextOrder
  /\ pointer # None => pointer.epoch = epoch /\ pointer.order <= nextOrder

WireNumbered ==
  worker = "running" =>
    /\ nextWire = lastWire + Len(wire)
    /\ \A i \in DOMAIN wire: wire[i].num = lastWire + i

Rises(before, m) == m.epoch = before \/ (m.epoch > before /\ m.kind = "releaseAll")

WireEpochs ==
  worker = "running" =>
    /\ wire # <<>> => Rises(inputEpoch, wire[1].msg)
    /\ \A i \in DOMAIN wire: i > 1 => Rises(wire[i - 1].msg.epoch, wire[i].msg)

FenceQueued ==
  worker = "running" =>
    \/ LastEpoch = epoch
    \/ /\ LastEpoch < epoch
       /\ reliable # <<>> /\ Head(reliable).kind = "releaseAll"
       /\ pointer # None => Head(reliable).order < pointer.order

FenceInv == QueueEpochs /\ WireNumbered /\ WireEpochs /\ FenceQueued /\ EpochFenced
=============================================================================
