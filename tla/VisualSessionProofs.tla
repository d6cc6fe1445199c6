------------------------------- MODULE VisualSessionProofs -------------------------------
(***************************************************************************)
(* Proofs about the picture of a session, for all constants the assumption *)
(* VisualAssumption allows.  None of the session's invariants is inductive:*)
(* what the compositor shows depends on the commands the reader queued,    *)
(* these on the messages in flight, and these on what the agent's loop has *)
(* sent or given up.  SafetyInv follows the stream from the agent to the   *)
(* screen and back:                                                        *)
(*   Plan       what the agent's loop has promised itself in each mode;    *)
(*   WireInv    the messages in flight, one after the other, and that the  *)
(*              first is one the reader can take;                          *)
(*   ReaderInv  the snapshot or rectangle the reader has half read;        *)
(*   StreamInv  for each mode, the end of the wire and what of it was read;*)
(*   EncoderInv what the encoder still holds of the current epoch;         *)
(*   CmdsInv, UploadInv, SlotInv  the way from the reader to the surfaces; *)
(*   RectAhead, BaseInv  nothing touches the base a rectangle will patch;  *)
(*   OwnInv, AckInv  which transaction an acknowledgement can be for.      *)
(* One lemma per action shows that it keeps SafetyInv.  The theorems and   *)
(* the refinement of ExactFramebuffer follow from it.  A second invariant, *)
(* OrderInv, orders the frames on their way from the encoder to the screen *)
(* when the encoder worker is not delayed across epochs, and a third,      *)
(* Faithful, says of an exact surface which frame it shows.                *)
(***************************************************************************)
EXTENDS VisualSession, SequenceTheorems, TLAPS

Entry   == Nat \X (Contents \cup {None}) \X Contents
Digests == Seq(Entry)

AgentState ==
  [exactOnly: BOOLEAN, mode: Modes, epoch: Nat, cooling: BOOLEAN,
   snapEpoch: Nat, snapFrame: Nat, snapContent: Nat, sent: Nat,
   exactFrame: Nat, exactContent: Nat, digest: Digests, rectEpoch: Nat,
   target: Nat, targetContent: Nat, rectDigest: Digests, considered: Nat,
   base: Nat, pending: Nat]
Acks == [type: {"ack"}, epoch: Nat, frame: Nat, digest: Digests]
Requests == [type: {"request"}, epoch: {0}]
Messages ==
  [type: {"reset"}, epoch: Nat]
  \cup [type: {"video"}, epoch: Nat, frame: Nat, key: BOOLEAN]
  \cup [type: {"chunk"}, epoch: Nat, frame: Nat, offset: Nat, content: Contents]
  \cup [type: {"rect"}, epoch: Nat, frame: Nat, base: Nat, from: Contents, to: Contents]
  \cup [type: {"commit"}, epoch: Nat, frame: Nat, base: Nat]
Commands ==
  [kind: {"cancel"}, epoch: Nat]
  \cup [kind: {"begin"}, epoch: Nat, frame: Nat]
  \cup [kind: {"chunk"}, epoch: Nat, frame: Nat, offset: Nat, content: Contents]
  \cup [kind: {"commit"}, epoch: Nat, frame: Nat, digest: Digests]
  \cup [kind: {"rect"}, epoch: Nat, frame: Nat, base: Nat, from: Contents, to: Contents, digest: Digests]
Encoded == [frame: Nat, epoch: Nat, key: BOOLEAN]
EncoderState ==
  [queue: Seq(Encoded), consumed: Nat, repeats: Nat, idr: BOOLEAN, tried: Nat,
   late: SUBSET [frame: Nat, epoch: Nat]]
USE DEF EncoderState
RectState == [epoch: Nat, frame: Nat, base: Nat, from: Contents \cup {None}, to: Contents \cup {None}]
ReaderState ==
  [epoch: Nat, rep: {"none", "video", "snapshot", "rect"}, frame: Nat, digest: Digests,
   resetEpoch: Nat, poisoned: Nat, snap: SnapState, rect: RectState]
CompositorState ==
  [epoch: Nat, rep: {"recovery", "video", "snapshot", "rect"}, frame: Nat,
   quality: {"unavailable", "lossy", "exact"}, picture: Picture, lastVideo: Nat, upload: Upload]

\* The type of every variable, sharper than TypeOK where a record is read.
Shapes ==
  /\ shot \in Seq(Contents)
  /\ analyzed \in [frame: Nat, content: Nat, quiet: BOOLEAN]
  /\ encoder \in EncoderState
  /\ agent \in AgentState
  /\ inbox \in [recovery: BOOLEAN, ack: Acks]
  /\ wire \in Seq(Messages)
  /\ reader \in ReaderState
  /\ cmds \in Seq(Commands)
  /\ slot \in Encoded
  /\ compositor \in CompositorState
  /\ ctl \in Seq(Acks \cup Requests)
  /\ budget \in [repeats: Nat, timeouts: Nat, faults: Nat]

-----------------------------------------------------------------------------
\* The beginning.
Begun ==
  /\ analyzed.content <= analyzed.frame /\ analyzed.frame <= Len(shot)
  /\ agent.epoch >= 1
  /\ analyzed.frame = 0 => agent.epoch = 1
  /\ agent.epoch = 1 => /\ agent.mode = "video"
                        /\ cmds = <<>> /\ ctl = <<>> /\ ~inbox.recovery

\* What the loop's mode says of its own plan: the snapshot it is sending, the
\* base it holds, the target of the rectangle under way.
Plan ==
  /\ agent.mode \in {"quiescing", "sending", "awaiting_ack"} => agent.snapEpoch = agent.epoch
  /\ agent.mode \in {"sending", "awaiting_ack"} =>
       agent.snapFrame \in 1..Len(shot) /\ agent.pending = agent.snapFrame
  /\ agent.mode = "sending" => agent.sent < Chunks
  /\ agent.mode \in {"video", "quiescing", "exact"} => agent.pending = 0
  /\ agent.mode \in {"video", "quiescing", "sending", "awaiting_ack"} => agent.exactFrame = 0
  /\ agent.mode \in {"exact", "awaiting_rect_ack"} =>
       /\ agent.exactFrame \in 1..Len(shot) /\ agent.base = agent.exactFrame
       /\ agent.digest # <<>>
       /\ RawRect => agent.rectEpoch = agent.epoch
  /\ agent.mode = "awaiting_rect_ack" =>
       /\ RawRect /\ agent.target \in 1..Len(shot) /\ agent.target > agent.exactFrame
       /\ agent.pending = agent.target
       /\ agent.rectDigest =
            RectDigest(agent.digest, agent.target, shot[agent.exactFrame], shot[agent.target])

-----------------------------------------------------------------------------
\* The wire.  Every message says what was captured, and each is one the agent
\* may send after the one before it.
Right(m) ==
  /\ m.epoch \in 1..agent.epoch
  /\ m.type # "video" => m.epoch >= 2
  /\ m.type \in {"video", "chunk", "rect", "commit"} => m.frame \in 1..Len(shot)
  /\ m.type = "chunk" => m.offset < Chunks /\ m.content = shot[m.frame]
  /\ m.type = "rect" => /\ m.base \in 1..Len(shot) /\ m.base < m.frame
                        /\ m.from = shot[m.base] /\ m.to = shot[m.frame]

Follows(m, n) ==
  /\ n.type = "reset" => n.epoch > m.epoch
  /\ n.type # "reset" => n.epoch = m.epoch
  /\ n.type = "video" => m.type = "video" \/ (m.type = "reset" /\ n.key)
  /\ n.type = "chunk" => \/ m.type = "reset" /\ n.offset = 0
                         \/ m.type = "chunk" /\ n.frame = m.frame /\ n.offset = m.offset + 1
  /\ n.type = "commit" => \/ /\ m.type = "chunk" /\ n.frame = m.frame
                             /\ n.base = 0 /\ m.offset + 1 = Chunks
                          \/ /\ m.type = "rect" /\ n.frame = m.frame
                             /\ n.base = m.base
  /\ n.type = "rect" => m.type = "reset"

Clear == reader.snap = NoSnap /\ reader.rect = NoRect

\* The reader can take n as its next message.
Fits(n) ==
  /\ n.type = "reset" => n.epoch > reader.epoch /\ n.epoch > reader.resetEpoch
  /\ n.type = "video" => /\ Clear
                         /\ \/ reader.rep = "video" /\ reader.epoch = n.epoch /\ reader.resetEpoch = 0
                            \/ n.key /\ reader.resetEpoch = n.epoch
                            \/ n.key /\ reader.rep = "none" /\ reader.resetEpoch = 0
  /\ n.type = "chunk" => /\ reader.rect = NoRect /\ reader.resetEpoch = n.epoch
                         /\ n.offset = Len(reader.snap.parts)
                         /\ reader.snap # NoSnap => reader.snap.frame = n.frame
  /\ n.type = "commit" => \/ /\ n.base = 0 /\ reader.rect = NoRect /\ reader.snap # NoSnap
                             /\ reader.resetEpoch = n.epoch /\ reader.snap.frame = n.frame
                             /\ Len(reader.snap.parts) = Chunks
                          \/ /\ reader.snap = NoSnap /\ reader.rect # NoRect
                             /\ RectComplete(n)
  /\ n.type = "rect" => /\ Clear /\ RawRect /\ n.base = reader.frame /\ reader.digest # <<>>
                        /\ \/ reader.rep = "rect" /\ n.epoch = reader.epoch /\ reader.resetEpoch = 0
                           \/ reader.rep = "snapshot" /\ n.epoch = reader.resetEpoch

\* A rectangle is the first message, or the second behind its reset.
WireInv ==
  /\ \A i \in 1..Len(wire) : Right(wire[i])
  /\ \A i \in 1..(Len(wire) - 1) : Follows(wire[i], wire[i + 1])
  /\ wire # <<>> => Fits(wire[1])
  /\ \A i \in 1..Len(wire) : wire[i].type = "rect" =>
       /\ i <= 2
       /\ i = 2 => /\ RawRect /\ wire[i].base = reader.frame /\ reader.digest # <<>>
                   /\ reader.rep = "snapshot"

\* What the reader collected is one snapshot, or one rectangle of the epoch.
ReaderInv ==
  /\ reader.poisoned = 0
  /\ reader.epoch <= agent.epoch /\ reader.resetEpoch <= agent.epoch
  /\ reader.resetEpoch # 0 => reader.resetEpoch > reader.epoch /\ reader.resetEpoch >= 2
  /\ reader.snap # NoSnap => /\ reader.snap.epoch = reader.resetEpoch /\ reader.resetEpoch # 0
                             /\ reader.snap.frame \in 1..Len(shot)
                             /\ reader.snap.parts # <<>>
                             /\ \A i \in 1..Len(reader.snap.parts) :
                                  reader.snap.parts[i] = shot[reader.snap.frame]
  /\ reader.rect # NoRect => /\ reader.rect.epoch \in 2..agent.epoch
                             /\ reader.rect.epoch >= reader.epoch
                             /\ reader.rect.epoch >= reader.resetEpoch
                             /\ reader.rect.base \in 1..Len(shot) /\ reader.rect.frame \in 1..Len(shot)
                             /\ reader.rect.base < reader.rect.frame
                             /\ reader.rect.from = shot[reader.rect.base]
                             /\ reader.rect.to = shot[reader.rect.frame]
                             /\ reader.rep \in {"snapshot", "rect"}

-----------------------------------------------------------------------------
\* What the agent sent last, and how far the reader has come: the end of the
\* wire, or, when it is empty, the reader's state.
Final(type) == wire # <<>> /\ wire[Len(wire)].type = type /\ wire[Len(wire)].epoch = agent.epoch

Opened == IF wire = <<>> THEN Clear /\ reader.resetEpoch = agent.epoch
                         ELSE Final("reset")
Streaming == IF wire = <<>> THEN /\ Clear /\ reader.rep = "video" /\ reader.epoch = agent.epoch
                                 /\ reader.resetEpoch = 0
                            ELSE Final("video")
Fresh == /\ wire = <<>> /\ Clear /\ reader.rep = "none" /\ reader.resetEpoch = 0
         /\ agent.epoch = 1
Delivered ==
  IF wire = <<>>
    THEN /\ reader.resetEpoch = agent.epoch /\ reader.rect = NoRect
         /\ reader.snap # NoSnap /\ reader.snap.frame = agent.snapFrame
         /\ Len(reader.snap.parts) = agent.sent
    ELSE /\ Final("chunk")
         /\ wire[Len(wire)].frame = agent.snapFrame /\ wire[Len(wire)].offset + 1 = agent.sent
Complete ==
  IF wire = <<>>
    THEN /\ Clear /\ reader.rep = "snapshot" /\ reader.epoch = agent.epoch
         /\ reader.resetEpoch = 0 /\ reader.frame = agent.snapFrame
         /\ reader.digest = SentDigest
    ELSE /\ Final("commit")
         /\ wire[Len(wire)].frame = agent.snapFrame /\ wire[Len(wire)].base = 0

\* The reader holds the exact base.
Based ==
  /\ Clear /\ reader.frame = agent.exactFrame /\ reader.digest = agent.digest
AtExact ==
  \/ Final("reset") /\ Len(wire) = 1 /\ reader.rep = "snapshot" /\ RawRect
  \/ wire = <<>> /\ reader.rep = "rect" /\ reader.epoch = agent.epoch /\ reader.resetEpoch = 0 /\ RawRect
  \/ wire = <<>> /\ reader.rep = "snapshot" /\ reader.resetEpoch = agent.epoch /\ RawRect
  \/ wire = <<>> /\ reader.rep = "snapshot" /\ ~RawRect

OurRect(m) == m.epoch = agent.epoch /\ m.frame = agent.target /\ m.base = agent.exactFrame
OnWire(type, i) == wire[i].type = type /\ OurRect(wire[i])
Transaction ==
  \/ /\ Len(wire) = 3 /\ OnWire("rect", 2) /\ OnWire("commit", 3)
     /\ wire[1].type = "reset"
     /\ Based
  \/ /\ Len(wire) = 2 /\ OnWire("rect", 1) /\ OnWire("commit", 2)
     /\ Based
  \/ /\ Len(wire) = 1 /\ OnWire("commit", 1)
     /\ reader.rect # NoRect /\ reader.digest = agent.digest
  \/ /\ wire = <<>> /\ Clear
     /\ reader.rep = "rect" /\ reader.epoch = agent.epoch /\ reader.resetEpoch = 0
     /\ reader.frame = agent.target /\ reader.digest = agent.rectDigest

StreamInv ==
  /\ agent.mode = "video" => Opened \/ Streaming \/ Fresh
  /\ agent.mode = "quiescing" => Opened
  /\ agent.mode = "sending" => IF agent.sent = 0 THEN Opened ELSE Delivered
  /\ agent.mode = "awaiting_ack" => Complete
  /\ agent.mode = "exact" => Based /\ AtExact
  /\ agent.mode = "awaiting_rect_ack" => Transaction

-----------------------------------------------------------------------------
\* The encoder: until a frame of the epoch is on its way the next one is an IDR.
Current(i) == encoder.queue[i].epoch = agent.epoch
EncoderInv ==
  /\ \A i \in 1..Len(encoder.queue) : /\ encoder.queue[i].frame \in 1..Len(shot)
                                      /\ encoder.queue[i].epoch \in 1..agent.epoch
                                      /\ Current(i) => agent.mode = "video"
  /\ encoder.consumed <= Len(shot)
  /\ encoder.consumed = 0 => encoder.repeats = 0 /\ encoder.tried = 0
  /\ encoder.tried # 0 => encoder.repeats > 0
  /\ agent.mode = "video" /\ ~Streaming =>
       /\ \A i \in 1..Len(encoder.queue) :
            Current(i) /\ (\A j \in 1..(i - 1) : ~Current(j)) => encoder.queue[i].key
       /\ (\A i \in 1..Len(encoder.queue) : ~Current(i)) => encoder.idr

-----------------------------------------------------------------------------
\* The commands queued for the compositor.
CmdRight(x) ==
  /\ x.kind = "chunk" => x.frame \in 1..Len(shot) /\ x.content = shot[x.frame]
  /\ x.kind \in {"commit", "rect"} => x.frame \in 1..Len(shot) /\ x.epoch \in 1..agent.epoch
  /\ x.kind = "rect" => /\ x.base \in 1..Len(shot) /\ x.base < x.frame
                        /\ x.from = shot[x.base] /\ x.to = shot[x.frame]
SameUpload(x, y) ==
  y.kind \in {"chunk", "commit"} => x.kind \in {"begin", "chunk"} /\ x.frame = y.frame

\* Parts of an upload follow their begin, and an unfinished snapshot of the
\* reader is what the queue ends with.
CmdsInv ==
  /\ \A i \in 1..Len(cmds) : CmdRight(cmds[i])
  /\ \A i \in 1..(Len(cmds) - 1) : SameUpload(cmds[i], cmds[i + 1])
  /\ cmds # <<>> =>
       IF reader.snap # NoSnap
         THEN cmds[Len(cmds)].kind = "chunk" /\ cmds[Len(cmds)].frame = reader.snap.frame
         ELSE /\ cmds[Len(cmds)].kind \in {"cancel", "commit", "rect"}
              /\ reader.resetEpoch # 0 => cmds[Len(cmds)].kind = "cancel"

\* The upload holds parts of the one frame that is read or queued.
UploadInv ==
  compositor.upload.active =>
    /\ cmds = <<>> =>
         /\ reader.snap # NoSnap
         /\ \A i \in 1..Len(compositor.upload.parts) :
              compositor.upload.parts[i] = shot[reader.snap.frame]
    /\ cmds # <<>> /\ cmds[1].kind \in {"chunk", "commit"} =>
         \A i \in 1..Len(compositor.upload.parts) :
           compositor.upload.parts[i] = shot[cmds[1].frame]

\* A decoded frame waits only while the reader is on video.
SlotInv ==
  slot # NoFrame => /\ slot.frame \in 1..Len(shot)
                    /\ reader.rep = "video" /\ reader.resetEpoch = 0
                    /\ slot.epoch <= reader.epoch

\* The compositor shows the exact frame b and nothing overwrites it.
AtBase(b) ==
  /\ compositor.quality = "exact" /\ compositor.frame = b
  /\ compositor.picture.content = shot[b] /\ ~compositor.picture.lossy
  /\ ~compositor.upload.active
Unhurried == \A i \in 1..Len(cmds) : i = 1 /\ cmds[i].kind = "cancel"

\* Whoever has a rectangle, wire, reader or queue, its base is on the screen
\* and nothing queued before it can change that.
RectAhead ==
  /\ \A i \in 1..Len(wire) : wire[i].type = "rect" =>
       /\ AtBase(wire[i].base) /\ Unhurried
       /\ i = 2 => cmds = <<>>
  /\ reader.rect # NoRect => AtBase(reader.rect.base) /\ Unhurried
  /\ \A i \in 1..Len(cmds) : cmds[i].kind = "rect" =>
       /\ AtBase(cmds[i].base)
       /\ i = 1 \/ (i = 2 /\ cmds[1].kind = "cancel")

\* The rectangle was handled, and whether it was drawn or not.
RectHandled ==
  /\ compositor.quality = "exact" /\ ~compositor.picture.lossy /\ ~compositor.upload.active
  /\ compositor.frame \in {agent.exactFrame, agent.target}
  /\ compositor.picture.content \in {shot[agent.exactFrame], shot[agent.target]}
  /\ compositor.frame = agent.target => compositor.picture.content = shot[agent.target]

\* The base the agent relies on, and the one rectangle that may replace it.
TheRect(x) == x.kind = "rect" /\ OurRect(x) /\ x.digest = agent.rectDigest
BaseInv ==
  /\ agent.mode = "exact" => /\ AtBase(agent.exactFrame) /\ Unhurried
                             /\ wire # <<>> => cmds = <<>>
  /\ agent.mode = "awaiting_rect_ack" /\ wire = <<>> =>
       \/ cmds = <<>> /\ RectHandled
       \/ Len(cmds) = 1 /\ TheRect(cmds[1])
       \/ Len(cmds) = 2 /\ TheRect(cmds[2])

\* A transaction of the agent's own epoch is the last thing there is.
OwnWire ==
  \A i \in 1..Len(wire) : wire[i].type \in {"commit", "rect"} /\ wire[i].epoch = agent.epoch =>
     \/ agent.mode = "awaiting_ack" /\ wire[i].type = "commit" /\ i = Len(wire)
     \/ agent.mode = "awaiting_rect_ack"
OwnCmds ==
  \A i \in 1..Len(cmds) : cmds[i].kind \in {"commit", "rect"} /\ cmds[i].epoch = agent.epoch =>
     \/ /\ agent.mode = "awaiting_ack" /\ wire = <<>>
        /\ cmds[i].kind = "commit" /\ i = Len(cmds)
        /\ cmds[i].frame = agent.snapFrame /\ cmds[i].digest = SentDigest
     \/ agent.mode = "awaiting_rect_ack"
OwnInv == OwnWire /\ OwnCmds

SnapDone == wire = <<>> /\ cmds = <<>> /\ AtBase(agent.snapFrame)
RectDone == wire = <<>> /\ cmds = <<>> /\ compositor.frame = agent.target
\* An acknowledgement of the agent's epoch: of the snapshot it waits for, of
\* a frame it already agreed on, or of the target it waits for.
AckRight(a) ==
  /\ a.epoch <= agent.epoch
  /\ a.epoch = agent.epoch =>
       /\ agent.mode \notin {"video", "quiescing", "sending"}
       /\ agent.mode = "awaiting_ack" =>
            SnapDone /\ a.frame = agent.snapFrame /\ a.digest = SentDigest
       /\ agent.mode = "exact" /\ RawRect => a.frame <= agent.exactFrame
       /\ agent.mode = "awaiting_rect_ack" =>
            \/ a.frame <= agent.exactFrame
            \/ a.frame = agent.target /\ a.digest = agent.rectDigest /\ RectDone
AckInv ==
  /\ AckRight(inbox.ack)
  /\ \A i \in 1..Len(ctl) : ctl[i].type = "ack" => AckRight(ctl[i])

ShownInv == compositor.picture.content # Garbled /\ compositor.frame <= Len(shot)

SafetyInv ==
  /\ Shapes /\ Begun /\ Plan /\ WireInv /\ ReaderInv /\ StreamInv /\ EncoderInv
  /\ CmdsInv /\ UploadInv /\ SlotInv /\ RectAhead /\ BaseInv /\ OwnInv /\ AckInv /\ ShownInv
  /\ Running

-----------------------------------------------------------------------------
LEMMA MessageFields ==
  \A m \in Messages :
    /\ m.epoch \in Nat
    /\ m.type \in {"reset", "video", "chunk", "rect", "commit"}
    /\ m.type = "video" => m.frame \in Nat /\ m.key \in BOOLEAN
    /\ m.type = "chunk" => m.frame \in Nat /\ m.offset \in Nat /\ m.content \in Contents
    /\ m.type = "rect" => m.frame \in Nat /\ m.base \in Nat /\ m.from \in Contents /\ m.to \in Contents
    /\ m.type = "commit" => m.frame \in Nat /\ m.base \in Nat
BY DEF Messages

LEMMA CommandFields ==
  \A x \in Commands :
    /\ x.epoch \in Nat
    /\ x.kind \in {"cancel", "begin", "chunk", "commit", "rect"}
    /\ x.kind = "begin" => x.frame \in Nat
    /\ x.kind = "chunk" => x.frame \in Nat /\ x.offset \in Nat /\ x.content \in Contents
    /\ x.kind = "commit" => x.frame \in Nat /\ x.digest \in Digests
    /\ x.kind = "rect" => /\ x.frame \in Nat /\ x.base \in Nat
                          /\ x.from \in Contents /\ x.to \in Contents /\ x.digest \in Digests
BY DEF Commands

LEMMA MessageTypes ==
  ASSUME NEW e \in Nat, NEW f \in Nat, NEW i \in Nat, NEW b \in Nat,
         NEW u \in Contents, NEW v \in Contents, NEW k \in BOOLEAN
  PROVE  /\ Reset(e) \in Messages /\ Video(e, f, k) \in Messages
         /\ Chunk(e, f, i, u) \in Messages /\ Rect(e, f, b, u, v) \in Messages
         /\ Commit(e, f, b) \in Messages
BY DEF Messages, Reset, Video, Chunk, Rect, Commit

\* A sequence without its head.
LEMMA TailOf ==
  ASSUME NEW S, NEW s \in Seq(S), s # <<>>
  PROVE  /\ Head(s) = s[1] /\ s[1] \in S
         /\ Tail(s) \in Seq(S) /\ Len(Tail(s)) = Len(s) - 1 /\ Len(s) \in Nat /\ Len(s) >= 1
         /\ \A i \in 1..(Len(s) - 1) : Tail(s)[i] = s[i + 1] /\ i + 1 \in 1..Len(s)
         /\ Tail(s) = <<>> <=> Len(s) = 1
         /\ Tail(s) # <<>> => Len(s) > 1 /\ Tail(s)[1] = s[2] /\ Tail(s)[Len(Tail(s))] = s[Len(s)]
<1>1. Len(s) \in Nat /\ Len(s) >= 1 /\ Head(s) = s[1] /\ s[1] \in S  OBVIOUS
<1>2. Tail(s) \in Seq(S) /\ Len(Tail(s)) = Len(s) - 1  OBVIOUS
<1>3. \A i \in 1..(Len(s) - 1) : Tail(s)[i] = s[i + 1] /\ i + 1 \in 1..Len(s)
  BY <1>1
<1>4. Tail(s) = <<>> <=> Len(s) = 1
  <2>1. \A t \in Seq(S) : t = <<>> <=> Len(t) = 0  BY EmptySeq
  <2>2. Tail(s) = <<>> <=> Len(Tail(s)) = 0  BY <1>2, <2>1, Zenon
  <2>3. Len(s) - 1 = 0 <=> Len(s) = 1  BY <1>1
  <2> QED  BY <1>2, <2>2, <2>3, Zenon
<1>5. ASSUME Tail(s) # <<>>
      PROVE  Len(s) > 1 /\ Tail(s)[1] = s[2] /\ Tail(s)[Len(Tail(s))] = s[Len(s)]
  <2>1. Len(s) > 1  BY <1>1, <1>4, <1>5
  <2>2. 1 \in 1..(Len(s) - 1) /\ Len(s) - 1 \in 1..(Len(s) - 1)  BY <1>1, <2>1
  <2>3. Tail(s)[1] = s[1 + 1] /\ Tail(s)[Len(s) - 1] = s[Len(s) - 1 + 1]  BY <1>3, <2>2
  <2> QED  BY <1>1, <1>2, <2>1, <2>3
<1> QED  BY <1>1, <1>2, <1>3, <1>4, <1>5

\* A sequence with one more element.
LEMMA AppendOf ==
  ASSUME NEW S, NEW s \in Seq(S), NEW x \in S
  PROVE  /\ Append(s, x) \in Seq(S) /\ Len(Append(s, x)) = Len(s) + 1 /\ Len(s) \in Nat
         /\ \A i \in 1..Len(s) : Append(s, x)[i] = s[i]
         /\ Append(s, x)[Len(s) + 1] = x
         /\ Append(s, x) # <<>>
OBVIOUS

\* What the agent will expect of a snapshot's acknowledgement is a digest.
LEMMA SentDigestType ==
  ASSUME Shapes, Plan, agent.mode \in {"sending", "awaiting_ack"}
  PROVE  SentDigest \in Digests /\ SentDigest # <<>>
<1>1. Chunks \in Nat /\ Chunks >= 1  BY VisualAssumption
<1>2. shot[agent.snapFrame] \in Contents
  <2>1. shot \in Seq(Contents) /\ agent.snapFrame \in 1..Len(shot)  BY DEF Shapes, Plan
  <2> QED  BY <2>1
<1>3. \A i \in 1..Chunks : <<0, None, shot[agent.snapFrame]>> \in Entry  BY <1>2 DEF Entry
<1>4. SentDigest \in Seq(Entry)  BY <1>1, <1>3 DEF SentDigest
<1>5. Len(SentDigest) = Chunks  BY <1>1 DEF SentDigest
<1> QED  BY <1>1, <1>4, <1>5 DEF Digests

\* The invariant holds at the start of a session.
LEMMA InitInv == Init => SafetyInv
<1> SUFFICES ASSUME Init PROVE SafetyInv  OBVIOUS
<1> USE DEF Init
<1>1. Shapes
  <2>1. encoder \in EncoderState
    OBVIOUS
  <2>2. agent \in AgentState  BY VisualAssumption DEF AgentState, Modes, Digests
  <2>3. inbox \in [recovery: BOOLEAN, ack: Acks]  BY DEF Acks, NoAck, Ack, Digests
  <2>4. reader \in ReaderState
    BY DEF ReaderState, NoSnap, NoRect, SnapState, RectState, Digests
  <2>5. compositor \in CompositorState  BY DEF CompositorState, Picture, Upload, Idle
  <2>6. slot \in Encoded  BY DEF Encoded, NoFrame
  <2> QED  BY <2>1, <2>2, <2>3, <2>4, <2>5, <2>6 DEF Shapes
<1>2. Begun  BY DEF Begun
<1>3. Plan  BY DEF Plan
<1>4. WireInv  BY DEF WireInv
<1>5. ReaderInv  BY DEF ReaderInv
<1>6. StreamInv  BY DEF StreamInv, Fresh, Clear
<1>7. EncoderInv  BY DEF EncoderInv, Streaming, Clear
<1>8. CmdsInv /\ UploadInv /\ SlotInv  BY DEF CmdsInv, UploadInv, Idle, SlotInv, NoFrame
<1>9. RectAhead /\ BaseInv /\ OwnInv  BY DEF RectAhead, BaseInv, OwnInv, OwnWire, OwnCmds
<1>10. AckInv /\ ShownInv /\ Running
  BY VisualAssumption DEF AckInv, AckRight, NoAck, Ack, ShownInv, Running
<1> QED  BY <1>1, <1>2, <1>3, <1>4, <1>5, <1>6, <1>7, <1>8, <1>9, <1>10 DEF SafetyInv
-----------------------------------------------------------------------------
(* The compositor's steps. *)

LEMMA SlotNone == NoFrame \in Encoded
BY DEF NoFrame, Encoded

LEMMA RequestType == Request \in Acks \cup Requests /\ Request.type # "ack"
BY DEF Request, Requests

\* What a step of the compositor leaves alone: everything up to the reader.
LEMMA UpstreamKept ==
  ASSUME SafetyInv, UNCHANGED <<shot, encoder, agent, wire, reader>>
  PROVE  Plan' /\ WireInv' /\ ReaderInv' /\ StreamInv' /\ EncoderInv'
<1>1. Plan'  BY DEF SafetyInv, Plan
<1>2. WireInv'  BY DEF SafetyInv, WireInv, Right, Follows, Fits, Clear, RectComplete
<1>3. ReaderInv'  BY DEF SafetyInv, ReaderInv
<1>4. StreamInv'
  BY DEF SafetyInv, StreamInv, Opened, Streaming, Fresh, Delivered, Complete, Final, Clear, Based,
         AtExact, Transaction, OnWire, OurRect, SentDigest
<1>5. EncoderInv'  BY DEF SafetyInv, EncoderInv, Current, Streaming, Final, Clear
<1> QED  BY <1>1, <1>2, <1>3, <1>4, <1>5

\* Steps that neither queue nor take a command.
LEMMA CommandsKept ==
  ASSUME CmdsInv, OwnInv, UNCHANGED <<shot, agent, wire, reader, cmds>>
  PROVE  CmdsInv' /\ OwnInv'
<1>1. CmdsInv'  BY DEF CmdsInv, CmdRight, SameUpload
<1>2. OwnInv'  BY DEF OwnInv, OwnWire, OwnCmds, SentDigest
<1> QED  BY <1>1, <1>2

\* A step of the compositor that takes the first command.
LEMMA Popped ==
  ASSUME SafetyInv, cmds # <<>>, cmds' = Tail(cmds),
         UNCHANGED <<shot, agent, wire, reader>>
  PROVE  /\ CmdsInv' /\ OwnInv'
         /\ cmds[1] \in Commands /\ Head(cmds) = cmds[1] /\ CmdRight(cmds[1])
         /\ cmds' \in Seq(Commands) /\ Len(cmds') = Len(cmds) - 1 /\ Len(cmds) \in Nat
         /\ \A i \in 1..Len(cmds') : cmds'[i] = cmds[i + 1] /\ i + 1 \in 1..Len(cmds)
         /\ cmds' = <<>> <=> Len(cmds) = 1
         /\ cmds' # <<>> => Len(cmds) > 1 /\ cmds'[1] = cmds[2] /\ SameUpload(cmds[1], cmds[2])
         /\ agent.epoch # 1
         /\ \A a : AckRight(a) => AckRight(a)'
<1>0. cmds \in Seq(Commands)  BY DEF SafetyInv, Shapes
<1>1. /\ Head(cmds) = cmds[1] /\ cmds[1] \in Commands
      /\ cmds' \in Seq(Commands) /\ Len(cmds') = Len(cmds) - 1 /\ Len(cmds) \in Nat /\ Len(cmds) >= 1
      /\ \A i \in 1..(Len(cmds) - 1) : cmds'[i] = cmds[i + 1] /\ i + 1 \in 1..Len(cmds)
      /\ cmds' = <<>> <=> Len(cmds) = 1
      /\ cmds' # <<>> => Len(cmds) > 1 /\ cmds'[1] = cmds[2] /\ cmds'[Len(cmds')] = cmds[Len(cmds)]
  BY <1>0, TailOf
<1>2. CmdsInv
  BY DEF SafetyInv
<1>3. \A i \in 1..Len(cmds') : CmdRight(cmds[i])'
  BY <1>1, <1>2 DEF CmdsInv, CmdRight
<1>4. \A i \in 1..(Len(cmds') - 1) : SameUpload(cmds'[i], cmds'[i + 1])
  <2> SUFFICES ASSUME NEW i \in 1..(Len(cmds') - 1) PROVE SameUpload(cmds'[i], cmds'[i + 1])
    OBVIOUS
  <2>1. i \in 1..(Len(cmds) - 1) /\ i + 1 \in 1..(Len(cmds) - 1)  BY <1>1
  <2>2. cmds'[i] = cmds[i + 1] /\ cmds'[i + 1] = cmds[i + 1 + 1]  BY <1>1, <2>1
  <2> QED  BY <1>2, <2>1, <2>2 DEF CmdsInv
<1>5. CmdsInv'
  <2>1. cmds' # <<>> => cmds'[Len(cmds')] = cmds[Len(cmds)]  BY <1>1
  <2> QED  BY <1>2, <1>3, <1>4, <2>1 DEF CmdsInv, SameUpload
<1>6. OwnInv'
  <2>1. OwnInv  BY DEF SafetyInv
  <2>2. \A i \in 1..Len(cmds') : i + 1 = Len(cmds) <=> i = Len(cmds')  BY <1>1
  <2>3. \A i \in 1..Len(cmds') : cmds'[i] = cmds[i + 1] /\ i + 1 \in 1..Len(cmds)  BY <1>1
  <2>4. OwnWire'  BY <2>1 DEF OwnInv, OwnWire
  <2>5. ASSUME NEW i \in 1..Len(cmds'), cmds'[i].kind \in {"commit", "rect"},
               cmds'[i].epoch = agent'.epoch
        PROVE  \/ /\ agent'.mode = "awaiting_ack" /\ wire' = <<>>
                  /\ cmds'[i].kind = "commit" /\ i = Len(cmds')
                  /\ cmds'[i].frame = agent'.snapFrame /\ cmds'[i].digest = SentDigest'
               \/ agent'.mode = "awaiting_rect_ack"
    <3>1. cmds'[i] = cmds[i + 1] /\ i + 1 \in 1..Len(cmds)  BY <2>3
    <3>2. \/ /\ agent.mode = "awaiting_ack" /\ wire = <<>>
             /\ cmds[i + 1].kind = "commit" /\ i + 1 = Len(cmds)
             /\ cmds[i + 1].frame = agent.snapFrame /\ cmds[i + 1].digest = SentDigest
          \/ agent.mode = "awaiting_rect_ack"
      BY <2>1, <2>5, <3>1 DEF OwnInv, OwnCmds
    <3>3. SentDigest' = SentDigest  BY DEF SentDigest
    <3> QED  BY <2>2, <3>1, <3>2, <3>3
  <2> QED  BY <2>4, <2>5 DEF OwnInv, OwnCmds
<1>7. cmds' # <<>> => SameUpload(cmds[1], cmds[2])
  <2>1. cmds' # <<>> => 1 \in 1..(Len(cmds) - 1) /\ 1 + 1 = 2  BY <1>1
  <2> QED  BY <1>2, <2>1 DEF CmdsInv
<1>8. agent.epoch # 1  BY DEF SafetyInv, Begun
<1>9. \A a : AckRight(a) => AckRight(a)'
  <2> SUFFICES ASSUME NEW a, AckRight(a) PROVE AckRight(a)'  OBVIOUS
  <2>1. ~SnapDone /\ ~RectDone  BY DEF SnapDone, RectDone
  <2> QED  BY <2>1 DEF AckRight, SentDigest
<1>10. CmdRight(cmds[1])  BY <1>1, <1>2 DEF CmdsInv
<1> QED  BY <1>1, <1>5, <1>6, <1>7, <1>8, <1>9, <1>10

\* The compositor's state keeps its type under each change of it.
LEMMA EnteredType ==
  ASSUME NEW rep \in {"video", "snapshot", "rect"}, NEW e \in Nat, compositor \in CompositorState
  PROVE  /\ Entered(rep, e) \in CompositorState
         /\ Entered(rep, e).frame = compositor.frame
         /\ Entered(rep, e).quality = compositor.quality
         /\ Entered(rep, e).picture = compositor.picture
         /\ Entered(rep, e).upload = compositor.upload
         /\ Entered(rep, e).epoch \in Nat /\ Entered(rep, e).epoch >= compositor.epoch
<1>1. /\ Entered(rep, e) \in CompositorState
      /\ Entered(rep, e).frame = compositor.frame
      /\ Entered(rep, e).quality = compositor.quality
      /\ Entered(rep, e).picture = compositor.picture
      /\ Entered(rep, e).upload = compositor.upload
  BY DEF Entered, CompositorState
<1>2. CASE CanEnter(rep, e)
  <2>1. Entered(rep, e).epoch = e  BY <1>2 DEF Entered, CompositorState
  <2>2. e >= compositor.epoch  BY <1>2 DEF CanEnter
  <2> QED  BY <1>1, <2>1, <2>2
<1>3. CASE ~CanEnter(rep, e)
  <2>1. Entered(rep, e) = compositor  BY <1>3 DEF Entered
  <2>2. compositor.epoch \in Nat  BY DEF CompositorState
  <2>3. Entered(rep, e).epoch \in Nat /\ Entered(rep, e).epoch >= compositor.epoch  BY <2>1, <2>2
  <2> QED  BY <1>1, <2>3
<1> QED  BY <1>2, <1>3

LEMMA UploadingType ==
  ASSUME NEW d \in CompositorState, NEW u \in Upload
  PROVE  /\ [d EXCEPT !.upload = u] \in CompositorState
         /\ [d EXCEPT !.upload = u].upload = u
         /\ [d EXCEPT !.upload = u].frame = d.frame
         /\ [d EXCEPT !.upload = u].quality = d.quality
         /\ [d EXCEPT !.upload = u].picture = d.picture
         /\ [d EXCEPT !.upload = u].epoch = d.epoch
BY DEF CompositorState

LEMMA ShowsType ==
  ASSUME NEW d \in CompositorState, NEW x \in Contents \cup {None, Garbled}, NEW l \in BOOLEAN
  PROVE  /\ Shows(d, x, l) \in CompositorState
         /\ Shows(d, x, l).picture.content = x /\ Shows(d, x, l).picture.lossy = l
         /\ Shows(d, x, l).frame = d.frame
         /\ Shows(d, x, l).quality = d.quality
         /\ Shows(d, x, l).upload = d.upload
BY DEF CompositorState, Shows, Picture

LEMMA ExactType ==
  ASSUME NEW d \in CompositorState, NEW f \in Nat
  PROVE  /\ Exact(d, f) \in CompositorState
         /\ Exact(d, f).picture = d.picture /\ Exact(d, f).upload = d.upload
         /\ Exact(d, f).frame = f /\ Exact(d, f).quality = "exact"
BY DEF CompositorState, Exact

LEMMA CompositorType ==
  ASSUME Shapes
  PROVE  /\ compositor \in CompositorState /\ compositor.upload \in Upload
         /\ compositor.picture.content \in Contents \cup {None, Garbled}
         /\ compositor.picture.lossy \in BOOLEAN
         /\ compositor.upload.active \in BOOLEAN /\ compositor.upload.parts \in Seq(Contents)
         /\ Idle \in Upload /\ ~Idle.active /\ Idle.parts = <<>>
<1>1. compositor \in CompositorState  BY DEF Shapes
<1>2. compositor.upload \in Upload /\ compositor.picture \in Picture
  BY <1>1 DEF CompositorState
<1> QED  BY <1>1, <1>2 DEF Upload, Picture, Idle

\* A command other than cancel at the head leaves no rectangle ahead but itself.
LEMMA HeadNotCancel ==
  ASSUME SafetyInv, cmds # <<>>, cmds[1].kind \notin {"cancel", "rect"}
  PROVE  /\ \A i \in 1..Len(wire) : wire[i].type # "rect"
         /\ reader.rect = NoRect
         /\ \A i \in 1..Len(cmds) : cmds[i].kind # "rect"
         /\ agent.mode \notin {"exact", "awaiting_rect_ack"}
<1>1. Len(cmds) \in Nat /\ Len(cmds) >= 1  BY SMTT(60) DEF SafetyInv, Shapes
<1>2. ~Unhurried  BY <1>1 DEF Unhurried
<1>3. RectAhead /\ BaseInv /\ StreamInv  BY DEF SafetyInv
<1>4. \A i \in 1..Len(cmds) : cmds[i].kind # "rect"  BY <1>3 DEF RectAhead
<1>5. agent.mode # "exact"  BY <1>2, <1>3 DEF BaseInv
<1>6. (\A i \in 1..Len(wire) : wire[i].type # "rect") /\ reader.rect = NoRect
  BY <1>2, <1>3 DEF RectAhead
<1>7. agent.mode # "awaiting_rect_ack"
  <2> SUFFICES ASSUME agent.mode = "awaiting_rect_ack" PROVE FALSE  OBVIOUS
  <2>1. wire # <<>>  BY <1>1, <1>3, <1>4 DEF BaseInv, TheRect
  <2>2. Transaction  BY <1>3 DEF StreamInv
  <2> QED  BY <1>6, <2>1, <2>2 DEF Transaction, OnWire
<1> QED  BY <1>4, <1>5, <1>6, <1>7

\* The part of the invariant about rectangles ahead holds when there are none.
LEMMA NoneAhead ==
  ASSUME \A i \in 1..Len(wire) : wire[i].type # "rect", reader.rect = NoRect,
         agent.mode \notin {"exact", "awaiting_rect_ack"},
         Len(cmds') \in Nat,
         \A i \in 1..Len(cmds') : cmds'[i].kind # "rect",
         UNCHANGED <<agent, wire, reader>>
  PROVE  RectAhead' /\ BaseInv'
BY DEF RectAhead, BaseInv

\* What a command leaves to be shown: the rest of the invariant is about
\* the queue without its head.
LEMMA CommandStep ==
  ASSUME SafetyInv, cmds # <<>>, cmds' = Tail(cmds),
         UNCHANGED <<shot, analyzed, encoder, agent, inbox, wire, reader, slot, fault>>,
         compositor' \in CompositorState, ctl' \in Seq(Acks \cup Requests),
         budget' \in [repeats: Nat, timeouts: Nat, faults: Nat],
         UploadInv', RectAhead', BaseInv', ShownInv', AckInv'
  PROVE  SafetyInv'
<1>1. Plan' /\ WireInv' /\ ReaderInv' /\ StreamInv' /\ EncoderInv'
  BY UpstreamKept
<1>2. CmdsInv' /\ OwnInv' /\ agent.epoch # 1 /\ cmds' \in Seq(Commands)
  BY Popped
<1>3. Shapes'  BY <1>2 DEF SafetyInv, Shapes
<1>4. Begun'  BY <1>2 DEF SafetyInv, Begun
<1>5. SlotInv' /\ Running'  BY DEF SafetyInv, SlotInv, Running
<1> QED  BY <1>1, <1>2, <1>3, <1>4, <1>5 DEF SafetyInv

\* Acknowledgements under way stay right where each of them does.
LEMMA AcksRequested ==
  ASSUME AckInv, ctl \in Seq(Acks \cup Requests), inbox' = inbox,
         \A a : AckRight(a) => AckRight(a)',
         NEW a \in Acks \cup Requests, ctl' = Append(ctl, a), a.type = "ack" => AckRight(a)'
  PROVE  AckInv' /\ ctl' \in Seq(Acks \cup Requests)
<1>1. AckRight(inbox.ack)'
  <2>1. \A x : x = inbox.ack => AckRight(x)'  BY DEF AckInv
  <2> QED  BY <2>1 DEF AckRight
<1>2. /\ ctl' \in Seq(Acks \cup Requests) /\ Len(ctl') = Len(ctl) + 1 /\ Len(ctl) \in Nat
      /\ \A i \in 1..Len(ctl) : ctl'[i] = ctl[i]
      /\ ctl'[Len(ctl) + 1] = a
  BY AppendOf
<1>3. ASSUME NEW i \in 1..Len(ctl'), ctl'[i].type = "ack" PROVE AckRight(ctl[i])'
  <2>1. CASE i \in 1..Len(ctl)
    <3>1. ctl'[i] = ctl[i] /\ AckRight(ctl[i])  BY <1>2, <1>3, <2>1 DEF AckInv
    <3>2. \A x : x = ctl[i] => AckRight(x)'  BY <3>1
    <3>3. \A x : x = ctl'[i] => AckRight(x)'  BY <3>1, <3>2
    <3> QED  BY <3>3 DEF AckRight
  <2>2. CASE i = Len(ctl) + 1
    <3>1. \A x : x = ctl'[i] => AckRight(x)'  BY <1>2, <1>3, <2>2
    <3> QED  BY <3>1 DEF AckRight
  <2> QED  BY <1>2, <2>1, <2>2
<1> QED  BY <1>1, <1>2, <1>3 DEF AckInv

\* Acknowledgements stay right when none is sent or received,
LEMMA AcksUnchanged ==
  ASSUME AckInv, inbox' = inbox, ctl' = ctl, \A a : AckRight(a) => AckRight(a)'
  PROVE  AckInv'
<1>1. \A x : x = inbox.ack => AckRight(x)'  BY DEF AckInv
<1>2. AckRight(inbox.ack)'  BY <1>1 DEF AckRight
<1>3. ASSUME NEW i \in 1..Len(ctl'), ctl'[i].type = "ack" PROVE AckRight(ctl[i])'
  <2>1. \A x : x = ctl'[i] => AckRight(x)'  BY <1>3 DEF AckInv
  <2> QED  BY <2>1 DEF AckRight
<1> QED  BY <1>2, <1>3 DEF AckInv

\* and when the compositor answers a command.
LEMMA AcksKept ==
  ASSUME SafetyInv, cmds # <<>>, cmds' = Tail(cmds),
         UNCHANGED <<shot, agent, inbox, wire, reader>>,
         \/ ctl' = ctl
         \/ ctl' = Append(ctl, Request)
         \/ \E a \in Acks : ctl' = Append(ctl, a) /\ AckRight(a)'
  PROVE  AckInv' /\ ctl' \in Seq(Acks \cup Requests)
<1>1. \A a : AckRight(a) => AckRight(a)'  BY Popped
<1>2. AckInv /\ ctl \in Seq(Acks \cup Requests)  BY DEF SafetyInv, Shapes
<1>3. CASE ctl' = ctl  BY <1>1, <1>2, <1>3, AcksUnchanged
<1>4. CASE ctl' = Append(ctl, Request)
  <2>1. Request \in Acks \cup Requests /\ Request.type # "ack"  BY RequestType
  <2> QED  BY <1>1, <1>2, <1>4, <2>1, AcksRequested
<1>5. CASE \E a \in Acks : ctl' = Append(ctl, a) /\ AckRight(a)'
  BY <1>1, <1>2, <1>5, AcksRequested
<1> QED  BY <1>3, <1>4, <1>5

LEMMA BeginsInv == ASSUME SafetyInv, CompositorBegins PROVE SafetyInv'
<1>0. /\ cmds # <<>> /\ Head(cmds).kind = "begin" /\ cmds' = Tail(cmds)
      /\ UNCHANGED <<shot, analyzed, encoder, agent, inbox, wire, reader, slot, ctl, budget, fault>>
  BY DEF CompositorBegins, Runs, sourceVars, agentVars, limitVars
<1>1. Shapes  BY DEF SafetyInv
<1>2. /\ CmdsInv
      /\ cmds[1] \in Commands /\ Head(cmds) = cmds[1] /\ Len(cmds) \in Nat
      /\ Len(cmds') \in Nat
      /\ \A i \in 1..Len(cmds') : cmds'[i] = cmds[i + 1] /\ i + 1 \in 1..Len(cmds)
      /\ cmds' = <<>> <=> Len(cmds) = 1
  BY <1>0, Popped DEF SafetyInv
<1>3. cmds[1].kind = "begin" /\ cmds[1].epoch \in Nat  BY <1>0, <1>2, CommandFields
<1>4. \E u \in Upload : /\ compositor' = [Entered("snapshot", cmds[1].epoch) EXCEPT !.upload = u]
                        /\ u.parts = <<>>
  <2>1. [active |-> TRUE, parts |-> <<>>] \in Upload /\ Idle \in Upload /\ Idle.parts = <<>>
    BY DEF Upload, Idle
  <2> QED  BY <1>2, <2>1 DEF CompositorBegins
<1>5. /\ compositor' \in CompositorState
      /\ compositor'.frame = compositor.frame
      /\ compositor'.picture = compositor.picture /\ compositor'.upload.parts = <<>>
  BY <1>1, <1>3, <1>4, CompositorType, EnteredType, UploadingType
<1>6. UploadInv'
  <2>1. cmds' # <<>>  BY <1>2, <1>3 DEF CmdsInv
  <2> QED  BY <1>5, <2>1 DEF UploadInv
<1>7. RectAhead' /\ BaseInv'
  <2>1. cmds[1].kind \notin {"cancel", "rect"}  BY <1>3
  <2>2. /\ \A i \in 1..Len(wire) : wire[i].type # "rect"
        /\ reader.rect = NoRect
        /\ \A i \in 1..Len(cmds) : cmds[i].kind # "rect"
        /\ agent.mode \notin {"exact", "awaiting_rect_ack"}
    BY <1>0, <2>1, HeadNotCancel
  <2>3. \A i \in 1..Len(cmds') : cmds'[i].kind # "rect"  BY <1>2, <2>2
  <2> QED  BY <1>0, <1>2, <2>2, <2>3, NoneAhead
<1>8. AckInv'  BY <1>0, AcksKept
<1>9. ShownInv'  BY <1>0, <1>5 DEF SafetyInv, ShownInv
<1>10. ctl' \in Seq(Acks \cup Requests) /\ budget' \in [repeats: Nat, timeouts: Nat, faults: Nat]
  BY <1>0, <1>1 DEF Shapes
<1> QED  BY <1>0, <1>5, <1>6, <1>7, <1>8, <1>9, <1>10, CommandStep

LEMMA UploadsInv == ASSUME SafetyInv, CompositorUploads PROVE SafetyInv'
<1>0. /\ cmds # <<>> /\ Head(cmds).kind = "chunk" /\ cmds' = Tail(cmds)
      /\ UNCHANGED <<shot, analyzed, encoder, agent, inbox, wire, reader, slot, ctl, budget, fault>>
  BY DEF CompositorUploads, Runs, sourceVars, agentVars, limitVars
<1>1. Shapes /\ CmdsInv /\ UploadInv  BY DEF SafetyInv
<1>2. /\ cmds[1] \in Commands /\ Head(cmds) = cmds[1] /\ CmdRight(cmds[1]) /\ Len(cmds) \in Nat
      /\ Len(cmds') \in Nat
      /\ \A i \in 1..Len(cmds') : cmds'[i] = cmds[i + 1] /\ i + 1 \in 1..Len(cmds)
      /\ cmds' = <<>> <=> Len(cmds) = 1
      /\ cmds' # <<>> => cmds'[1] = cmds[2] /\ SameUpload(cmds[1], cmds[2])
  BY <1>0, Popped
<1>3. /\ cmds[1].kind = "chunk" /\ cmds[1].content \in Contents /\ cmds[1].offset \in Nat
      /\ cmds[1].content = shot[cmds[1].frame]
  BY <1>0, <1>2, CommandFields DEF CmdRight
<1>4. \E u \in Upload : /\ compositor' = [compositor EXCEPT !.upload = u]
                        /\ u.active => /\ compositor.upload.active
                                       /\ u.parts = Append(compositor.upload.parts, cmds[1].content)
  <2>1. compositor.upload \in Upload /\ compositor.upload.parts \in Seq(Contents)
    BY <1>1, CompositorType
  <2>2. Append(compositor.upload.parts, cmds[1].content) \in Seq(Contents)
    BY <1>3, <2>1
  <2>3. Extended(compositor.upload, cmds[1].content) \in Upload
    BY <2>1, <2>2 DEF Upload, Extended
  <2>4. Idle \in Upload /\ ~Idle.active  BY DEF Idle, Upload
  <2>5. CASE PartAccepted(cmds[1])
    <3>1. compositor' = [compositor EXCEPT !.upload =
                           Extended(compositor.upload, cmds[1].content)]
      BY <1>2, <2>5 DEF CompositorUploads
    <3> QED  BY <2>1, <2>3, <2>5, <3>1 DEF PartAccepted, Upload, Extended
  <2>6. CASE ~PartAccepted(cmds[1])
    BY <1>2, <2>4, <2>6 DEF CompositorUploads
  <2> QED  BY <2>5, <2>6
<1>5. /\ compositor' \in CompositorState
      /\ compositor'.frame = compositor.frame
      /\ compositor'.picture = compositor.picture
      /\ compositor'.upload.active =>
           /\ compositor.upload.active
           /\ compositor'.upload.parts = Append(compositor.upload.parts, cmds[1].content)
  BY <1>1, <1>4, CompositorType, UploadingType
<1>6. UploadInv'
  <2> SUFFICES ASSUME compositor'.upload.active PROVE UploadInv'  BY DEF UploadInv
  <2>1. \A i \in 1..Len(compositor.upload.parts) :
          compositor.upload.parts[i] = shot[cmds[1].frame]
    BY <1>0, <1>1, <1>3, <1>5 DEF UploadInv
  <2>2. compositor.upload.parts \in Seq(Contents)
    BY <1>1, CompositorType
  <2>3. \A i \in 1..Len(compositor'.upload.parts) :
          compositor'.upload.parts[i] = shot[cmds[1].frame]
    BY SMTT(60), <1>3, <1>5, <2>1, <2>2, AppendOf
  <2>4. CASE cmds' = <<>>
    <3>1. reader.snap # NoSnap /\ reader.snap.frame = cmds[1].frame
      BY <1>0, <1>1, <1>2, <1>3, <2>4 DEF CmdsInv
    <3> QED  BY <1>0, <2>3, <2>4, <3>1 DEF UploadInv
  <2>5. CASE cmds' # <<>>
    <3>1. cmds'[1].kind \in {"chunk", "commit"} => cmds'[1].frame = cmds[1].frame
      BY <1>2, <2>5 DEF SameUpload
    <3> QED  BY <1>0, <2>3, <2>5, <3>1 DEF UploadInv
  <2> QED  BY <2>4, <2>5
<1>7. RectAhead' /\ BaseInv'
  <2>1. cmds[1].kind \notin {"cancel", "rect"}  BY <1>3
  <2>2. /\ \A i \in 1..Len(wire) : wire[i].type # "rect"
        /\ reader.rect = NoRect
        /\ \A i \in 1..Len(cmds) : cmds[i].kind # "rect"
        /\ agent.mode \notin {"exact", "awaiting_rect_ack"}
    BY <1>0, <2>1, HeadNotCancel
  <2>3. \A i \in 1..Len(cmds') : cmds'[i].kind # "rect"  BY <1>2, <2>2
  <2> QED  BY <1>0, <1>2, <2>2, <2>3, NoneAhead
<1>8. AckInv'  BY <1>0, AcksKept
<1>9. ShownInv'  BY <1>0, <1>5 DEF SafetyInv, ShownInv
<1>10. ctl' \in Seq(Acks \cup Requests) /\ budget' \in [repeats: Nat, timeouts: Nat, faults: Nat]
  BY <1>0, <1>1 DEF Shapes
<1> QED  BY <1>0, <1>5, <1>6, <1>7, <1>8, <1>9, <1>10, CommandStep

LEMMA BudgetType ==
  ASSUME budget \in [repeats: Nat, timeouts: Nat, faults: Nat],
         PresentFails
  PROVE  budget' \in [repeats: Nat, timeouts: Nat, faults: Nat]
BY DEF PresentFails

LEMMA AckType ==
  ASSUME NEW e \in Nat, NEW f \in Nat, NEW d \in Digests
  PROVE  /\ Ack(e, f, d) \in Acks /\ Ack(e, f, d).type = "ack"
         /\ Ack(e, f, d).epoch = e /\ Ack(e, f, d).frame = f /\ Ack(e, f, d).digest = d
BY DEF Ack, Acks

\* An upload that is complete shows the one frame its parts are of.
LEMMA WholeOf ==
  ASSUME NEW parts \in Seq(Contents), NEW v, Len(parts) = Chunks,
         \A i \in 1..Len(parts) : parts[i] = v
  PROVE  Whole(parts) = v /\ v \in Contents
<1>1. Len(parts) \in Nat /\ Len(parts) >= 1  BY VisualAssumption
<1>2. parts # <<>> /\ DOMAIN parts = 1..Len(parts) /\ 1 \in 1..Len(parts)  BY <1>1
<1>3. parts[1] \in Contents  BY <1>2
<1> QED  BY <1>2, <1>3 DEF Whole

\* A commit shows the snapshot the reader completed, and acknowledges the agent's
\* own epoch only while the agent waits for just that.
LEMMA CommitsInv == ASSUME SafetyInv, CompositorCommits PROVE SafetyInv'
<1>0. /\ cmds # <<>> /\ Head(cmds).kind = "commit" /\ cmds' = Tail(cmds)
      /\ UNCHANGED <<shot, analyzed, encoder, agent, inbox, wire, reader, slot, fault>>
  BY DEF CompositorCommits, Runs, sourceVars, agentVars
<1>1. Shapes /\ CmdsInv /\ UploadInv /\ OwnInv /\ ShownInv  BY DEF SafetyInv
<1>2. /\ cmds[1] \in Commands /\ Head(cmds) = cmds[1] /\ CmdRight(cmds[1]) /\ Len(cmds) \in Nat
      /\ Len(cmds') \in Nat
      /\ \A i \in 1..Len(cmds') : cmds'[i] = cmds[i + 1] /\ i + 1 \in 1..Len(cmds)
      /\ cmds' = <<>> <=> Len(cmds) = 1
  BY <1>0, Popped
<1> DEFINE m == cmds[1]
           idle == [compositor EXCEPT !.upload = Idle]
           swapped == Shows(idle, Whole(compositor.upload.parts), FALSE)
<1>3. /\ m.kind = "commit" /\ m.epoch \in 1..agent.epoch /\ m.frame \in 1..Len(shot)
      /\ m.digest \in Digests /\ m.frame \in Nat /\ m.epoch \in Nat
  BY <1>0, <1>2, CommandFields DEF CmdRight
<1>4. /\ idle \in CompositorState /\ idle.upload = Idle /\ ~Idle.active /\ Idle \in Upload
      /\ idle.frame = compositor.frame /\ idle.picture = compositor.picture
  BY <1>1, CompositorType, UploadingType
<1>5. ASSUME SnapshotAccepted(m)
      PROVE  /\ Whole(compositor.upload.parts) = shot[m.frame] /\ shot[m.frame] \in Contents
             /\ swapped \in CompositorState /\ ~swapped.upload.active
             /\ swapped.picture.content = shot[m.frame] /\ ~swapped.picture.lossy
             /\ swapped.frame = compositor.frame
             /\ Exact(swapped, m.frame) \in CompositorState
             /\ ~Exact(swapped, m.frame).upload.active
             /\ Exact(swapped, m.frame).picture.content = shot[m.frame]
             /\ ~Exact(swapped, m.frame).picture.lossy
             /\ Exact(swapped, m.frame).frame = m.frame
             /\ Exact(swapped, m.frame).quality = "exact"
  <2>1. /\ compositor.upload.active /\ Len(compositor.upload.parts) = Chunks
        /\ compositor.upload.parts \in Seq(Contents)
    BY <1>1, <1>5, CompositorType DEF SnapshotAccepted
  <2>2. \A i \in 1..Len(compositor.upload.parts) :
          compositor.upload.parts[i] = shot[m.frame]
    BY <1>0, <1>1, <1>3, <2>1 DEF UploadInv
  <2>3. Whole(compositor.upload.parts) = shot[m.frame] /\ shot[m.frame] \in Contents
    BY <2>1, <2>2, WholeOf
  <2> HIDE DEF idle
  <2>4. /\ swapped \in CompositorState /\ swapped.upload = Idle
        /\ swapped.picture.content = shot[m.frame] /\ ~swapped.picture.lossy
        /\ swapped.frame = compositor.frame
    <3>1. Whole(compositor.upload.parts) \in Contents \cup {None, Garbled}  BY <2>3
    <3> QED  BY <1>4, <2>3, <3>1, ShowsType
  <2> HIDE DEF swapped
  <2> QED  BY <1>3, <1>4, <2>3, <2>4, ExactType
<1>6. \/ compositor' = idle /\ ctl' = ctl /\ budget' = budget
      \/ /\ SnapshotAccepted(m) /\ compositor' = Exact(swapped, m.frame)
         /\ ctl' = Append(ctl, Ack(m.epoch, m.frame, m.digest)) /\ budget' = budget
      \/ SnapshotAccepted(m) /\ compositor' = swapped /\ ctl' = ctl /\ PresentFails
  BY <1>2 DEF CompositorCommits
<1> HIDE DEF idle, swapped
<1>7. compositor' \in CompositorState /\ ~compositor'.upload.active /\ ShownInv'
  <2>1. \A f \in 1..Len(shot) : f <= Len(shot)  OBVIOUS
  <2>3. CASE compositor' = idle
    BY <1>0, <1>1, <1>4, <2>3 DEF ShownInv
  <2>4. CASE SnapshotAccepted(m) /\ compositor' = Exact(swapped, m.frame)
    BY <1>0, <1>3, <1>5, <2>1, <2>4, VisualAssumption DEF ShownInv
  <2>5. CASE SnapshotAccepted(m) /\ compositor' = swapped
    BY <1>0, <1>1, <1>5, <2>5, VisualAssumption DEF ShownInv
  <2> QED  BY <1>6, <2>3, <2>4, <2>5
<1>8. budget' \in [repeats: Nat, timeouts: Nat, faults: Nat]
  <2>1. budget \in [repeats: Nat, timeouts: Nat, faults: Nat]  BY <1>1 DEF Shapes
  <2>2. CASE PresentFails  BY <2>1, <2>2, BudgetType
  <2> QED  BY <1>6, <2>1, <2>2
<1>9. UploadInv'  BY <1>7 DEF UploadInv
<1>10. /\ \A i \in 1..Len(wire) : wire[i].type # "rect"
       /\ reader.rect = NoRect
       /\ \A i \in 1..Len(cmds) : cmds[i].kind # "rect"
       /\ agent.mode \notin {"exact", "awaiting_rect_ack"}
  <2>1. cmds[1].kind \notin {"cancel", "rect"}  BY <1>3
  <2> QED  BY <1>0, <2>1, HeadNotCancel
<1>11. RectAhead' /\ BaseInv'
  <2>3. \A i \in 1..Len(cmds') : cmds'[i].kind # "rect"  BY <1>2, <1>10
  <2> QED  BY <1>0, <1>2, <1>10, <2>3, NoneAhead
<1>12. AckInv' /\ ctl' \in Seq(Acks \cup Requests)
  <2>1. CASE ctl' = ctl  BY <1>0, <2>1, AcksKept
  <2>2. CASE /\ SnapshotAccepted(m) /\ compositor' = Exact(swapped, m.frame)
             /\ ctl' = Append(ctl, Ack(m.epoch, m.frame, m.digest))
    <3>1. PICK a \in Acks : /\ a = Ack(m.epoch, m.frame, m.digest)
                            /\ a.epoch = m.epoch /\ a.frame = m.frame /\ a.digest = m.digest
      BY <1>3, AckType
    <3>2. ASSUME m.epoch = agent.epoch
          PROVE  /\ agent.mode = "awaiting_ack" /\ m.frame = agent.snapFrame
                 /\ m.digest = SentDigest /\ SnapDone'
      <4>1. /\ agent.mode = "awaiting_ack" /\ wire = <<>> /\ 1 = Len(cmds)
            /\ m.frame = agent.snapFrame /\ m.digest = SentDigest
        BY <1>1, <1>2, <1>3, <1>10, <3>2 DEF OwnInv, OwnWire, OwnCmds
      <4>2. AtBase(agent.snapFrame)'
        BY <1>0, <1>5, <2>2, <4>1 DEF AtBase
      <4> QED  BY <1>0, <1>2, <4>1, <4>2 DEF SnapDone
    <3>3. AckRight(a)'
      <4>1. m.epoch <= agent.epoch  BY <1>3
      <4>2. SentDigest' = SentDigest  BY <1>0 DEF SentDigest
      <4>3. a.epoch = m.epoch /\ a.frame = m.frame /\ a.digest = m.digest  BY <3>1
      <4>4. agent' = agent  BY <1>0
      <4> HIDE DEF m
      <4>5. CASE m.epoch = agent.epoch
        BY <3>2, <4>1, <4>2, <4>3, <4>4, <4>5 DEF AckRight
      <4>6. CASE m.epoch # agent.epoch
        BY <4>1, <4>3, <4>4, <4>6 DEF AckRight
      <4> QED  BY <4>5, <4>6
    <3>4. ctl' = Append(ctl, a)  BY <2>2, <3>1
    <3> QED  BY <1>0, <3>3, <3>4, AcksKept
  <2> QED  BY <1>6, <2>1, <2>2
<1> QED  BY <1>0, <1>7, <1>8, <1>9, <1>11, <1>12, CommandStep

LEMMA CancelsInv == ASSUME SafetyInv, CompositorCancels PROVE SafetyInv'
<1>0. /\ cmds # <<>> /\ Head(cmds).kind = "cancel" /\ cmds' = Tail(cmds)
      /\ compositor' = [compositor EXCEPT !.upload = Idle]
      /\ UNCHANGED <<shot, analyzed, encoder, agent, inbox, wire, reader, slot, ctl, budget, fault>>
  BY DEF CompositorCancels, Runs, sourceVars, agentVars, limitVars
<1>1. Shapes /\ RectAhead /\ BaseInv /\ ShownInv  BY DEF SafetyInv
<1>2. /\ cmds[1] \in Commands /\ Head(cmds) = cmds[1] /\ Len(cmds) \in Nat
      /\ Len(cmds') = Len(cmds) - 1
      /\ \A i \in 1..Len(cmds') : cmds'[i] = cmds[i + 1] /\ i + 1 \in 1..Len(cmds)
      /\ cmds' = <<>> <=> Len(cmds) = 1
  BY <1>0, Popped
<1>3. /\ compositor' \in CompositorState /\ ~compositor'.upload.active
      /\ compositor'.frame = compositor.frame /\ compositor'.quality = compositor.quality
      /\ compositor'.picture = compositor.picture
  BY <1>0, <1>1, CompositorType, UploadingType
<1>4. UploadInv'  BY <1>3 DEF UploadInv
<1>5. Unhurried => cmds' = <<>> /\ Unhurried'
  BY <1>2 DEF Unhurried
<1>6. \A b : AtBase(b) => AtBase(b)'
  BY <1>0, <1>3 DEF AtBase
<1>7. RectAhead'
  <2>1. \A i \in 1..Len(wire) : wire[i].type = "rect" =>
          /\ AtBase(wire[i].base)'
          /\ Unhurried' /\ cmds' = <<>>
    BY <1>0, <1>1, <1>3, <1>5 DEF RectAhead, AtBase
  <2>2. reader.rect # NoRect => AtBase(reader.rect.base)' /\ Unhurried'
    BY <1>0, <1>1, <1>3, <1>5 DEF RectAhead, AtBase
  <2>3. \A i \in 1..Len(cmds') : cmds'[i].kind = "rect" => AtBase(cmds[i].base)' /\ i = 1
    BY <1>0, <1>1, <1>2, <1>3 DEF RectAhead, AtBase
  <2> QED  BY <1>0, <2>1, <2>2, <2>3 DEF RectAhead
<1>8. BaseInv'
  <2>1. agent'.mode = "exact" =>
          AtBase(agent.exactFrame)' /\ Unhurried' /\ (wire' # <<>> => cmds' = <<>>)
    BY <1>0, <1>1, <1>3, <1>5 DEF BaseInv, AtBase
  <2>2. ASSUME agent.mode = "awaiting_rect_ack", wire = <<>>
        PROVE  Len(cmds') = 1 /\ TheRect(cmds'[1])
    <3>1. cmds[1].kind # "rect"  BY <1>0, <1>2
    <3>2. Len(cmds) = 2 /\ TheRect(cmds[2])  BY <1>0, <1>1, <2>2, <3>1 DEF BaseInv, TheRect
    <3> QED  BY <1>2, <3>2
  <2> QED  BY <1>0, <2>1, <2>2 DEF BaseInv, TheRect, OurRect
<1>9. AckInv' /\ ctl' \in Seq(Acks \cup Requests)  BY <1>0, AcksKept
<1>10. ShownInv'  BY <1>0, <1>1, <1>3 DEF ShownInv
<1>11. budget' \in [repeats: Nat, timeouts: Nat, faults: Nat]
  BY <1>0, <1>1 DEF Shapes
<1> QED  BY <1>0, <1>3, <1>4, <1>7, <1>8, <1>9, <1>10, <1>11, CommandStep

\* A rectangle finds its base on the screen: RectAhead is what makes it fit.
LEMMA PatchesInv == ASSUME SafetyInv, CompositorPatches PROVE SafetyInv'
<1>0. /\ cmds # <<>> /\ Head(cmds).kind = "rect" /\ cmds' = Tail(cmds)
      /\ UNCHANGED <<shot, analyzed, encoder, agent, inbox, wire, reader, slot, fault>>
  BY DEF CompositorPatches, Runs, sourceVars, agentVars
<1>1. Shapes /\ OwnInv /\ RectAhead /\ BaseInv /\ ShownInv /\ StreamInv /\ Plan
  BY DEF SafetyInv
<1>2. /\ cmds[1] \in Commands /\ Head(cmds) = cmds[1] /\ CmdRight(cmds[1]) /\ Len(cmds) \in Nat
      /\ Len(cmds') = Len(cmds) - 1
      /\ \A i \in 1..Len(cmds') : cmds'[i] = cmds[i + 1] /\ i + 1 \in 1..Len(cmds)
      /\ cmds' = <<>> <=> Len(cmds) = 1
  BY <1>0, Popped
<1> DEFINE m == cmds[1]
           entered == [Entered("rect", m.epoch) EXCEPT
                         !.upload = IF RectAccepted(m) THEN @ ELSE Idle]
           drawn == Patch(compositor.picture.content, m.from, m.to)
           swapped == Shows(entered, drawn, compositor.picture.lossy)
<1>3. /\ m.kind = "rect" /\ m.epoch \in 1..agent.epoch /\ m.frame \in 1..Len(shot)
      /\ m.base \in 1..Len(shot) /\ m.base < m.frame
      /\ m.from = shot[m.base] /\ m.to = shot[m.frame] /\ m.to \in Contents
      /\ m.digest \in Digests /\ m.frame \in Nat /\ m.epoch \in Nat
  BY <1>0, <1>2, CommandFields DEF CmdRight
<1>4. /\ compositor.quality = "exact" /\ compositor.frame = m.base
      /\ compositor.picture.content = shot[m.base] /\ ~compositor.picture.lossy
      /\ ~compositor.upload.active
  BY <1>1, <1>2, <1>3 DEF RectAhead, AtBase
<1>5. drawn = shot[m.frame] /\ drawn \in Contents \cup {None, Garbled}
  BY <1>3, <1>4 DEF Patch
<1>6. /\ entered \in CompositorState /\ ~entered.upload.active
      /\ entered.frame = m.base /\ entered.quality = "exact"
      /\ entered.picture = compositor.picture
  BY <1>1, <1>3, <1>4, CompositorType, EnteredType, UploadingType
<1> HIDE DEF entered
<1>7. /\ swapped \in CompositorState /\ ~swapped.upload.active
      /\ swapped.frame = m.base /\ swapped.quality = "exact"
      /\ swapped.picture.content = shot[m.frame] /\ ~swapped.picture.lossy
  <2>1. compositor.picture.lossy \in BOOLEAN  BY <1>1, CompositorType
  <2> QED  BY <1>4, <1>5, <1>6, <2>1, ShowsType
<1> HIDE DEF swapped
<1>8. /\ Exact(swapped, m.frame) \in CompositorState /\ ~Exact(swapped, m.frame).upload.active
      /\ Exact(swapped, m.frame).frame = m.frame /\ Exact(swapped, m.frame).quality = "exact"
      /\ Exact(swapped, m.frame).picture.content = shot[m.frame]
      /\ ~Exact(swapped, m.frame).picture.lossy
  BY <1>3, <1>7, ExactType
<1>9. \/ compositor' = entered /\ ctl' = Append(ctl, Request) /\ budget' = budget
      \/ /\ RectAccepted(m) /\ compositor' = Exact(swapped, m.frame)
         /\ ctl' = Append(ctl, Ack(m.epoch, m.frame, m.digest)) /\ budget' = budget
      \/ /\ compositor' = [swapped EXCEPT !.upload = Idle]
         /\ ctl' = Append(ctl, Request) /\ PresentFails
  BY <1>2 DEF CompositorPatches, entered, swapped
<1>10. /\ [swapped EXCEPT !.upload = Idle] \in CompositorState
       /\ ~[swapped EXCEPT !.upload = Idle].upload.active
       /\ [swapped EXCEPT !.upload = Idle].frame = m.base
       /\ [swapped EXCEPT !.upload = Idle].quality = "exact"
       /\ [swapped EXCEPT !.upload = Idle].picture.content = shot[m.frame]
       /\ ~[swapped EXCEPT !.upload = Idle].picture.lossy
  BY <1>1, <1>7, CompositorType, UploadingType
<1>11. /\ compositor' \in CompositorState /\ ~compositor'.upload.active
       /\ compositor'.quality = "exact" /\ ~compositor'.picture.lossy
       /\ \/ compositor'.frame = m.base /\ compositor'.picture.content \in {shot[m.base], shot[m.frame]}
          \/ compositor'.frame = m.frame /\ compositor'.picture.content = shot[m.frame]
  BY <1>4, <1>6, <1>7, <1>8, <1>9, <1>10
<1>12. budget' \in [repeats: Nat, timeouts: Nat, faults: Nat]
  <2>1. budget \in [repeats: Nat, timeouts: Nat, faults: Nat]  BY <1>1 DEF Shapes
  <2>2. CASE PresentFails  BY <2>1, <2>2, BudgetType
  <2> QED  BY <1>9, <2>1, <2>2
<1>13. UploadInv'  BY <1>11 DEF UploadInv
<1>14. ShownInv'
  <2>1. shot \in Seq(Contents) /\ Len(shot) \in Nat  BY <1>1 DEF Shapes
  <2>2. shot[m.base] \in Contents /\ shot[m.frame] \in Contents  BY <1>3, <2>1
  <2>3. m.base <= Len(shot) /\ m.frame <= Len(shot)  BY <1>3, <2>1
  <2> HIDE DEF m
  <2> QED  BY <1>0, <1>11, <2>2, <2>3, VisualAssumption DEF ShownInv
<1>15. ~Unhurried  BY <1>2, <1>3 DEF Unhurried
<1>16. /\ \A i \in 1..Len(wire) : wire[i].type # "rect"
       /\ reader.rect = NoRect /\ agent.mode # "exact"
       /\ \A i \in 2..Len(cmds) : cmds[i].kind # "rect"
  BY SMTT(60), <1>1, <1>2, <1>3, <1>15 DEF RectAhead, BaseInv
<1>17. ASSUME agent.mode = "awaiting_rect_ack"
       PROVE  /\ wire = <<>> /\ Len(cmds) = 1 /\ TheRect(m)
  <2>1. Transaction  BY <1>1, <1>17 DEF StreamInv
  <2>2. wire = <<>>  BY <1>16, <2>1 DEF Transaction, OnWire
  <2>3. ~(Len(cmds) = 2 /\ TheRect(cmds[2]))  BY <1>16 DEF TheRect
  <2> QED  BY <1>0, <1>1, <1>17, <2>2, <2>3 DEF BaseInv
<1>18. \A i \in 1..Len(cmds') : cmds'[i].kind # "rect"
  BY <1>2, <1>16
<1>19. RectAhead'
  BY <1>0, <1>16, <1>18 DEF RectAhead
<1>20. BaseInv'
  <2> SUFFICES ASSUME agent.mode = "awaiting_rect_ack" PROVE cmds' = <<>> /\ RectHandled'
    BY <1>0, <1>16 DEF BaseInv
  <2>1. Len(cmds) = 1 /\ m.base = agent.exactFrame /\ m.frame = agent.target
    BY <1>17 DEF TheRect, OurRect
  <2>2. m.base # m.frame  BY <1>3
  <2> HIDE DEF m
  <2> QED  BY <1>0, <1>2, <1>11, <2>1, <2>2 DEF RectHandled
<1>21. AckInv' /\ ctl' \in Seq(Acks \cup Requests)
  <2>1. CASE ctl' = Append(ctl, Request)  BY <1>0, <2>1, AcksKept
  <2>2. CASE /\ compositor' = Exact(swapped, m.frame)
             /\ ctl' = Append(ctl, Ack(m.epoch, m.frame, m.digest))
    <3>1. PICK a \in Acks : /\ a = Ack(m.epoch, m.frame, m.digest)
                            /\ a.epoch = m.epoch /\ a.frame = m.frame /\ a.digest = m.digest
      BY <1>3, AckType
    <3>2. ASSUME m.epoch = agent.epoch
          PROVE  /\ agent.mode = "awaiting_rect_ack" /\ m.frame = agent.target
                 /\ m.digest = agent.rectDigest /\ RectDone'
      <4>1. agent.mode = "awaiting_rect_ack"
        BY <1>1, <1>2, <1>3, <3>2 DEF OwnInv, OwnWire, OwnCmds
      <4>2. wire = <<>> /\ Len(cmds) = 1 /\ TheRect(m)  BY <1>17, <4>1
      <4>3. compositor'.frame = m.frame  BY <1>8, <2>2
      <4> QED  BY <1>0, <1>2, <4>1, <4>2, <4>3 DEF RectDone, TheRect, OurRect
    <3>3. AckRight(a)'
      <4>1. m.epoch <= agent.epoch  BY <1>3
      <4>3. a.epoch = m.epoch /\ a.frame = m.frame /\ a.digest = m.digest  BY <3>1
      <4>4. agent' = agent  BY <1>0
      <4> HIDE DEF m
      <4>5. CASE m.epoch = agent.epoch
        BY <3>2, <4>1, <4>3, <4>4, <4>5 DEF AckRight
      <4>6. CASE m.epoch # agent.epoch
        BY <4>1, <4>3, <4>4, <4>6 DEF AckRight
      <4> QED  BY <4>5, <4>6
    <3>4. ctl' = Append(ctl, a)  BY <2>2, <3>1
    <3> QED  BY <1>0, <3>3, <3>4, AcksKept
  <2> QED  BY <1>9, <2>1, <2>2
<1> QED  BY <1>0, <1>11, <1>12, <1>13, <1>14, <1>19, <1>20, <1>21, CommandStep

LEMMA ExpiresInv == ASSUME SafetyInv, CompositorExpires PROVE SafetyInv'
<1>0. /\ compositor.upload.active
      /\ budget' = [budget EXCEPT !.timeouts = @ + 1]
      /\ compositor' = [compositor EXCEPT !.upload = Idle]
      /\ ctl' = Append(ctl, Request)
      /\ UNCHANGED <<shot, analyzed, encoder, agent, inbox, wire, reader, cmds, slot, fault>>
  BY DEF CompositorExpires, sourceVars, agentVars
<1>1. /\ Shapes /\ CmdsInv /\ UploadInv /\ RectAhead /\ BaseInv /\ ShownInv /\ OwnInv /\ AckInv
      /\ Begun /\ ReaderInv
  BY DEF SafetyInv
<1>2. /\ compositor' \in CompositorState /\ ~compositor'.upload.active
      /\ compositor'.frame = compositor.frame /\ compositor'.quality = compositor.quality
      /\ compositor'.picture = compositor.picture
  BY <1>0, <1>1, CompositorType, UploadingType
<1>3. \A b : ~AtBase(b)  BY <1>0 DEF AtBase
<1>4. RectAhead'
  BY <1>0, <1>1, <1>3 DEF RectAhead
<1>5. BaseInv'
  <2>1. agent.mode # "exact"  BY <1>1, <1>3 DEF BaseInv
  <2>2. \A i \in 1..Len(cmds) : cmds[i].kind # "rect"  BY <1>1, <1>3 DEF RectAhead
  <2>3. ~RectHandled  BY <1>0 DEF RectHandled
  <2>4. ~(agent.mode = "awaiting_rect_ack" /\ wire = <<>>)
    BY <1>1, <2>2, <2>3 DEF BaseInv, TheRect
  <2> QED  BY <1>0, <2>1, <2>4 DEF BaseInv
<1>6. AckInv' /\ ctl' \in Seq(Acks \cup Requests)
  <2>1. \A a : AckRight(a) => AckRight(a)'
    <3> SUFFICES ASSUME NEW a, AckRight(a) PROVE AckRight(a)'  OBVIOUS
    <3>1. ~SnapDone /\ (RectDone => RectDone')  BY <1>0, <1>2, <1>3 DEF SnapDone, RectDone
    <3>2. SentDigest' = SentDigest  BY <1>0 DEF SentDigest
    <3> QED  BY <1>0, <3>1, <3>2 DEF AckRight
  <2>2. Request \in Acks \cup Requests /\ Request.type # "ack"  BY RequestType
  <2>3. ctl \in Seq(Acks \cup Requests)  BY <1>1 DEF Shapes
  <2> QED  BY <1>0, <1>1, <2>1, <2>2, <2>3, AcksRequested
<1>7. Begun'
  <2>1. agent.epoch # 1
    <3>1. CASE cmds # <<>>  BY <1>1, <3>1 DEF Begun
    <3>2. CASE cmds = <<>>
      <4>1. reader.snap # NoSnap  BY <1>0, <1>1, <3>2 DEF UploadInv
      <4>2. reader.resetEpoch >= 2 /\ reader.resetEpoch <= agent.epoch
        BY <1>1, <4>1 DEF ReaderInv
      <4>3. reader.resetEpoch \in Nat /\ agent.epoch \in Nat
        BY <1>1 DEF Shapes, ReaderState, AgentState
      <4> QED  BY <4>2, <4>3
    <3> QED  BY <3>1, <3>2
  <2> QED  BY <1>0, <1>1, <2>1 DEF Begun
<1>8. Plan' /\ WireInv' /\ ReaderInv' /\ StreamInv' /\ EncoderInv'  BY <1>0, UpstreamKept
<1>9. CmdsInv' /\ OwnInv'  BY <1>0, <1>1, CommandsKept
<1>10. UploadInv'  BY <1>2 DEF UploadInv
<1>11. SlotInv' /\ ShownInv' /\ Running'
  BY <1>0, <1>2 DEF SafetyInv, SlotInv, ShownInv, Running
<1>12. Shapes'
  <2>0. budget \in [repeats: Nat, timeouts: Nat, faults: Nat]  BY <1>1 DEF Shapes
  <2>1. budget' \in [repeats: Nat, timeouts: Nat, faults: Nat]  BY <1>0, <2>0
  <2> QED  BY <1>0, <1>1, <1>2, <1>6, <2>1 DEF Shapes
<1> QED  BY <1>4, <1>5, <1>6, <1>7, <1>8, <1>9, <1>10, <1>11, <1>12 DEF SafetyInv

\* While a decoded frame waits, the reader is at video: nothing exact is ahead.
LEMMA SlotExcludes ==
  ASSUME SafetyInv, reader.rep \notin {"snapshot", "rect"}
  PROVE  /\ \A i \in 1..Len(wire) : wire[i].type # "rect"
         /\ reader.rect = NoRect
         /\ agent.mode \notin {"exact", "awaiting_rect_ack"}
         /\ ~(agent.mode = "awaiting_ack" /\ wire = <<>>)
<1>1. WireInv /\ ReaderInv /\ StreamInv /\ wire \in Seq(Messages)  BY DEF SafetyInv, Shapes
<1>2. reader.rect = NoRect  BY <1>1 DEF ReaderInv
<1>3. \A i \in 1..Len(wire) : wire[i].type # "rect"
  <2> SUFFICES ASSUME NEW i \in 1..Len(wire), wire[i].type = "rect" PROVE FALSE  OBVIOUS
  <2>1. i = 1 \/ i = 2  BY <1>1 DEF WireInv
  <2>2. CASE i = 1
    <3>1. wire # <<>>  BY <1>1
    <3> QED  BY <1>1, <2>2, <3>1 DEF WireInv, Fits
  <2>3. CASE i = 2  BY <1>1, <2>3 DEF WireInv
  <2> QED  BY <2>1, <2>2, <2>3
<1>4. agent.mode # "exact"  BY <1>1 DEF StreamInv, AtExact
<1>5. agent.mode # "awaiting_rect_ack"
  <2> SUFFICES ASSUME agent.mode = "awaiting_rect_ack" PROVE FALSE  OBVIOUS
  <2>1. Transaction  BY <1>1 DEF StreamInv
  <2> QED  BY <1>2, <1>3, <2>1 DEF Transaction, OnWire
<1>6. ~(agent.mode = "awaiting_ack" /\ wire = <<>>)  BY <1>1 DEF StreamInv, Complete
<1> QED  BY <1>2, <1>3, <1>4, <1>5, <1>6

\* A frame of video is drawn only while no exact base is relied on.
LEMMA DrawsInv == ASSUME SafetyInv, CompositorDraws PROVE SafetyInv'
<1>0. /\ cmds = <<>> /\ slot # NoFrame /\ slot' = NoFrame
      /\ UNCHANGED <<shot, analyzed, encoder, agent, inbox, wire, reader, cmds, ctl, fault>>
  BY DEF CompositorDraws, sourceVars, agentVars
<1>1. /\ Shapes /\ CmdsInv /\ UploadInv /\ SlotInv /\ RectAhead /\ BaseInv /\ ShownInv
      /\ OwnInv /\ AckInv
  BY DEF SafetyInv
<1>2. slot.frame \in 1..Len(shot) /\ reader.rep = "video"  BY <1>0, <1>1 DEF SlotInv
<1>3. /\ slot.frame \in Nat /\ slot.epoch \in Nat
      /\ shot \in Seq(Contents) /\ shot[slot.frame] \in Contents /\ slot.frame <= Len(shot)
  BY SMTT(60), <1>1, <1>2 DEF Shapes, Encoded
<1>4. /\ \A i \in 1..Len(wire) : wire[i].type # "rect"
      /\ reader.rect = NoRect
      /\ agent.mode \notin {"exact", "awaiting_rect_ack"}
      /\ ~(agent.mode = "awaiting_ack" /\ wire = <<>>)
  BY <1>2, SlotExcludes
<1> DEFINE entered == IF Enters(slot) THEN Entered("video", slot.epoch) ELSE compositor
           swapped == Shows(entered, shot[slot.frame], TRUE)
<1>5. /\ entered \in CompositorState /\ entered.upload = compositor.upload
      /\ entered.frame = compositor.frame /\ entered.picture = compositor.picture
  BY <1>1, <1>3, CompositorType, EnteredType
<1>6. \/ compositor' = entered /\ budget' = budget
      \/ /\ compositor' \in {[swapped EXCEPT !.frame = slot.frame, !.quality = "lossy",
                                             !.lastVideo = slot.frame], swapped}
         /\ budget' = budget \/ PresentFails
  BY <1>0 DEF CompositorDraws
<1> HIDE DEF entered
<1>7. /\ swapped \in CompositorState /\ swapped.upload = compositor.upload
      /\ swapped.frame = compositor.frame /\ swapped.picture.content = shot[slot.frame]
  <2>1. shot[slot.frame] \in Contents \cup {None, Garbled} /\ TRUE \in BOOLEAN  BY <1>3
  <2> QED  BY <1>5, <2>1, ShowsType
<1> HIDE DEF swapped
<1> DEFINE drawn == [swapped EXCEPT !.frame = slot.frame, !.quality = "lossy", !.lastVideo = slot.frame]
<1>8. /\ drawn \in CompositorState /\ drawn.upload = compositor.upload
      /\ drawn.frame = slot.frame /\ drawn.picture.content = shot[slot.frame]
  BY <1>3, <1>7 DEF CompositorState
<1> HIDE DEF drawn
<1>9. /\ compositor' \in CompositorState /\ compositor'.upload = compositor.upload
      /\ compositor'.frame \in {compositor.frame, slot.frame}
      /\ compositor'.picture.content \in {compositor.picture.content, shot[slot.frame]}
  BY <1>5, <1>6, <1>7, <1>8 DEF drawn
<1>10. budget' \in [repeats: Nat, timeouts: Nat, faults: Nat]
  <2>1. budget \in [repeats: Nat, timeouts: Nat, faults: Nat]  BY <1>1 DEF Shapes
  <2>2. CASE PresentFails  BY <2>1, <2>2, BudgetType
  <2> QED  BY <1>6, <2>1, <2>2
<1>11. Plan' /\ WireInv' /\ ReaderInv' /\ StreamInv' /\ EncoderInv'  BY <1>0, UpstreamKept
<1>12. CmdsInv' /\ OwnInv'  BY <1>0, <1>1, CommandsKept
<1>13. UploadInv'  BY <1>0, <1>1, <1>9 DEF UploadInv
<1>14. SlotInv' /\ Running'  BY <1>0 DEF SafetyInv, SlotInv, Running
<1>15. ShownInv'  BY <1>0, <1>1, <1>3, <1>9, VisualAssumption DEF ShownInv
<1>16. RectAhead' /\ BaseInv'
  BY <1>0, <1>4 DEF RectAhead, BaseInv
<1>17. AckInv'
  <2>1. \A a : AckRight(a) => AckRight(a)'
    <3> SUFFICES ASSUME NEW a, AckRight(a) PROVE AckRight(a)'  OBVIOUS
    <3>1. agent.mode = "awaiting_ack" => ~SnapDone  BY <1>4 DEF SnapDone
    <3>2. SentDigest' = SentDigest  BY <1>0 DEF SentDigest
    <3> QED  BY <1>0, <1>4, <3>1, <3>2 DEF AckRight
  <2> QED  BY <1>0, <1>1, <2>1, AcksUnchanged
<1>18. Begun'  BY <1>0 DEF SafetyInv, Begun
<1>19. Shapes'  BY <1>0, <1>1, <1>9, <1>10, SlotNone DEF Shapes
<1> QED
  BY <1>11, <1>12, <1>13, <1>14, <1>15, <1>16, <1>17, <1>18, <1>19 DEF SafetyInv

-----------------------------------------------------------------------------
(* The reader's steps. *)

\* A step of the reader that takes the first message.
LEMMA ReadWire ==
  ASSUME SafetyInv, wire # <<>>, wire' = Tail(wire), UNCHANGED <<shot, agent>>
  PROVE  /\ wire[1] \in Messages /\ Head(wire) = wire[1] /\ Right(wire[1]) /\ Fits(wire[1])
         /\ wire' \in Seq(Messages) /\ Len(wire') = Len(wire) - 1
         /\ Len(wire) \in Nat /\ Len(wire) >= 1
         /\ \A i \in 1..Len(wire') : /\ wire'[i] = wire[i + 1] /\ i + 1 \in 1..Len(wire)
                                     /\ Right(wire[i])'
         /\ \A i \in 1..(Len(wire') - 1) : Follows(wire'[i], wire'[i + 1])
         /\ wire' = <<>> <=> Len(wire) = 1
         /\ wire' # <<>> => /\ Len(wire) > 1 /\ wire'[1] = wire[2]
                            /\ wire'[Len(wire')] = wire[Len(wire)]
                            /\ Follows(wire[1], wire[2])
         /\ \A type \in STRING : wire' # <<>> => (Final(type) <=> Final(type)')
         /\ \A type \in STRING : Final(type) /\ wire' = <<>> =>
              wire[1].type = type /\ wire[1].epoch = agent.epoch
         /\ OwnWire'
         /\ \A i \in 1..Len(cmds) : cmds[i].kind \in {"commit", "rect"} /\ cmds[i].epoch = agent.epoch
              => agent.mode = "awaiting_rect_ack"
         /\ \A a : AckRight(a) => AckRight(a)'
<1>1. wire \in Seq(Messages) /\ WireInv /\ OwnInv  BY DEF SafetyInv, Shapes
<1>2. /\ Head(wire) = wire[1] /\ wire[1] \in Messages
      /\ wire' \in Seq(Messages) /\ Len(wire') = Len(wire) - 1 /\ Len(wire) \in Nat /\ Len(wire) >= 1
      /\ \A i \in 1..(Len(wire) - 1) : wire'[i] = wire[i + 1] /\ i + 1 \in 1..Len(wire)
      /\ wire' = <<>> <=> Len(wire) = 1
      /\ wire' # <<>> => Len(wire) > 1 /\ wire'[1] = wire[2] /\ wire'[Len(wire')] = wire[Len(wire)]
  BY <1>1, TailOf
<1>3. Right(wire[1]) /\ Fits(wire[1])  BY <1>1, <1>2 DEF WireInv
<1>4. \A i \in 1..Len(wire') : wire'[i] = wire[i + 1] /\ i + 1 \in 1..Len(wire)
  BY <1>2
<1>5. ASSUME NEW i \in 1..Len(wire') PROVE Right(wire[i])'
  <2>1. Right(wire[i + 1]) /\ wire'[i] = wire[i + 1]  BY <1>1, <1>4 DEF WireInv
  <2> QED  BY <2>1 DEF Right
<1>6. ASSUME NEW i \in 1..(Len(wire') - 1) PROVE Follows(wire'[i], wire'[i + 1])
  <2>1. i \in 1..(Len(wire) - 1) /\ i + 1 \in 1..(Len(wire) - 1)  BY <1>2
  <2>2. wire'[i] = wire[i + 1] /\ wire'[i + 1] = wire[i + 1 + 1]  BY <1>2, <2>1
  <2> QED  BY <1>1, <2>1, <2>2 DEF WireInv
<1>7. wire' # <<>> => Follows(wire[1], wire[2])
  <2>1. wire' # <<>> => 1 \in 1..(Len(wire) - 1) /\ 1 + 1 = 2  BY <1>2
  <2> QED  BY <1>1, <2>1 DEF WireInv
<1>8. \A type \in STRING : wire' # <<>> => (Final(type) <=> Final(type)')
  BY <1>2 DEF Final
<1>9. \A type \in STRING : Final(type) /\ wire' = <<>> =>
        wire[1].type = type /\ wire[1].epoch = agent.epoch
  BY <1>2 DEF Final
<1>10. OwnWire'
  <2>1. \A i \in 1..Len(wire') : i + 1 = Len(wire) <=> i = Len(wire')  BY <1>2
  <2> QED  BY <1>1, <1>4, <2>1 DEF OwnInv, OwnWire
<1>11. \A i \in 1..Len(cmds) : cmds[i].kind \in {"commit", "rect"} /\ cmds[i].epoch = agent.epoch
         => agent.mode = "awaiting_rect_ack"
  BY <1>1 DEF OwnInv, OwnCmds
<1>12. \A a : AckRight(a) => AckRight(a)'
  <2> SUFFICES ASSUME NEW a, AckRight(a) PROVE AckRight(a)'  OBVIOUS
  <2>1. ~SnapDone /\ ~RectDone  BY DEF SnapDone, RectDone
  <2> QED  BY <2>1 DEF AckRight
<1> QED  BY <1>2, <1>3, <1>4, <1>5, <1>6, <1>7, <1>8, <1>9, <1>10, <1>11, <1>12

\* What a message leaves to be shown.
LEMMA ReaderStep ==
  ASSUME SafetyInv, wire # <<>>, wire' = Tail(wire),
         UNCHANGED <<shot, analyzed, encoder, agent, inbox, compositor, ctl, budget, fault>>,
         reader' \in ReaderState, cmds' \in Seq(Commands), slot' \in Encoded,
         wire' # <<>> => Fits(wire[1])',
         \A i \in 1..Len(wire') : wire'[i].type = "rect" => i = 1,
         agent.epoch # 1 \/ cmds' = cmds,
         Streaming => Streaming',
         ReaderInv', StreamInv', CmdsInv', UploadInv', SlotInv', RectAhead', BaseInv', OwnCmds'
  PROVE  SafetyInv'
<1>1. /\ wire' \in Seq(Messages) /\ OwnWire'
      /\ \A i \in 1..Len(wire') : Right(wire[i])'
      /\ \A i \in 1..(Len(wire') - 1) : Follows(wire'[i], wire'[i + 1])
      /\ \A a : AckRight(a) => AckRight(a)'
  BY ReadWire
<1>2. WireInv'
  <2>1. \A i \in 1..(Len(wire') - 1) : Follows(wire[i], wire[i + 1])'
    BY <1>1 DEF Follows
  <2> QED  BY <1>1, <2>1 DEF WireInv
<1>3. Plan'  BY DEF SafetyInv, Plan
<1>4. EncoderInv'  BY DEF SafetyInv, EncoderInv, Current
<1>5. AckInv /\ ctl \in Seq(Acks \cup Requests)  BY DEF SafetyInv, Shapes
<1>6. AckInv'  BY <1>1, <1>5, AcksUnchanged
<1>7. Shapes'  BY <1>1 DEF SafetyInv, Shapes
<1>8. Begun'  BY DEF SafetyInv, Begun
<1>9. ShownInv' /\ Running' /\ OwnInv'  BY <1>1 DEF SafetyInv, ShownInv, Running, OwnInv
<1> QED  BY <1>2, <1>3, <1>4, <1>6, <1>7, <1>8, <1>9 DEF SafetyInv

\* Reading a message leaves what was sent last where it is, unless it was
\* the message that is read.
LEMMA LastRead ==
  ASSUME SafetyInv, wire # <<>>, wire' = Tail(wire), UNCHANGED <<shot, agent>>
  PROVE  /\ wire' # <<>> => /\ Opened <=> Opened'
                            /\ Streaming <=> Streaming'
                            /\ Delivered <=> Delivered'
                            /\ Complete <=> Complete'
         /\ wire' = <<>> =>
              /\ Opened => wire[1].type = "reset" /\ wire[1].epoch = agent.epoch
              /\ Streaming => wire[1].type = "video" /\ wire[1].epoch = agent.epoch
              /\ Delivered => /\ wire[1].type = "chunk" /\ wire[1].epoch = agent.epoch
                              /\ wire[1].frame = agent.snapFrame /\ wire[1].offset + 1 = agent.sent
              /\ Complete => /\ wire[1].type = "commit" /\ wire[1].epoch = agent.epoch
                             /\ wire[1].frame = agent.snapFrame /\ wire[1].base = 0
         /\ ~Fresh
<1>1. /\ wire' = <<>> <=> Len(wire) = 1
      /\ wire' # <<>> => wire'[Len(wire')] = wire[Len(wire)]
  BY ReadWire
<1>2. ASSUME wire' # <<>>
      PROVE  (Opened <=> Opened') /\ (Streaming <=> Streaming')
             /\ (Delivered <=> Delivered') /\ (Complete <=> Complete')
  BY <1>1, <1>2 DEF Opened, Streaming, Delivered, Complete, Final
<1>3. ASSUME wire' = <<>>
      PROVE  /\ Opened => wire[1].type = "reset" /\ wire[1].epoch = agent.epoch
             /\ Streaming => wire[1].type = "video" /\ wire[1].epoch = agent.epoch
             /\ Delivered => /\ wire[1].type = "chunk" /\ wire[1].epoch = agent.epoch
                             /\ wire[1].frame = agent.snapFrame /\ wire[1].offset + 1 = agent.sent
             /\ Complete => /\ wire[1].type = "commit" /\ wire[1].epoch = agent.epoch
                            /\ wire[1].frame = agent.snapFrame /\ wire[1].base = 0
  BY <1>1, <1>3 DEF Opened, Streaming, Delivered, Complete, Final
<1> QED  BY <1>2, <1>3 DEF Fresh

LEMMA ReaderType ==
  ASSUME Shapes
  PROVE  /\ reader \in ReaderState /\ reader.snap \in SnapState /\ reader.rect \in RectState
         /\ reader.epoch \in Nat /\ reader.resetEpoch \in Nat /\ reader.digest \in Digests
         /\ reader.snap.parts \in Seq(Contents) /\ reader.snap.epoch \in Nat /\ reader.snap.frame \in Nat
         /\ reader.rect.epoch \in Nat /\ reader.rect.frame \in Nat /\ reader.rect.base \in Nat
         /\ NoSnap \in SnapState /\ NoRect \in RectState
         /\ agent.epoch \in Nat /\ wire \in Seq(Messages) /\ cmds \in Seq(Commands)
         /\ slot \in Encoded
<1>1. /\ reader \in ReaderState /\ agent.epoch \in Nat /\ wire \in Seq(Messages)
      /\ cmds \in Seq(Commands) /\ slot \in Encoded
  BY DEF Shapes, AgentState
<1>2. reader.snap \in SnapState /\ reader.rect \in RectState
  BY <1>1 DEF ReaderState
<1>3. NoSnap \in SnapState /\ NoRect \in RectState
  BY DEF NoSnap, NoRect, SnapState, RectState
<1> QED  BY <1>1, <1>2, <1>3 DEF ReaderState, SnapState, RectState

\* A reset always advances, and ends whatever was half read.
LEMMA ResetsInv == ASSUME SafetyInv, ReaderResets PROVE SafetyInv'
<1>0. /\ wire # <<>> /\ Head(wire).type = "reset" /\ wire' = Tail(wire)
      /\ UNCHANGED <<shot, analyzed, encoder, agent, inbox, compositor, ctl, budget>>
  BY DEF ReaderResets, Reads, sourceVars, agentVars
<1>1. /\ Shapes /\ WireInv /\ ReaderInv /\ StreamInv /\ CmdsInv /\ UploadInv /\ SlotInv
      /\ RectAhead /\ BaseInv
  BY DEF SafetyInv
<1> DEFINE m == wire[1]
<1>2. /\ m \in Messages /\ Head(wire) = m /\ Right(m) /\ Fits(m)
      /\ Len(wire') = Len(wire) - 1 /\ Len(wire) \in Nat /\ Len(wire) >= 1
      /\ \A i \in 1..Len(wire') : wire'[i] = wire[i + 1] /\ i + 1 \in 1..Len(wire)
      /\ wire' = <<>> <=> Len(wire) = 1
      /\ wire' # <<>> => Len(wire) > 1 /\ wire'[1] = wire[2] /\ Follows(m, wire[2])
      /\ wire' # <<>> => wire'[Len(wire')] = wire[Len(wire)]
      /\ \A type \in STRING : wire' # <<>> => (Final(type) <=> Final(type)')
      /\ \A type \in STRING : Final(type) /\ wire' = <<>> => m.type = type /\ m.epoch = agent.epoch
      /\ \A i \in 1..Len(cmds) : cmds[i].kind \in {"commit", "rect"} /\ cmds[i].epoch = agent.epoch
              => agent.mode = "awaiting_rect_ack"
  BY <1>0, ReadWire
<1>3. /\ m.type = "reset" /\ m.epoch \in Nat /\ m.epoch >= 2 /\ m.epoch <= agent.epoch
      /\ m.epoch > reader.epoch /\ m.epoch > reader.resetEpoch /\ agent.epoch \in Nat
  BY SMTT(60), <1>0, <1>1, <1>2, ReaderType, MessageFields DEF Right, Fits
<1>4. /\ reader' = [reader EXCEPT !.snap = NoSnap, !.rect = NoRect, !.resetEpoch = m.epoch,
                                  !.poisoned = IF m.epoch > @ THEN 0 ELSE @]
      /\ cmds' = Append(cmds, Cancel(m.epoch))
      /\ slot' = (IF slot.epoch < m.epoch THEN NoFrame ELSE slot)
      /\ fault' = fault
  BY <1>2, <1>3 DEF ReaderResets, ResetAdvances
<1>5. /\ reader' \in ReaderState /\ reader'.snap = NoSnap /\ reader'.rect = NoRect
      /\ reader'.resetEpoch = m.epoch /\ reader'.poisoned = 0
      /\ reader'.epoch = reader.epoch /\ reader'.rep = reader.rep
      /\ reader'.frame = reader.frame /\ reader'.digest = reader.digest
  BY <1>1, <1>3, <1>4, ReaderType DEF ReaderState, ReaderInv
<1>6. Cancel(m.epoch) \in Commands /\ Cancel(m.epoch).kind = "cancel"
  BY <1>3 DEF Cancel, Commands
<1>7. /\ cmds' \in Seq(Commands) /\ Len(cmds') = Len(cmds) + 1 /\ Len(cmds) \in Nat /\ cmds' # <<>>
      /\ \A i \in 1..Len(cmds) : cmds'[i] = cmds[i]
      /\ cmds'[Len(cmds) + 1].kind = "cancel"
      /\ cmds # <<>> => Len(cmds) >= 1
  BY SMTT(60), <1>1, <1>4, <1>6, AppendOf, ReaderType
<1>8. slot' = NoFrame /\ slot' \in Encoded
  <2>1. CASE slot = NoFrame  BY <1>3, <1>4, <2>1, SlotNone DEF NoFrame
  <2>2. CASE slot # NoFrame
    <3>1. slot.epoch <= reader.epoch /\ slot.epoch \in Nat /\ reader.epoch \in Nat
      BY <1>1, <2>2, ReaderType DEF SlotInv, Encoded
    <3> QED  BY <1>3, <1>4, <3>1, SlotNone
  <2> QED  BY <2>1, <2>2
<1>9. wire' # <<>> => Fits(wire[1])'
  <2> SUFFICES ASSUME wire' # <<>> PROVE Fits(wire[1])'  OBVIOUS
  <2> DEFINE n == wire[2]
  <2>1. Follows(m, n) /\ n = wire'[1] /\ Len(wire) > 1 /\ 2 \in 1..Len(wire)  BY <1>2
  <2>2. n.epoch \in Nat /\ NoSnap.parts = <<>> /\ Len(<<>>) = 0
    <3>1. wire[2] \in Messages  BY SMTT(60), <1>1, <2>1, ReaderType
    <3> QED  BY <2>1, <3>1, MessageFields DEF NoSnap
  <2>3. n.type = "rect" => /\ RawRect /\ n.base = reader.frame /\ reader.digest # <<>>
                           /\ reader.rep = "snapshot"
    BY <1>1, <2>1 DEF WireInv
  <2> HIDE DEF m, n
  <2>4. n.type = "reset" => n.epoch > reader'.epoch /\ n.epoch > reader'.resetEpoch
    BY SMTT(60), <1>3, <1>5, <2>1, <2>2, ReaderType, <1>1 DEF Follows
  <2>5. n.type # "reset" => n.epoch = m.epoch  BY <2>1 DEF Follows
  <2>6. n.type = "video" => n.key  BY <1>3, <2>1 DEF Follows
  <2>7. n.type = "chunk" => n.offset = 0  BY <1>3, <2>1 DEF Follows
  <2>8. n.type # "commit"  BY <1>3, <2>1 DEF Follows
  <2> QED  BY <1>5, <2>1, <2>2, <2>3, <2>4, <2>5, <2>6, <2>7, <2>8 DEF Fits, Clear
<1>10. \A i \in 1..Len(wire') : wire'[i].type = "rect" => i = 1 /\ wire[2].type = "rect"
  <2> SUFFICES ASSUME NEW i \in 1..Len(wire'), wire'[i].type = "rect" PROVE i = 1 /\ wire[2].type = "rect"
    OBVIOUS
  <2>1. wire[i + 1].type = "rect" /\ i + 1 \in 1..Len(wire)  BY <1>2
  <2>2. i + 1 <= 2  BY <1>1, <2>1 DEF WireInv
  <2> QED  BY <1>2, <2>1, <2>2
<1>11. agent.epoch # 1  BY <1>3
<1>12. Streaming => Streaming'
  BY <1>0, <1>3, LastRead
<1>13. ReaderInv'
  <2> HIDE DEF m
  <2>1. m.epoch <= agent'.epoch /\ reader.epoch <= agent'.epoch  BY <1>0, <1>1, <1>3 DEF ReaderInv
  <2> QED  BY <1>3, <1>5, <2>1 DEF ReaderInv
<1>14. StreamInv'
  <2>0. Clear'  BY <1>5 DEF Clear
  <2>1. Opened => Opened'
    <3>1. wire' = <<>> /\ Opened => Opened'  BY <1>0, <1>5, <2>0, LastRead DEF Opened
    <3> QED  BY <1>0, <3>1, LastRead
  <2>2. Delivered => Delivered'  BY <1>0, <1>3, LastRead
  <2>3. Complete => Complete'  BY <1>0, <1>3, LastRead
  <2>4. ~Fresh  BY <1>0 DEF Fresh
  <2>5. Based /\ AtExact => Based' /\ AtExact'
    <3> SUFFICES ASSUME Based, AtExact PROVE Based' /\ AtExact'  OBVIOUS
    <3>1. Len(wire) = 1 /\ reader.rep = "snapshot" /\ RawRect /\ m.epoch = agent.epoch
      BY <1>0, <1>2 DEF AtExact, Final
    <3> QED  BY <1>0, <1>2, <1>5, <3>1 DEF Based, Clear, AtExact
  <2>6. Transaction => Transaction'
    <3> SUFFICES ASSUME Transaction PROVE Transaction'  OBVIOUS
    <3>1. Len(wire) = 3 /\ OnWire("rect", 2) /\ OnWire("commit", 3) /\ Based
      BY <1>0, <1>3 DEF Transaction, OnWire
    <3>2. Len(wire') = 2 /\ wire'[1] = wire[2] /\ wire'[2] = wire[3]  BY <1>2, <3>1
    <3> QED  BY ZenonT(60), <1>0, <1>5, <3>1, <3>2 DEF Transaction, OnWire, OurRect, Based, Clear
  <2> QED  BY <1>0, <1>1, <1>12, <2>1, <2>2, <2>3, <2>4, <2>5, <2>6 DEF StreamInv
<1>15. CmdsInv'
  <2>1. \A i \in 1..Len(cmds') : CmdRight(cmds[i])'
    BY SMTT(60), <1>0, <1>1, <1>7 DEF CmdsInv, CmdRight
  <2>2. \A i \in 1..(Len(cmds') - 1) : SameUpload(cmds'[i], cmds'[i + 1])
    BY SMTT(60), <1>1, <1>7 DEF CmdsInv, SameUpload
  <2> QED  BY <1>5, <1>7, <2>1, <2>2 DEF CmdsInv, SameUpload
<1>16. UploadInv'
  <2>1. cmds = <<>> => cmds'[1].kind = "cancel"  BY <1>7
  <2>2. cmds # <<>> => cmds'[1] = cmds[1]  BY <1>7
  <2> QED  BY <1>0, <1>1, <1>7, <2>1, <2>2 DEF UploadInv
<1>17. SlotInv'  BY <1>8 DEF SlotInv
<1>18. RectAhead'
  <2>1. ASSUME NEW i \in 1..Len(wire'), wire'[i].type = "rect"
        PROVE  AtBase(wire[i].base)' /\ Unhurried' /\ i = 1
    <3>1. i = 1 /\ wire[2].type = "rect" /\ 2 \in 1..Len(wire) /\ wire'[1] = wire[2]
      BY <1>2, <1>10, <2>1
    <3>2. AtBase(wire[2].base) /\ cmds = <<>>  BY <1>1, <3>1 DEF RectAhead
    <3> QED  BY <1>0, <1>7, <3>1, <3>2 DEF AtBase, Unhurried
  <2>2. ASSUME NEW i \in 1..Len(cmds'), cmds'[i].kind = "rect"
        PROVE  AtBase(cmds[i].base)' /\ (i = 1 \/ (i = 2 /\ cmds'[1].kind = "cancel"))
    <3>1. i \in 1..Len(cmds) /\ cmds'[i] = cmds[i] /\ cmds'[1] = cmds[1]  BY <1>7, <2>2
    <3> QED  BY <1>0, <1>1, <2>2, <3>1 DEF RectAhead, AtBase
  <2> QED  BY <1>5, <2>1, <2>2 DEF RectAhead
<1>19. BaseInv'
  <2>1. ASSUME agent.mode = "exact"
        PROVE  AtBase(agent.exactFrame)' /\ Unhurried' /\ wire' = <<>>
    <3>1. Len(wire) = 1 /\ cmds = <<>> /\ AtBase(agent.exactFrame)
      BY <1>0, <1>1, <2>1 DEF StreamInv, AtExact, BaseInv
    <3> QED  BY <1>0, <1>2, <1>7, <3>1 DEF AtBase, Unhurried
  <2>2. ASSUME agent.mode = "awaiting_rect_ack" PROVE wire' # <<>>
    <3>1. Transaction  BY <1>1, <2>2 DEF StreamInv
    <3> QED  BY <1>0, <1>2, <1>3, <3>1 DEF Transaction, OnWire
  <2> QED  BY <1>0, <2>1, <2>2 DEF BaseInv
<1>20. OwnCmds'
  <2>1. \A i \in 1..Len(cmds') : cmds'[i].kind \in {"commit", "rect"} => i \in 1..Len(cmds) /\ cmds'[i] = cmds[i]
    BY <1>7
  <2> QED  BY <1>0, <1>2, <2>1 DEF OwnCmds
<1> QED
  BY <1>0, <1>4, <1>5, <1>7, <1>8, <1>9, <1>10, <1>11, <1>12, <1>13, <1>14, <1>15, <1>16, <1>17,
     <1>18, <1>19, <1>20, ReaderStep

\* A rectangle is always allowed and never poisoned.
LEMMA TakesRectInv == ASSUME SafetyInv, ReaderTakesRect PROVE SafetyInv'
<1>0. /\ wire # <<>> /\ Head(wire).type = "rect" /\ wire' = Tail(wire)
      /\ UNCHANGED <<shot, analyzed, encoder, agent, inbox, slot, compositor, budget, fault>>
  BY DEF ReaderTakesRect, Reads, sourceVars, agentVars, limitVars
<1>1. /\ Shapes /\ WireInv /\ ReaderInv /\ StreamInv /\ CmdsInv /\ UploadInv /\ SlotInv
      /\ RectAhead /\ BaseInv /\ OwnInv
  BY DEF SafetyInv
<1> DEFINE m == wire[1]
           r == [epoch |-> m.epoch, frame |-> m.frame, base |-> m.base, from |-> m.from, to |-> m.to]
<1>2. /\ m = wire[1] /\ m \in Messages /\ Head(wire) = m /\ Right(m) /\ Fits(m)
      /\ Len(wire') = Len(wire) - 1 /\ Len(wire) \in Nat /\ Len(wire) >= 1
      /\ \A i \in 1..Len(wire') : wire'[i] = wire[i + 1] /\ i + 1 \in 1..Len(wire)
      /\ wire' = <<>> <=> Len(wire) = 1
      /\ wire' # <<>> => Len(wire) > 1 /\ wire'[1] = wire[2] /\ Follows(m, wire[2])
  BY <1>0, ReadWire
<1>r. r.epoch = m.epoch /\ r.frame = m.frame /\ r.base = m.base /\ r.from = m.from /\ r.to = m.to
  OBVIOUS
<1> HIDE DEF m
<1>3. /\ m.type = "rect" /\ m.epoch \in Nat /\ m.epoch \in 2..agent.epoch /\ agent.epoch \in Nat
      /\ m.frame \in Nat /\ m.base \in Nat /\ m.from \in Contents /\ m.to \in Contents
      /\ m.frame \in 1..Len(shot) /\ m.base \in 1..Len(shot) /\ m.base < m.frame
      /\ m.from = shot[m.base] /\ m.to = shot[m.frame]
  <2>1. m.type = "rect" /\ m.epoch \in Nat /\ m.frame \in Nat /\ m.base \in Nat
        /\ m.from \in Contents /\ m.to \in Contents
    BY <1>0, <1>2, MessageFields
  <2>2. agent.epoch \in Nat  BY <1>1, ReaderType
  <2> QED  BY <1>2, <2>1, <2>2 DEF Right
<1>4. /\ reader.snap = NoSnap /\ reader.rect = NoRect /\ RawRect
      /\ m.base = reader.frame /\ reader.digest # <<>>
      /\ \/ reader.rep = "rect" /\ m.epoch = reader.epoch /\ reader.resetEpoch = 0
         \/ reader.rep = "snapshot" /\ m.epoch = reader.resetEpoch
  BY <1>2, <1>3 DEF Fits, Clear
<1>5. RectAllowed(m) /\ m.epoch > reader.poisoned /\ ~(m.epoch <= reader.poisoned)
  BY <1>1, <1>3, <1>4 DEF RectAllowed, ReaderInv
<1>6. reader' = [reader EXCEPT !.rect = r] /\ cmds' = cmds /\ ctl' = ctl
  BY <1>2, <1>3, <1>5 DEF ReaderTakesRect
<1>7. r \in RectState /\ r # NoRect
  BY <1>3 DEF RectState, NoRect
<1> HIDE DEF r
<1>8. /\ reader' \in ReaderState /\ reader'.rect = r /\ reader'.snap = NoSnap
      /\ reader'.resetEpoch = reader.resetEpoch /\ reader'.poisoned = reader.poisoned
      /\ reader'.epoch = reader.epoch /\ reader'.rep = reader.rep
      /\ reader'.frame = reader.frame /\ reader'.digest = reader.digest
  <2> QED  BY <1>1, <1>4, <1>6, <1>7, ReaderType DEF ReaderState
<1>9. wire' # <<>> => Fits(wire[1])'
  <2> SUFFICES ASSUME wire' # <<>> PROVE Fits(wire[1])'  OBVIOUS
  <2> DEFINE n == wire[2]
  <2>1. Follows(m, n) /\ n = wire'[1] /\ 2 \in 1..Len(wire)  BY <1>2
  <2>2. n.epoch \in Nat
    <3>1. wire[2] \in Messages  BY <1>1, <2>1, ReaderType
    <3> QED  BY <2>1, <3>1, MessageFields
  <2> HIDE DEF n
  <2>4. n.type \notin {"video", "chunk", "rect"}  BY <1>3, <2>1 DEF Follows
  <2>5. n.type = "reset" => n.epoch > reader'.epoch /\ n.epoch > reader'.resetEpoch
    <3>1. n.type = "reset" => n.epoch > m.epoch  BY <2>1 DEF Follows
    <3>2. reader.epoch \in Nat /\ reader.resetEpoch \in Nat  BY <1>1, ReaderType
    <3>3. reader.epoch <= m.epoch /\ reader.resetEpoch <= m.epoch
      BY <1>1, <1>3, <1>4, <3>2 DEF ReaderInv
    <3> QED  BY SMTT(60), <1>3, <1>8, <2>2, <3>1, <3>2, <3>3
  <2>6. n.type = "commit" => n.epoch = m.epoch /\ n.frame = m.frame /\ n.base = m.base
    BY <1>3, <2>1 DEF Follows
  <2> QED  BY <1>7, <1>8, <1>r, <2>1, <2>4, <2>5, <2>6 DEF Fits, RectComplete
<1>10. \A i \in 1..Len(wire') : wire'[i].type # "rect"
  <2> SUFFICES ASSUME NEW i \in 1..Len(wire'), wire'[i].type = "rect" PROVE FALSE  OBVIOUS
  <2>1. wire[i + 1].type = "rect" /\ i + 1 \in 1..Len(wire)  BY <1>2
  <2>2. i + 1 <= 2  BY <1>1, <2>1 DEF WireInv
  <2>3. i = 1 /\ wire' # <<>>  BY <1>2, <2>1, <2>2
  <2>4. Follows(m, wire[2]) /\ wire[2].type = "rect"  BY <1>2, <2>1, <2>3
  <2> QED  BY <1>3, <2>4 DEF Follows
<1>12. Streaming => Streaming'
  BY <1>0, <1>3, LastRead
<1>13. ReaderInv'
  <2>2. r.epoch \in 2..agent'.epoch /\ r.epoch >= reader'.epoch /\ r.epoch >= reader'.resetEpoch
    <3>1. agent'.epoch = agent.epoch /\ agent.epoch \in Nat  BY <1>0, <1>1, ReaderType
    <3>2. r.epoch = m.epoch /\ m.epoch \in 2..agent.epoch  BY <1>1, <1>3, <1>r
    <3>3. reader.epoch \in Nat /\ reader.resetEpoch \in Nat  BY <1>1, ReaderType
    <3>4. reader'.epoch = reader.epoch /\ reader'.resetEpoch = reader.resetEpoch  BY <1>8
    <3>5. reader.resetEpoch # 0 => reader.resetEpoch > reader.epoch  BY <1>1 DEF ReaderInv
    <3> QED  BY <1>4, <3>1, <3>2, <3>3, <3>4, <3>5
  <2> QED  BY <1>0, <1>1, <1>3, <1>4, <1>8, <1>r, <2>2 DEF ReaderInv
<1>14. StreamInv'
  <2>1. Opened => Opened'  BY <1>0, <1>3, LastRead
  <2>2. Delivered => Delivered'  BY <1>0, <1>3, LastRead
  <2>3. Complete => Complete'  BY <1>0, <1>3, LastRead
  <2>4. ~Fresh /\ ~AtExact  BY <1>0, <1>3 DEF Fresh, AtExact, Final
  <2>6. Transaction => Transaction'
    <3> SUFFICES ASSUME Transaction PROVE Transaction'  OBVIOUS
    <3>1. Len(wire) = 2 /\ OnWire("rect", 1) /\ OnWire("commit", 2) /\ Based
      BY <1>0, <1>3 DEF Transaction, OnWire
    <3>2. Len(wire') = 1 /\ wire'[1] = wire[2]  BY <1>2, <3>1
    <3> QED  BY <1>0, <1>7, <1>8, <3>1, <3>2 DEF Transaction, OnWire, OurRect, Based
  <2> QED  BY <1>0, <1>1, <1>12, <2>1, <2>2, <2>3, <2>4, <2>6 DEF StreamInv
<1>15. CmdsInv'
  BY <1>0, <1>1, <1>4, <1>6, <1>8 DEF CmdsInv, CmdRight, SameUpload
<1>16. UploadInv'
  BY <1>0, <1>1, <1>4, <1>6, <1>8 DEF UploadInv
<1>17. SlotInv'  BY <1>0, <1>1, <1>8 DEF SlotInv
<1>18. RectAhead'
  <2>1. AtBase(m.base) /\ Unhurried  BY <1>1, <1>2, <1>3 DEF RectAhead
  <2>2. \A b : b = m.base => AtBase(b)'
    BY <1>0, <2>1 DEF AtBase
  <2>3. Unhurried' /\ \A i \in 1..Len(cmds') : cmds'[i].kind # "rect"
    BY <1>6, <2>1 DEF Unhurried
  <2>4. AtBase(reader.rect.base)'  BY <1>8, <1>r, <2>2 DEF AtBase
  <2> QED  BY <1>10, <2>3, <2>4 DEF RectAhead
<1>19. BaseInv'
  <2>1. agent.mode # "exact"  BY <1>0, <1>1, <1>3 DEF StreamInv, AtExact, Final
  <2>2. ASSUME agent.mode = "awaiting_rect_ack" PROVE wire' # <<>>
    <3>1. Transaction  BY <1>1, <2>2 DEF StreamInv
    <3> QED  BY <1>0, <1>2, <1>3, <3>1 DEF Transaction, OnWire
  <2> QED  BY <1>0, <2>1, <2>2 DEF BaseInv
<1>20. OwnCmds'
  BY <1>0, <1>1, <1>6 DEF OwnCmds, OwnInv, SentDigest
<1> QED
  BY <1>0, <1>1, <1>6, <1>8, <1>9, <1>10, <1>12, <1>13, <1>14, <1>15, <1>16, <1>17,
     <1>18, <1>19, <1>20, ReaderStep, ReaderType

\* Commands the reader queues in one step.
LEMMA OneMore ==
  ASSUME NEW S, NEW s \in Seq(S), NEW y \in S, NEW t, t = s \o <<>> \o <<y>>
  PROVE  /\ t \in Seq(S) /\ Len(t) = Len(s) + 1 /\ Len(s) \in Nat /\ t # <<>>
         /\ \A i \in 1..Len(s) : t[i] = s[i]
         /\ t[Len(s) + 1] = y
<1>1. s \o <<>> = s  OBVIOUS
<1>2. t = s \o <<y>>  BY <1>1
<1> QED  BY <1>2

LEMMA TwoMore ==
  ASSUME NEW S, NEW s \in Seq(S), NEW x \in S, NEW y \in S, NEW t, t = s \o <<x>> \o <<y>>
  PROVE  /\ t \in Seq(S) /\ Len(t) = Len(s) + 2 /\ Len(s) \in Nat /\ t # <<>>
         /\ \A i \in 1..Len(s) : t[i] = s[i]
         /\ t[Len(s) + 1] = x /\ t[Len(s) + 2] = y
<1>1. s \o <<x>> = Append(s, x)  OBVIOUS
<1>2. Append(s, x) \o <<y>> = Append(Append(s, x), y)  OBVIOUS
<1>3. t = Append(Append(s, x), y)  BY <1>1, <1>2
<1> QED  BY <1>3

\* A chunk always fits the snapshot half read.
LEMMA TakesChunkInv == ASSUME SafetyInv, ReaderTakesChunk PROVE SafetyInv'
<1>0. /\ wire # <<>> /\ Head(wire).type = "chunk" /\ wire' = Tail(wire)
      /\ UNCHANGED <<shot, analyzed, encoder, agent, inbox, slot, compositor, budget, fault>>
  BY DEF ReaderTakesChunk, Reads, sourceVars, agentVars, limitVars
<1>1. /\ Shapes /\ WireInv /\ ReaderInv /\ StreamInv /\ CmdsInv /\ UploadInv /\ SlotInv
      /\ RectAhead /\ BaseInv /\ OwnInv
  BY DEF SafetyInv
<1> DEFINE m == wire[1]
           s == [epoch |-> m.epoch, frame |-> m.frame, parts |-> Append(reader.snap.parts, m.content)]
<1>2. /\ m = wire[1] /\ m \in Messages /\ Head(wire) = m /\ Right(m) /\ Fits(m)
      /\ Len(wire') = Len(wire) - 1 /\ Len(wire) \in Nat /\ Len(wire) >= 1
      /\ \A i \in 1..Len(wire') : wire'[i] = wire[i + 1] /\ i + 1 \in 1..Len(wire)
      /\ wire' = <<>> <=> Len(wire) = 1
      /\ wire' # <<>> => Len(wire) > 1 /\ wire'[1] = wire[2] /\ Follows(m, wire[2])
      /\ \A i \in 1..Len(cmds) : cmds[i].kind \in {"commit", "rect"} /\ cmds[i].epoch = agent.epoch
              => agent.mode = "awaiting_rect_ack"
  BY <1>0, ReadWire
<1>s. s.epoch = m.epoch /\ s.frame = m.frame /\ s.parts = Append(reader.snap.parts, m.content)
  OBVIOUS
<1> HIDE DEF m
<1>3. /\ m.type = "chunk" /\ m.epoch \in Nat /\ m.epoch \in 2..agent.epoch /\ agent.epoch \in Nat
      /\ m.frame \in Nat /\ m.offset \in Nat /\ m.content \in Contents
      /\ m.frame \in 1..Len(shot) /\ m.content = shot[m.frame]
  <2>1. m.type = "chunk" /\ m.epoch \in Nat /\ m.frame \in Nat /\ m.offset \in Nat
        /\ m.content \in Contents
    BY <1>0, <1>2, MessageFields
  <2>2. agent.epoch \in Nat  BY <1>1, ReaderType
  <2> QED  BY <1>2, <2>1, <2>2 DEF Right
<1>4. /\ reader.rect = NoRect /\ reader.resetEpoch = m.epoch
      /\ m.offset = Len(reader.snap.parts)
      /\ reader.snap # NoSnap => reader.snap.frame = m.frame /\ reader.snap.epoch = m.epoch
      /\ m.epoch > reader.epoch
  BY <1>1, <1>2, <1>3 DEF Fits, ReaderInv
<1>5. ChunkFits(m)  BY <1>4 DEF ChunkFits
<1>6. /\ reader' = [reader EXCEPT !.snap = s]
      /\ cmds' = cmds \o (IF reader.snap = NoSnap THEN <<Begin(m)>> ELSE <<>>) \o <<Part(m)>>
      /\ ctl' = ctl
  BY <1>2, <1>5 DEF ReaderTakesChunk
<1>7. /\ s \in SnapState /\ s.parts # <<>> /\ Len(s.parts) = m.offset + 1 /\ s # NoSnap
      /\ \A i \in 1..Len(s.parts) : s.parts[i] = shot[m.frame]
  <2>0. reader.snap.parts \in Seq(Contents)  BY <1>1, ReaderType
  <2>1. /\ s.parts \in Seq(Contents) /\ Len(s.parts) = m.offset + 1 /\ s.parts # <<>>
        /\ \A i \in 1..Len(reader.snap.parts) : s.parts[i] = reader.snap.parts[i]
        /\ s.parts[m.offset + 1] = m.content
    BY SMTT(60), <1>s, <1>3, <1>4, <2>0, AppendOf
  <2>2. \A i \in 1..m.offset : reader.snap.parts[i] = shot[m.frame]
    BY <1>1, <1>3, <1>4 DEF ReaderInv, NoSnap
  <2>3. s \in SnapState  BY <1>s, <1>3, <2>1 DEF SnapState
  <2>4. s # NoSnap  BY <1>s, <2>1 DEF NoSnap
  <2> QED  BY SMTT(60), <1>3, <1>4, <2>1, <2>2, <2>3, <2>4
<1> HIDE DEF s
<1>8. /\ reader' \in ReaderState /\ reader'.snap = s /\ reader'.rect = NoRect
      /\ reader'.resetEpoch = m.epoch /\ reader'.poisoned = reader.poisoned
      /\ reader'.epoch = reader.epoch /\ reader'.rep = reader.rep
      /\ reader'.frame = reader.frame /\ reader'.digest = reader.digest
  BY <1>1, <1>4, <1>6, <1>7, ReaderType DEF ReaderState
<1>b. /\ Begin(m) \in Commands /\ Begin(m).kind = "begin" /\ Begin(m).frame = m.frame
      /\ Part(m) \in Commands /\ Part(m).kind = "chunk" /\ Part(m).frame = m.frame
      /\ Part(m).content = shot[m.frame]
  BY <1>3 DEF Begin, Part, Commands
<1>c. \/ /\ reader.snap = NoSnap /\ Len(cmds') = Len(cmds) + 2
         /\ cmds'[Len(cmds) + 1] = Begin(m) /\ cmds'[Len(cmds) + 2] = Part(m)
      \/ /\ reader.snap # NoSnap /\ Len(cmds') = Len(cmds) + 1
         /\ cmds'[Len(cmds) + 1] = Part(m)
  <2>1. cmds \in Seq(Commands)  BY <1>1, ReaderType
  <2>2. CASE reader.snap = NoSnap
    <3>1. cmds' = cmds \o <<Begin(m)>> \o <<Part(m)>>  BY <1>6, <2>2
    <3> QED  BY <1>b, <2>1, <2>2, <3>1, TwoMore
  <2>3. CASE reader.snap # NoSnap
    <3>1. cmds' = cmds \o <<>> \o <<Part(m)>>  BY <1>6, <2>3
    <3> QED  BY <1>b, <2>1, <2>3, <3>1, OneMore
  <2> QED  BY <2>2, <2>3
<1>d. /\ cmds' \in Seq(Commands) /\ cmds' # <<>> /\ Len(cmds) \in Nat
      /\ \A i \in 1..Len(cmds) : cmds'[i] = cmds[i]
      /\ cmds # <<>> => Len(cmds) >= 1
      /\ cmds = <<>> => Len(cmds) = 0
  <2>1. cmds \in Seq(Commands)  BY <1>1, ReaderType
  <2>4. Len(cmds) \in Nat /\ (cmds # <<>> => Len(cmds) >= 1) /\ (cmds = <<>> => Len(cmds) = 0)
    BY <2>1
  <2>2. CASE reader.snap = NoSnap
    <3>1. cmds' = cmds \o <<Begin(m)>> \o <<Part(m)>>  BY <1>6, <2>2
    <3> QED  BY <1>b, <2>1, <2>2, <2>4, <3>1, TwoMore
  <2>3. CASE reader.snap # NoSnap
    <3>1. cmds' = cmds \o <<>> \o <<Part(m)>>  BY <1>6, <2>3
    <3> QED  BY <1>b, <2>1, <2>3, <2>4, <3>1, OneMore
  <2> QED  BY <2>2, <2>3
<1>9. wire' # <<>> => Fits(wire[1])'
  <2> SUFFICES ASSUME wire' # <<>> PROVE Fits(wire[1])'  OBVIOUS
  <2> DEFINE n == wire[2]
  <2>1. Follows(m, n) /\ n = wire'[1] /\ 2 \in 1..Len(wire)  BY <1>2
  <2>2. n.epoch \in Nat
    <3>1. wire[2] \in Messages  BY <1>1, <2>1, ReaderType
    <3> QED  BY <2>1, <3>1, MessageFields
  <2> HIDE DEF n
  <2>4. n.type \notin {"video", "rect"}  BY <1>3, <2>1 DEF Follows
  <2>5. n.type = "reset" => n.epoch > reader'.epoch /\ n.epoch > reader'.resetEpoch
    <3>1. n.type = "reset" => n.epoch > m.epoch  BY <2>1 DEF Follows
    <3>2. reader.epoch \in Nat  BY <1>1, ReaderType
    <3> QED  BY <1>3, <1>4, <1>8, <2>2, <3>1, <3>2
  <2>6. n.type = "commit" => /\ n.epoch = m.epoch /\ n.frame = m.frame /\ n.base = 0
                             /\ m.offset + 1 = Chunks
    BY <1>3, <2>1 DEF Follows
  <2>7. n.type = "chunk" => /\ n.epoch = m.epoch /\ n.frame = m.frame
                            /\ n.offset = m.offset + 1
    BY <1>3, <2>1 DEF Follows
  <2> QED  BY <1>7, <1>8, <1>s, <2>1, <2>4, <2>5, <2>6, <2>7 DEF Fits
<1>10. \A i \in 1..Len(wire') : wire'[i].type # "rect"
  <2> SUFFICES ASSUME NEW i \in 1..Len(wire'), wire'[i].type = "rect" PROVE FALSE  OBVIOUS
  <2>1. wire[i + 1].type = "rect" /\ i + 1 \in 1..Len(wire)  BY <1>2
  <2>2. i + 1 <= 2  BY <1>1, <2>1 DEF WireInv
  <2>3. i = 1 /\ wire' # <<>>  BY <1>2, <2>1, <2>2
  <2>4. Follows(m, wire[2]) /\ wire[2].type = "rect"  BY <1>2, <2>1, <2>3
  <2> QED  BY <1>3, <2>4 DEF Follows
<1>12. Streaming => Streaming'
  BY <1>0, <1>2, <1>3, LastRead
<1>13. ReaderInv'
  BY SMTT(60), <1>0, <1>1, <1>3, <1>4, <1>7, <1>8, <1>s DEF ReaderInv
<1>14. StreamInv'
  <2>1. Opened => Opened'  BY <1>0, <1>2, <1>3, LastRead
  <2>2. Delivered => Delivered'
    <3>1. ASSUME wire' = <<>>, Delivered PROVE Delivered'
      <4>1. m.epoch = agent.epoch /\ m.frame = agent.snapFrame /\ m.offset + 1 = agent.sent
        BY <1>0, <1>2, <3>1, LastRead
      <4> QED  BY <1>0, <1>7, <1>8, <1>s, <3>1, <4>1 DEF Delivered
    <3> QED  BY <1>0, <3>1, LastRead
  <2>3. Complete => Complete'  BY <1>0, <1>2, <1>3, LastRead
  <2>4. ~Fresh /\ ~AtExact  BY <1>0, <1>2, <1>3 DEF Fresh, AtExact, Final
  <2>6. ~Transaction  BY <1>0, <1>2, <1>3 DEF Transaction, OnWire
  <2> QED  BY <1>0, <1>1, <1>12, <2>1, <2>2, <2>3, <2>4, <2>6 DEF StreamInv
<1>15. CmdsInv'
  <2>1. \A i \in 1..Len(cmds') : CmdRight(cmds[i])'
    <3>1. \A i \in 1..Len(cmds') : \/ i \in 1..Len(cmds) /\ cmds'[i] = cmds[i]
                                   \/ cmds'[i] = Begin(m) \/ cmds'[i] = Part(m)
      BY <1>c, <1>d
    <3> QED  BY ZenonT(60), <1>0, <1>1, <1>3, <1>b, <3>1 DEF CmdsInv, CmdRight
  <2>2. ASSUME NEW i \in 1..(Len(cmds') - 1) PROVE SameUpload(cmds[i], cmds[i + 1])'
    <3>1. CASE i \in 1..(Len(cmds) - 1)
      <4>1. cmds'[i] = cmds[i] /\ cmds'[i + 1] = cmds[i + 1]  BY <1>d, <3>1
      <4> QED  BY <1>1, <3>1, <4>1 DEF CmdsInv, SameUpload
    <3>2. CASE i = Len(cmds) /\ cmds # <<>>
      <4>1. cmds'[i] = cmds[i]  BY <1>d, <3>2
      <4>2. reader.snap # NoSnap => cmds[i].kind = "chunk" /\ cmds[i].frame = m.frame
        BY <1>1, <1>4, <3>2 DEF CmdsInv
      <4> QED  BY <1>b, <1>c, <3>2, <4>1, <4>2 DEF SameUpload
    <3>3. CASE i = Len(cmds) + 1
      BY <1>b, <1>c, <1>d, <2>2, <3>3 DEF SameUpload
    <3> QED  BY <1>c, <1>d, <3>1, <3>2, <3>3
  <2>3. cmds'[Len(cmds')] = Part(m)  BY <1>c
  <2> QED  BY <1>7, <1>8, <1>s, <1>b, <1>d, <2>1, <2>2, <2>3 DEF CmdsInv
<1>16. UploadInv'
  <2>1. cmds # <<>> => cmds'[1] = cmds[1]  BY <1>d
  <2>2. cmds = <<>> /\ reader.snap = NoSnap => cmds'[1].kind = "begin"  BY <1>b, <1>c, <1>d
  <2>3. cmds = <<>> /\ reader.snap # NoSnap => cmds'[1].frame = m.frame /\ reader.snap.frame = m.frame
    BY <1>4, <1>b, <1>c, <1>d
  <2> QED  BY <1>0, <1>1, <1>d, <2>1, <2>2, <2>3 DEF UploadInv
<1>17. SlotInv'  BY <1>0, <1>1, <1>3, <1>4 DEF SlotInv
<1>18. RectAhead'
  <2>2. ASSUME NEW i \in 1..Len(cmds'), cmds'[i].kind = "rect"
        PROVE  AtBase(cmds[i].base)' /\ (i = 1 \/ (i = 2 /\ cmds'[1].kind = "cancel"))
    <3>1. i \in 1..Len(cmds) /\ cmds'[i] = cmds[i] /\ cmds'[1] = cmds[1]
      BY <1>b, <1>c, <1>d, <2>2
    <3> QED  BY <1>0, <1>1, <2>2, <3>1 DEF RectAhead, AtBase
  <2> QED  BY <1>8, <1>10, <2>2 DEF RectAhead
<1>19. BaseInv'
  <2>1. ~Transaction /\ ~AtExact  BY <1>0, <1>2, <1>3 DEF Transaction, OnWire, AtExact, Final
  <2> QED  BY <1>0, <1>1, <2>1 DEF BaseInv, StreamInv
<1>20. OwnCmds'
  <2>1. \A i \in 1..Len(cmds') : cmds'[i].kind \in {"commit", "rect"} => i \in 1..Len(cmds) /\ cmds'[i] = cmds[i]
    BY <1>b, <1>c, <1>d
  <2> QED  BY <1>0, <1>2, <2>1 DEF OwnCmds
<1>21. agent.epoch # 1 /\ slot \in Encoded  BY SMTT(60), <1>1, <1>3, ReaderType
<1> QED
  BY <1>0, <1>6, <1>8, <1>9, <1>10, <1>12, <1>13, <1>14, <1>15, <1>16, <1>17,
     <1>18, <1>19, <1>20, <1>21, <1>d, ReaderStep

\* What the reader knows of a commit.
LEMMA CommitRead ==
  ASSUME SafetyInv, ReaderCommits
  PROVE  /\ wire # <<>> /\ wire' = Tail(wire)
         /\ UNCHANGED <<shot, analyzed, encoder, agent, inbox, slot, compositor, budget, fault>>
         /\ Head(wire) = wire[1] /\ wire[1].type = "commit" /\ Len(wire) >= 1 /\ Len(wire) \in Nat
         /\ wire' = <<>> <=> Len(wire) = 1
         /\ wire[1].epoch \in 2..agent.epoch /\ agent.epoch \in Nat /\ wire[1].epoch \in Nat
         /\ wire[1].frame \in 1..Len(shot) /\ wire[1].frame \in Nat /\ wire[1].base \in Nat
         /\ Fits(wire[1])
         /\ \A i \in 1..Len(wire') : wire'[i].type # "rect"
         /\ wire' # <<>> => /\ wire'[1].type = "reset" /\ wire'[1].epoch \in Nat
                            /\ wire'[1].epoch > wire[1].epoch
         /\ Opened => Opened'
         /\ Streaming => Streaming'
         /\ Delivered => Delivered'
         /\ Complete => \/ Complete'
                        \/ /\ wire' = <<>> /\ wire[1].epoch = agent.epoch
                           /\ wire[1].frame = agent.snapFrame /\ wire[1].base = 0
         /\ ~Fresh /\ ~AtExact
         /\ Transaction => Len(wire) = 1 /\ OurRect(wire[1]) /\ reader.rect # NoRect /\ reader.digest = agent.digest
         /\ wire[1].epoch = agent.epoch =>
              \/ agent.mode = "awaiting_ack" /\ Len(wire) = 1
              \/ agent.mode = "awaiting_rect_ack"
         /\ \A i \in 1..Len(cmds) : cmds[i].kind \in {"commit", "rect"} /\ cmds[i].epoch = agent.epoch
              => agent.mode = "awaiting_rect_ack"
<1>0. /\ wire # <<>> /\ Head(wire).type = "commit" /\ wire' = Tail(wire)
      /\ UNCHANGED <<shot, analyzed, encoder, agent, inbox, slot, compositor, budget, fault>>
  BY DEF ReaderCommits, Reads, sourceVars, agentVars, limitVars
<1>1. Shapes /\ WireInv /\ OwnInv
  BY DEF SafetyInv
<1> DEFINE m == wire[1]
<1>2. /\ m = wire[1] /\ m \in Messages /\ Head(wire) = m /\ Right(m) /\ Fits(m)
      /\ Len(wire') = Len(wire) - 1 /\ Len(wire) \in Nat /\ Len(wire) >= 1
      /\ \A i \in 1..Len(wire') : wire'[i] = wire[i + 1] /\ i + 1 \in 1..Len(wire)
      /\ wire' = <<>> <=> Len(wire) = 1
      /\ wire' # <<>> => Len(wire) > 1 /\ wire'[1] = wire[2] /\ Follows(m, wire[2])
      /\ \A i \in 1..Len(cmds) : cmds[i].kind \in {"commit", "rect"} /\ cmds[i].epoch = agent.epoch
              => agent.mode = "awaiting_rect_ack"
  BY <1>0, ReadWire
<1> HIDE DEF m
<1>3. /\ m.type = "commit" /\ m.epoch \in Nat /\ m.epoch \in 2..agent.epoch /\ agent.epoch \in Nat
      /\ m.frame \in Nat /\ m.base \in Nat /\ m.frame \in 1..Len(shot)
  <2>1. m.type = "commit" /\ m.epoch \in Nat /\ m.frame \in Nat /\ m.base \in Nat
    BY <1>0, <1>2, MessageFields
  <2>2. agent.epoch \in Nat  BY <1>1, ReaderType
  <2> QED  BY <1>2, <2>1, <2>2 DEF Right
<1>4. wire' # <<>> => /\ wire'[1].type = "reset" /\ wire'[1].epoch \in Nat
                      /\ wire'[1].epoch > m.epoch
  <2> SUFFICES ASSUME wire' # <<>>
               PROVE  /\ wire'[1].type = "reset" /\ wire'[1].epoch \in Nat
                      /\ wire'[1].epoch > m.epoch
    OBVIOUS
  <2>1. 2 \in 1..Len(wire) /\ Follows(m, wire[2])  BY <1>2
  <2>2. wire[2] \in Messages  BY <1>1, <2>1, ReaderType
  <2>3. /\ wire[2].type \in {"reset", "video", "chunk", "rect", "commit"} /\ wire[2].epoch \in Nat
    BY <2>2, MessageFields
  <2>4. wire[2].type = "reset"  BY <1>3, <2>1, <2>3 DEF Follows
  <2>5. wire[2].epoch > m.epoch  BY <2>1, <2>4 DEF Follows
  <2> QED  BY <1>2, <2>3, <2>4, <2>5
<1>5. \A i \in 1..Len(wire') : wire'[i].type # "rect"
  <2> SUFFICES ASSUME NEW i \in 1..Len(wire'), wire'[i].type = "rect" PROVE FALSE  OBVIOUS
  <2>1. wire[i + 1].type = "rect" /\ i + 1 \in 1..Len(wire)  BY <1>2
  <2>2. i + 1 <= 2  BY <1>1, <2>1 DEF WireInv
  <2>3. i = 1 /\ wire' # <<>>  BY <1>2, <2>1, <2>2
  <2> QED  BY <1>4, <2>3
<1>6. Opened => Opened'  BY <1>0, <1>2, <1>3, LastRead
<1>7. Streaming => Streaming'  BY <1>0, <1>2, <1>3, LastRead
<1>8. Delivered => Delivered'  BY <1>0, <1>2, <1>3, LastRead
<1>9. Complete => \/ Complete'
                  \/ /\ wire' = <<>> /\ m.epoch = agent.epoch
                     /\ m.frame = agent.snapFrame /\ m.base = 0
  BY <1>0, <1>2, <1>3, LastRead
<1>10. ~Fresh /\ ~AtExact  BY <1>0, <1>2, <1>3 DEF Fresh, AtExact, Final
<1>11. Transaction => Len(wire) = 1 /\ OurRect(m) /\ reader.rect # NoRect /\ reader.digest = agent.digest
  BY <1>0, <1>2, <1>3 DEF Transaction, OnWire
<1>12. m.epoch = agent.epoch =>
         \/ agent.mode = "awaiting_ack" /\ Len(wire) = 1
         \/ agent.mode = "awaiting_rect_ack"
  BY <1>1, <1>2, <1>3 DEF OwnInv, OwnWire
<1>13. OurRect(m) <=> OurRect(wire[1])  BY <1>2 DEF OurRect
<1> QED
  BY SMTT(60), <1>0, <1>2, <1>3, <1>4, <1>5, <1>6, <1>7, <1>8, <1>9, <1>10, <1>11, <1>12, <1>13

\* A commit of chunks is complete, and the reader's digest is the agent's.
LEMMA CommitsSnapshotInv ==
  ASSUME SafetyInv, ReaderCommits, reader.rect = NoRect PROVE SafetyInv'
<1>1. /\ Shapes /\ WireInv /\ ReaderInv /\ StreamInv /\ CmdsInv /\ UploadInv /\ SlotInv
      /\ RectAhead /\ BaseInv /\ OwnInv
  BY DEF SafetyInv
<1> DEFINE m == wire[1]
           digest == SnapshotDigest(reader.snap.parts)
           x == CommitSnap(m, digest)
<1>2. /\ m = wire[1] /\ wire # <<>> /\ wire' = Tail(wire)
      /\ UNCHANGED <<shot, analyzed, encoder, agent, inbox, slot, compositor, budget, fault>>
      /\ Head(wire) = m /\ m.type = "commit" /\ Len(wire) >= 1 /\ Len(wire) \in Nat
      /\ wire' = <<>> <=> Len(wire) = 1
      /\ m.epoch \in 2..agent.epoch /\ agent.epoch \in Nat /\ m.epoch \in Nat
      /\ m.frame \in 1..Len(shot) /\ m.frame \in Nat /\ m.base \in Nat
      /\ Fits(m)
      /\ \A i \in 1..Len(wire') : wire'[i].type # "rect"
      /\ wire' # <<>> => /\ wire'[1].type = "reset" /\ wire'[1].epoch \in Nat
                         /\ wire'[1].epoch > m.epoch
      /\ Opened => Opened'
      /\ Streaming => Streaming'
      /\ Delivered => Delivered'
      /\ Complete => \/ Complete'
                     \/ /\ wire' = <<>> /\ m.epoch = agent.epoch
                        /\ m.frame = agent.snapFrame /\ m.base = 0
      /\ ~Fresh /\ ~AtExact /\ ~Transaction
      /\ m.epoch = agent.epoch =>
           \/ agent.mode = "awaiting_ack" /\ Len(wire) = 1
           \/ agent.mode = "awaiting_rect_ack"
      /\ \A i \in 1..Len(cmds) : cmds[i].kind \in {"commit", "rect"} /\ cmds[i].epoch = agent.epoch
           => agent.mode = "awaiting_rect_ack"
  BY CommitRead
<1> HIDE DEF m
<1>3. agent.mode \notin {"exact", "awaiting_rect_ack"}
  BY <1>1, <1>2 DEF StreamInv
<1>4. /\ m.base = 0 /\ reader.snap # NoSnap
      /\ reader.resetEpoch = m.epoch /\ reader.snap.frame = m.frame /\ reader.snap.epoch = m.epoch
      /\ Len(reader.snap.parts) = Chunks
      /\ m.epoch > reader.epoch
      /\ \A i \in 1..Chunks : reader.snap.parts[i] = shot[m.frame]
  BY SMTT(60), <1>1, <1>2 DEF Fits, ReaderInv
<1>5. SnapshotComplete(m)  BY <1>4 DEF SnapshotComplete
<1>6. /\ reader' = Moved("snapshot", m, digest)
      /\ cmds' = Append(cmds, x) /\ ctl' = ctl
  BY <1>2, <1>5 DEF ReaderCommits, CommitsSnapshot
<1>7. /\ digest \in Digests
      /\ digest = [i \in 1..Chunks |-> <<0, None, shot[m.frame]>>]
  <2>1. reader.snap.parts \in Seq(Contents) /\ Chunks \in Nat  BY <1>1, ReaderType, VisualAssumption
  <2>2. DOMAIN reader.snap.parts = 1..Chunks  BY <1>4, <2>1
  <2>3. digest = [i \in 1..Chunks |-> <<0, None, shot[m.frame]>>]
    BY <1>4, <2>2 DEF SnapshotDigest
  <2>4. shot[m.frame] \in Contents
    <3>1. shot \in Seq(Contents)  BY <1>1 DEF Shapes
    <3> QED  BY <1>2, <3>1
  <2>5. [i \in 1..Chunks |-> <<0, None, shot[m.frame]>>] \in Seq(Entry)
    <3>1. <<0, None, shot[m.frame]>> \in Entry  BY <2>4 DEF Entry
    <3> QED  BY <2>1, <3>1
  <2> QED  BY <2>3, <2>5 DEF Digests
<1> HIDE DEF digest
<1>8. /\ reader' \in ReaderState /\ reader'.snap = NoSnap /\ reader'.rect = NoRect
      /\ reader'.resetEpoch = 0 /\ reader'.poisoned = reader.poisoned
      /\ reader'.epoch = m.epoch /\ reader'.rep = "snapshot"
      /\ reader'.frame = m.frame /\ reader'.digest = digest
  BY ZenonT(60), <1>1, <1>2, <1>6, <1>7, ReaderType DEF ReaderState, Moved
<1>b. /\ x \in Commands /\ x.kind = "commit" /\ x.frame = m.frame /\ x.epoch = m.epoch
      /\ x.digest = digest
  BY <1>2, <1>7 DEF CommitSnap, Commands
<1> HIDE DEF x
<1>c. /\ cmds' \in Seq(Commands) /\ cmds' # <<>> /\ Len(cmds) \in Nat /\ Len(cmds') = Len(cmds) + 1
      /\ \A i \in 1..Len(cmds) : cmds'[i] = cmds[i]
      /\ cmds'[Len(cmds) + 1] = x
      /\ cmds # <<>> => Len(cmds) >= 1
      /\ cmds = <<>> => Len(cmds) = 0
  <2>1. cmds \in Seq(Commands)  BY <1>1, ReaderType
  <2>2. (cmds # <<>> => Len(cmds) >= 1) /\ (cmds = <<>> => Len(cmds) = 0)  BY <2>1
  <2> QED  BY <1>6, <1>b, <2>1, <2>2, AppendOf
<1>9. wire' # <<>> => Fits(wire[1])'
  BY SMTT(60), <1>2, <1>8 DEF Fits
<1>13. ReaderInv'
  BY <1>1, <1>2, <1>8 DEF ReaderInv
<1>14. StreamInv'
  <2>3. Complete => Complete'
    <3>1. ASSUME wire' = <<>>, m.epoch = agent.epoch, m.frame = agent.snapFrame PROVE Complete'
      BY <1>2, <1>7, <1>8, <3>1 DEF Complete, Clear, SentDigest
    <3> QED  BY <1>2, <3>1
  <2> QED  BY <1>1, <1>2, <2>3 DEF StreamInv
<1>15. CmdsInv'
  <2>1. \A i \in 1..Len(cmds') : CmdRight(cmds[i])'
    <3>1. \A i \in 1..Len(cmds') : \/ i \in 1..Len(cmds) /\ cmds'[i] = cmds[i]
                                   \/ cmds'[i] = x
      BY <1>c
    <3>2. \A i \in 1..Len(cmds) : CmdRight(cmds[i])  BY <1>1 DEF CmdsInv
    <3>3. m.epoch \in 1..agent'.epoch /\ m.frame \in 1..Len(shot')  BY <1>2
    <3>4. shot' = shot /\ agent' = agent  BY <1>2
    <3> QED  BY <1>b, <3>1, <3>2, <3>3, <3>4 DEF CmdRight
  <2>2. ASSUME NEW i \in 1..(Len(cmds') - 1) PROVE SameUpload(cmds[i], cmds[i + 1])'
    <3>1. CASE i \in 1..(Len(cmds) - 1)
      <4>1. cmds'[i] = cmds[i] /\ cmds'[i + 1] = cmds[i + 1]  BY <1>c, <3>1
      <4> QED  BY <1>1, <3>1, <4>1 DEF CmdsInv, SameUpload
    <3>2. CASE i = Len(cmds) /\ cmds # <<>>
      <4>1. cmds'[i] = cmds[i]  BY <1>c, <3>2
      <4>2. cmds[i].kind = "chunk" /\ cmds[i].frame = m.frame
        BY <1>1, <1>4, <3>2 DEF CmdsInv
      <4> QED  BY <1>b, <1>c, <3>2, <4>1, <4>2 DEF SameUpload
    <3> QED  BY <1>c, <3>1, <3>2
  <2>3. cmds'[Len(cmds')] = x  BY <1>c
  <2> QED  BY <1>8, <1>b, <1>c, <2>1, <2>2, <2>3 DEF CmdsInv
<1>16. UploadInv'
  <2>1. cmds # <<>> => cmds'[1] = cmds[1]  BY <1>c
  <2>2. cmds = <<>> => cmds'[1].frame = m.frame /\ reader.snap.frame = m.frame
    BY <1>4, <1>b, <1>c
  <2>3. compositor' = compositor /\ shot' = shot  BY <1>2
  <2> QED  BY <1>1, <1>c, <2>1, <2>2, <2>3 DEF UploadInv
<1>17. SlotInv'  BY <1>1, <1>2, <1>4 DEF SlotInv
<1>18. RectAhead'
  <2>2. ASSUME NEW i \in 1..Len(cmds'), cmds'[i].kind = "rect"
        PROVE  AtBase(cmds[i].base)' /\ (i = 1 \/ (i = 2 /\ cmds'[1].kind = "cancel"))
    <3>1. i \in 1..Len(cmds) /\ cmds'[i] = cmds[i] /\ cmds'[1] = cmds[1]
      BY <1>b, <1>c, <2>2
    <3> QED  BY <1>1, <1>2, <2>2, <3>1 DEF RectAhead, AtBase
  <2> QED  BY <1>2, <1>8, <2>2 DEF RectAhead
<1>19. BaseInv'  BY <1>2, <1>3 DEF BaseInv
<1>20. OwnCmds'
  <2>1. ASSUME NEW i \in 1..Len(cmds'), cmds'[i].kind \in {"commit", "rect"},
               cmds'[i].epoch = agent.epoch
        PROVE  i = Len(cmds') /\ cmds'[i] = x
    <3>1. \A j \in 1..Len(cmds) : ~(cmds[j].kind \in {"commit", "rect"} /\ cmds[j].epoch = agent.epoch)
      BY <1>2, <1>3
    <3> QED  BY <1>c, <2>1, <3>1
  <2>2. ASSUME m.epoch = agent.epoch
        PROVE  /\ agent.mode = "awaiting_ack" /\ wire' = <<>>
               /\ m.frame = agent.snapFrame /\ digest = SentDigest
    <3>1. agent.mode = "awaiting_ack" /\ wire' = <<>>  BY <1>2, <1>3, <2>2
    <3>2. Complete  BY <1>1, <3>1 DEF StreamInv
    <3>3. m.frame = agent.snapFrame  BY <1>2, <3>1, <3>2, LastRead
    <3> QED  BY <1>7, <3>1, <3>3 DEF SentDigest
  <2>3. SentDigest' = SentDigest  BY <1>2 DEF SentDigest
  <2> QED  BY <1>2, <1>b, <2>1, <2>2, <2>3 DEF OwnCmds
<1>21. agent.epoch # 1 /\ slot \in Encoded  BY SMTT(60), <1>1, <1>2, ReaderType
<1> QED
  BY <1>2, <1>6, <1>8, <1>9, <1>13, <1>14, <1>15, <1>16, <1>17,
     <1>18, <1>19, <1>20, <1>21, <1>c, ReaderStep

\* A commit of a rectangle advances the digest as the agent's did.
LEMMA CommitsRectInv ==
  ASSUME SafetyInv, ReaderCommits, reader.rect # NoRect PROVE SafetyInv'
<1>1. /\ Shapes /\ Plan /\ WireInv /\ ReaderInv /\ StreamInv /\ CmdsInv /\ UploadInv /\ SlotInv
      /\ RectAhead /\ BaseInv /\ OwnInv
  BY DEF SafetyInv
<1> DEFINE m == wire[1]
           r == reader.rect
           digest == RectDigest(reader.digest, r.frame, r.from, r.to)
           x == PatchRect(r, digest)
<1>2. /\ m = wire[1] /\ r = reader.rect /\ wire # <<>> /\ wire' = Tail(wire)
      /\ UNCHANGED <<shot, analyzed, encoder, agent, inbox, slot, compositor, budget, fault>>
      /\ Head(wire) = m /\ m.type = "commit" /\ Len(wire) >= 1 /\ Len(wire) \in Nat
      /\ wire' = <<>> <=> Len(wire) = 1
      /\ m.epoch \in 2..agent.epoch /\ agent.epoch \in Nat /\ m.epoch \in Nat
      /\ m.frame \in 1..Len(shot) /\ m.frame \in Nat /\ m.base \in Nat
      /\ Fits(m)
      /\ \A i \in 1..Len(wire') : wire'[i].type # "rect"
      /\ wire' # <<>> => /\ wire'[1].type = "reset" /\ wire'[1].epoch \in Nat
                         /\ wire'[1].epoch > m.epoch
      /\ Opened => Opened'
      /\ Streaming => Streaming'
      /\ Delivered => Delivered'
      /\ Complete => \/ Complete'
                     \/ wire' = <<>> /\ m.base = 0
      /\ ~Fresh /\ ~AtExact
      /\ Transaction => Len(wire) = 1 /\ OurRect(m) /\ reader.digest = agent.digest
      /\ m.epoch = agent.epoch =>
           \/ agent.mode = "awaiting_ack" /\ Len(wire) = 1
           \/ agent.mode = "awaiting_rect_ack"
      /\ \A i \in 1..Len(cmds) : cmds[i].kind \in {"commit", "rect"} /\ cmds[i].epoch = agent.epoch
           => agent.mode = "awaiting_rect_ack"
  BY CommitRead
<1> HIDE DEF m
<1>3. agent.mode # "exact"
  BY <1>1, <1>2 DEF StreamInv
<1>4. /\ reader.snap = NoSnap /\ r # NoRect
      /\ r.epoch = m.epoch /\ r.frame = m.frame /\ r.base = m.base
      /\ r.base \in 1..Len(shot) /\ r.base \in Nat /\ r.base < r.frame
      /\ r.from = shot[r.base] /\ r.to = shot[r.frame]
      /\ reader.rep \in {"snapshot", "rect"}
  BY <1>1, <1>2, ReaderType DEF Fits, ReaderInv, RectComplete
<1>a. AtBase(r.base) /\ Unhurried  BY <1>1, <1>4 DEF RectAhead
<1>5. RectComplete(m)  BY <1>4 DEF RectComplete
<1>6. /\ reader' = Moved("rect", m, digest)
      /\ cmds' = Append(cmds, x) /\ ctl' = ctl
  BY <1>2, <1>4, <1>5 DEF ReaderCommits, CommitsRect
<1>7. /\ digest \in Digests /\ digest = RectDigest(reader.digest, r.frame, shot[r.base], shot[r.frame])
      /\ shot[r.base] \in Contents /\ shot[r.frame] \in Contents
  <2>1. shot \in Seq(Contents)  BY <1>1 DEF Shapes
  <2>2. shot[r.base] \in Contents /\ shot[r.frame] \in Contents  BY <1>2, <1>4, <2>1
  <2>3. reader.digest \in Seq(Entry)  BY <1>1, ReaderType DEF Digests
  <2>4. <<r.frame, r.from, r.to>> \in Entry  BY SMTT(60), <1>2, <1>4, <2>2 DEF Entry
  <2>5. digest \in Seq(Entry)  BY <2>3, <2>4, AppendOf DEF RectDigest
  <2> QED  BY <1>4, <2>2, <2>5 DEF Digests
<1> HIDE DEF digest
<1>8. /\ reader' \in ReaderState /\ reader'.snap = NoSnap /\ reader'.rect = NoRect
      /\ reader'.resetEpoch = 0 /\ reader'.poisoned = reader.poisoned
      /\ reader'.epoch = m.epoch /\ reader'.rep = "rect"
      /\ reader'.frame = m.frame /\ reader'.digest = digest
  BY <1>1, <1>2, <1>6, <1>7, ReaderType DEF ReaderState, Moved
<1>b. /\ x \in Commands /\ x.kind = "rect" /\ x.frame = m.frame /\ x.epoch = m.epoch /\ x.base = m.base
      /\ x.digest = digest /\ x.from = shot[m.base] /\ x.to = shot[m.frame]
  BY <1>2, <1>4, <1>7 DEF PatchRect, Commands
<1> HIDE DEF x
<1>c. /\ cmds' \in Seq(Commands) /\ cmds' # <<>> /\ Len(cmds) \in Nat /\ Len(cmds') = Len(cmds) + 1
      /\ \A i \in 1..Len(cmds) : cmds'[i] = cmds[i]
      /\ cmds'[Len(cmds) + 1] = x
  <2>1. cmds \in Seq(Commands)  BY <1>1, ReaderType
  <2> QED  BY <1>6, <1>b, <2>1, AppendOf
<1>e. /\ \A i \in 1..Len(cmds) : cmds[i].kind = "cancel"
      /\ Len(cmds) \in {0, 1}
  <2>1. \A i \in 1..Len(cmds) : i = 1 /\ cmds[i].kind = "cancel"  BY <1>a DEF Unhurried
  <2>2. Len(cmds) \in Nat /\ (Len(cmds) >= 1 => Len(cmds) \in 1..Len(cmds))  BY <1>c
  <2>3. Len(cmds) >= 1 => Len(cmds) = 1  BY <2>1, <2>2
  <2> QED  BY <2>1, <2>2, <2>3
<1>9. wire' # <<>> => Fits(wire[1])'
  BY SMTT(60), <1>2, <1>8 DEF Fits
<1>13. ReaderInv'
  BY <1>1, <1>2, <1>8 DEF ReaderInv
<1>t. agent.mode = "awaiting_rect_ack" =>
        /\ wire' = <<>> /\ OurRect(m) /\ digest = agent.rectDigest
  <2> SUFFICES ASSUME agent.mode = "awaiting_rect_ack"
               PROVE  wire' = <<>> /\ OurRect(m) /\ digest = agent.rectDigest
    OBVIOUS
  <2>1. Transaction  BY <1>1 DEF StreamInv
  <2>2. wire' = <<>> /\ OurRect(m) /\ reader.digest = agent.digest  BY <1>2, <2>1
  <2>3. agent.rectDigest = RectDigest(agent.digest, agent.target, shot[agent.exactFrame], shot[agent.target])
    BY <1>1 DEF Plan
  <2>4. r.frame = agent.target /\ r.base = agent.exactFrame  BY <1>4, <2>2 DEF OurRect
  <2> QED  BY <1>7, <2>2, <2>3, <2>4
<1>14. StreamInv'
  <2>3. Complete => Complete'  BY <1>2, <1>4
  <2>4. agent.mode = "awaiting_rect_ack" => Transaction'
    BY <1>2, <1>8, <1>t DEF Transaction, OurRect, Clear
  <2> QED  BY <1>1, <1>2, <1>3, <2>3, <2>4 DEF StreamInv
<1>15. CmdsInv'
  <2>1. \A i \in 1..Len(cmds') : CmdRight(cmds[i])'
    <3>1. \A i \in 1..Len(cmds') : \/ i \in 1..Len(cmds) /\ cmds'[i] = cmds[i]
                                   \/ cmds'[i] = x
      BY <1>c
    <3>2. \A i \in 1..Len(cmds) : CmdRight(cmds[i])  BY <1>1 DEF CmdsInv
    <3>3. m.epoch \in 1..agent'.epoch /\ m.frame \in 1..Len(shot')  BY <1>2
    <3>4. shot' = shot /\ agent' = agent  BY <1>2
    <3> QED  BY ZenonT(60), <1>b, <1>4, <3>1, <3>2, <3>3, <3>4 DEF CmdRight
  <2>2. ASSUME NEW i \in 1..(Len(cmds') - 1) PROVE SameUpload(cmds[i], cmds[i + 1])'
    <3>1. i = 1 /\ i + 1 = Len(cmds) + 1  BY <1>c, <1>e
    <3> QED  BY <1>b, <1>c, <3>1 DEF SameUpload
  <2>3. cmds'[Len(cmds')] = x  BY <1>c
  <2> QED  BY <1>8, <1>b, <1>c, <2>1, <2>2, <2>3 DEF CmdsInv
<1>16. UploadInv'
  <2>3. compositor' = compositor  BY <1>2
  <2> QED  BY <1>a, <2>3 DEF UploadInv, AtBase
<1>17. SlotInv'  BY <1>1, <1>2, <1>4 DEF SlotInv
<1>18. RectAhead'
  <2>1. \A i \in 1..Len(cmds') : cmds'[i].kind = "rect" => cmds'[i] = x
    BY <1>c, <1>e
  <2>2. \A i \in 1..Len(cmds') : i = 1 \/ (i = 2 /\ cmds'[1].kind = "cancel")
    BY <1>c, <1>e
  <2>3. \A b : b = m.base => AtBase(b)'
    <3>1. compositor' = compositor /\ shot' = shot  BY <1>2
    <3> QED  BY <1>4, <1>a, <3>1 DEF AtBase
  <2>4. \A i \in 1..Len(cmds') : cmds'[i].kind = "rect" => AtBase(cmds[i].base)'
    <3> SUFFICES ASSUME NEW i \in 1..Len(cmds'), cmds'[i].kind = "rect" PROVE AtBase(cmds[i].base)'
      OBVIOUS
    <3>1. cmds'[i].base = m.base  BY <1>b, <2>1
    <3> QED  BY <2>3, <3>1 DEF AtBase
  <2> QED  BY <1>2, <1>8, <2>2, <2>4 DEF RectAhead
<1>19. BaseInv'
  <2>1. agent.mode = "awaiting_rect_ack" => TheRect(x)
    BY <1>b, <1>t DEF TheRect, OurRect
  <2>2. agent.mode = "awaiting_rect_ack" =>
          \/ Len(cmds') = 1 /\ TheRect(cmds'[1])
          \/ Len(cmds') = 2 /\ TheRect(cmds'[2])
    BY <1>c, <1>e, <2>1
  <2>3. agent' = agent  BY <1>2
  <2> QED  BY <1>3, <2>2, <2>3 DEF BaseInv, TheRect, OurRect
<1>20. OwnCmds'
  <2>1. \A i \in 1..Len(cmds') : cmds'[i].kind \in {"commit", "rect"} => cmds'[i] = x
    BY <1>c, <1>e
  <2>2. m.epoch = agent.epoch => agent.mode = "awaiting_rect_ack"
    <3> SUFFICES ASSUME agent.mode = "awaiting_ack", Len(wire) = 1 PROVE FALSE  BY <1>2
    <3>1. Complete  BY <1>1 DEF StreamInv
    <3>2. wire[1].base = 0  BY <1>2, <3>1, LastRead
    <3> QED  BY <1>2, <1>4, <3>2
  <2>3. ASSUME NEW i \in 1..Len(cmds'), cmds'[i].kind \in {"commit", "rect"},
               cmds'[i].epoch = agent'.epoch
        PROVE  agent'.mode = "awaiting_rect_ack"
    <3>1. cmds'[i] = x /\ agent' = agent  BY <1>2, <2>1, <2>3
    <3> QED  BY <1>b, <2>2, <2>3, <3>1
  <2> QED  BY <2>3 DEF OwnCmds
<1>21. agent.epoch # 1 /\ slot \in Encoded  BY SMTT(60), <1>1, <1>2, ReaderType
<1> QED
  BY <1>2, <1>6, <1>8, <1>9, <1>13, <1>14, <1>15, <1>16, <1>17,
     <1>18, <1>19, <1>20, <1>21, <1>c, ReaderStep

LEMMA ReaderCommitsInv == ASSUME SafetyInv, ReaderCommits PROVE SafetyInv'
BY CommitsSnapshotInv, CommitsRectInv

\* Video arrives behind a reset with an IDR, or where video already is.
LEMMA DecodesInv == ASSUME SafetyInv, ReaderDecodes PROVE SafetyInv'
<1>0. /\ wire # <<>> /\ Head(wire).type = "video" /\ wire' = Tail(wire)
      /\ UNCHANGED <<shot, analyzed, encoder, agent, inbox, ctl, compositor, budget>>
  BY DEF ReaderDecodes, Reads, sourceVars, agentVars
<1>1. /\ Shapes /\ Begun /\ WireInv /\ ReaderInv /\ StreamInv /\ CmdsInv /\ UploadInv /\ SlotInv
      /\ RectAhead /\ BaseInv /\ OwnInv
  BY DEF SafetyInv
<1> DEFINE m == wire[1]
<1>2. /\ m = wire[1] /\ m \in Messages /\ Head(wire) = m /\ Right(m) /\ Fits(m)
      /\ Len(wire') = Len(wire) - 1 /\ Len(wire) \in Nat /\ Len(wire) >= 1
      /\ \A i \in 1..Len(wire') : wire'[i] = wire[i + 1] /\ i + 1 \in 1..Len(wire)
      /\ wire' = <<>> <=> Len(wire) = 1
      /\ wire' # <<>> => Len(wire) > 1 /\ wire'[1] = wire[2] /\ Follows(m, wire[2])
      /\ \A i \in 1..Len(cmds) : cmds[i].kind \in {"commit", "rect"} /\ cmds[i].epoch = agent.epoch
              => agent.mode = "awaiting_rect_ack"
  BY <1>0, ReadWire
<1> HIDE DEF m
<1>3. /\ m.type = "video" /\ m.epoch \in Nat /\ m.epoch \in 1..agent.epoch /\ agent.epoch \in Nat
      /\ m.frame \in Nat /\ m.frame \in 1..Len(shot) /\ m.key \in BOOLEAN
  <2>1. m.type = "video" /\ m.epoch \in Nat /\ m.frame \in Nat /\ m.key \in BOOLEAN
    BY <1>0, <1>2, MessageFields
  <2>2. agent.epoch \in Nat  BY <1>1, ReaderType
  <2> QED  BY <1>2, <2>1, <2>2 DEF Right
<1>4. /\ reader.snap = NoSnap /\ reader.rect = NoRect
      /\ \/ reader.rep = "video" /\ reader.epoch = m.epoch /\ reader.resetEpoch = 0
         \/ m.key /\ reader.resetEpoch = m.epoch
         \/ m.key /\ reader.rep = "none" /\ reader.resetEpoch = 0
  BY <1>2, <1>3 DEF Fits, Clear
<1>5. VideoLegal(m)
  BY <1>4 DEF VideoLegal, OpensVideo
<1>6. /\ cmds' = cmds \o <<>> \o <<>>
      /\ reader' = (IF OpensVideo(m) THEN Moved("video", m, <<>>)
                                     ELSE [reader EXCEPT !.snap = NoSnap, !.rect = NoRect])
      /\ slot' = [frame |-> m.frame, epoch |-> m.epoch, key |-> m.key]
      /\ fault' = fault
  BY <1>2, <1>4, <1>5 DEF ReaderDecodes
<1>7. cmds' = cmds  BY <1>1, <1>6, ReaderType
<1>8. /\ reader' \in ReaderState /\ reader'.snap = NoSnap /\ reader'.rect = NoRect
      /\ reader'.resetEpoch = 0 /\ reader'.poisoned = reader.poisoned
      /\ reader'.epoch = m.epoch /\ reader'.rep = "video"
  <2>1. CASE OpensVideo(m)
    <3>1. <<>> \in Digests  BY DEF Digests
    <3>2. reader \in ReaderState /\ NoSnap \in SnapState /\ NoRect \in RectState  BY <1>1, ReaderType
    <3>3. reader' = Moved("video", m, <<>>)  BY <1>6, <2>1
    <3>4. reader' \in ReaderState  BY <1>3, <3>1, <3>2, <3>3 DEF ReaderState, Moved
    <3> QED  BY <3>2, <3>3, <3>4 DEF ReaderState, Moved
  <2>2. CASE ~OpensVideo(m)
    <3>1. reader.rep = "video" /\ reader.epoch = m.epoch /\ reader.resetEpoch = 0
      <4>1. reader.rep = "video" /\ reader.epoch = m.epoch  BY <2>2 DEF OpensVideo
      <4>2. reader.resetEpoch # m.epoch
        <5> SUFFICES ASSUME reader.resetEpoch = m.epoch PROVE FALSE  OBVIOUS
        <5>1. m.epoch # 0  BY <1>3
        <5>2. reader.resetEpoch > reader.epoch  BY <1>1, <5>1 DEF ReaderInv
        <5> QED  BY <1>3, <4>1, <5>2
      <4> QED  BY <1>4, <4>1, <4>2
    <3>2. reader' = [reader EXCEPT !.snap = NoSnap, !.rect = NoRect]  BY <1>6, <2>2
    <3> QED  BY <1>1, <3>1, <3>2, ReaderType DEF ReaderState
  <2> QED  BY <2>1, <2>2
<1>s. slot' \in Encoded /\ slot'.frame = m.frame /\ slot'.epoch = m.epoch
  BY <1>3, <1>6 DEF Encoded
<1>9. wire' # <<>> => Fits(wire[1])'
  <2> SUFFICES ASSUME wire' # <<>> PROVE Fits(wire[1])'  OBVIOUS
  <2> DEFINE n == wire[2]
  <2>1. Follows(m, n) /\ n = wire'[1] /\ 2 \in 1..Len(wire)  BY <1>2
  <2>2. n.epoch \in Nat
    <3>1. wire[2] \in Messages  BY SMTT(60), <1>1, <2>1, ReaderType
    <3> QED  BY <2>1, <3>1, MessageFields
  <2> HIDE DEF n
  <2>4. n.type \notin {"chunk", "rect", "commit"}  BY <1>3, <2>1 DEF Follows
  <2>5. n.type = "reset" => n.epoch > m.epoch  BY <2>1 DEF Follows
  <2>6. n.type = "video" => n.epoch = m.epoch  BY <2>1 DEF Follows
  <2> QED  BY SMTT(60), <1>3, <1>8, <2>1, <2>2, <2>4, <2>5, <2>6 DEF Fits, Clear
<1>10. \A i \in 1..Len(wire') : wire'[i].type # "rect"
  <2> SUFFICES ASSUME NEW i \in 1..Len(wire'), wire'[i].type = "rect" PROVE FALSE  OBVIOUS
  <2>1. wire[i + 1].type = "rect" /\ i + 1 \in 1..Len(wire)  BY <1>2
  <2>2. i + 1 <= 2  BY <1>1, <2>1 DEF WireInv
  <2>3. i = 1 /\ wire' # <<>>  BY <1>2, <2>1, <2>2
  <2>4. Follows(m, wire[2]) /\ wire[2].type = "rect"  BY <1>2, <2>1, <2>3
  <2> QED  BY <1>3, <2>4 DEF Follows
<1>12. Streaming => Streaming'
  <2>1. wire' = <<>> /\ Streaming => Streaming'
    <3>1. wire' = <<>> /\ Streaming => m.epoch = agent.epoch  BY <1>0, <1>2, LastRead
    <3> QED  BY <1>0, <1>8, <3>1 DEF Streaming, Clear
  <2> QED  BY <1>0, <2>1, LastRead
<1>13. ReaderInv'
  BY <1>0, <1>1, <1>3, <1>8 DEF ReaderInv
<1>14. StreamInv'
  <2>1. Opened => Opened'  BY <1>0, <1>2, <1>3, LastRead
  <2>2. Delivered => Delivered'  BY <1>0, <1>2, <1>3, LastRead
  <2>3. Complete => Complete'  BY <1>0, <1>2, <1>3, LastRead
  <2>4. ~Fresh /\ ~AtExact  BY <1>0, <1>2, <1>3 DEF Fresh, AtExact, Final
  <2>6. ~Transaction  BY <1>0, <1>2, <1>3 DEF Transaction, OnWire
  <2> QED  BY <1>0, <1>1, <1>12, <2>1, <2>2, <2>3, <2>4, <2>6 DEF StreamInv
<1>15. CmdsInv'
  BY <1>0, <1>1, <1>4, <1>7, <1>8 DEF CmdsInv, CmdRight, SameUpload
<1>16. UploadInv'
  BY <1>0, <1>1, <1>4, <1>7 DEF UploadInv
<1>17. SlotInv'
  BY <1>0, <1>3, <1>8, <1>s DEF SlotInv
<1>18. RectAhead'
  BY <1>0, <1>1, <1>7, <1>8, <1>10 DEF RectAhead, AtBase
<1>19. BaseInv'
  <2>1. ~Transaction /\ ~AtExact  BY <1>0, <1>2, <1>3 DEF Transaction, OnWire, AtExact, Final
  <2> QED  BY <1>0, <1>1, <2>1 DEF BaseInv, StreamInv
<1>20. OwnCmds'  BY <1>0, <1>2, <1>7 DEF OwnCmds
<1>21. cmds' \in Seq(Commands)  BY <1>1, <1>7, ReaderType
<1> QED
  BY <1>0, <1>6, <1>7, <1>8, <1>s, <1>9, <1>10, <1>12, <1>13, <1>14, <1>15, <1>16, <1>17,
     <1>18, <1>19, <1>20, <1>21, ReaderStep

-----------------------------------------------------------------------------
(* The steps of the source. *)

\* A capture adds a frame: what the frames that were there showed stays.
LEMMA CaptureInv == ASSUME SafetyInv, NEW c \in Contents, Capture(c) PROVE SafetyInv'
<1>0. /\ shot' = Append(shot, c)
      /\ UNCHANGED <<analyzed, encoder, agent, inbox, wire, reader, cmds, slot, compositor, ctl, budget, fault>>
  BY DEF Capture, agentVars, viewerVars, limitVars
<1>1. /\ Shapes /\ Begun /\ Plan /\ WireInv /\ ReaderInv /\ StreamInv /\ EncoderInv /\ CmdsInv
      /\ UploadInv /\ SlotInv /\ RectAhead /\ BaseInv /\ OwnInv /\ AckInv /\ ShownInv /\ Running
  BY DEF SafetyInv
<1>2. /\ shot' \in Seq(Contents) /\ Len(shot') = Len(shot) + 1 /\ Len(shot) \in Nat
      /\ \A i \in 1..Len(shot) : i \in 1..Len(shot') /\ shot'[i] = shot[i]
  <2>1. shot \in Seq(Contents)  BY <1>1 DEF Shapes
  <2> QED  BY <1>0, <2>1, AppendOf
<1>3. Shapes'  BY <1>0, <1>1, <1>2 DEF Shapes
<1>4. Begun'
  <2>1. analyzed.frame \in Nat  BY <1>1 DEF Shapes
  <2> QED  BY <1>0, <1>1, <1>2, <2>1 DEF Begun
<1>p. /\ agent.mode \in {"sending", "awaiting_ack"} => agent.snapFrame \in 1..Len(shot)
      /\ agent.mode \in {"exact", "awaiting_rect_ack"} => agent.exactFrame \in 1..Len(shot)
      /\ agent.mode = "awaiting_rect_ack" => agent.target \in 1..Len(shot)
  BY <1>1 DEF Plan
<1>5. Plan'  BY <1>0, <1>1, <1>2, <1>p DEF Plan
<1>d. agent.mode = "awaiting_ack" => SentDigest' = SentDigest
  BY <1>0, <1>2, <1>p DEF SentDigest
<1>6. WireInv'
  <2>1. \A i \in 1..Len(wire) : Right(wire[i])'
    <3> SUFFICES ASSUME NEW i \in 1..Len(wire) PROVE Right(wire[i])'  BY <1>0
    <3>1. Right(wire[i]) /\ wire' = wire /\ agent' = agent  BY <1>0, <1>1 DEF WireInv
    <3> QED  BY <1>2, <3>1 DEF Right
  <2> QED  BY <1>0, <1>1, <2>1 DEF WireInv, Fits, Follows, Clear, RectComplete
<1>7. ReaderInv'  BY SMTT(60), <1>0, <1>1, <1>2 DEF ReaderInv
<1>8. StreamInv'
  BY <1>0, <1>1, <1>d DEF StreamInv, Opened, Streaming, Fresh, Delivered, Complete, Final, Clear, Based,
         AtExact, Transaction, OnWire, OurRect
<1>9. EncoderInv'
  <2>1. \A f \in Nat : f <= Len(shot) => f <= Len(shot')  BY <1>2
  <2>2. encoder.consumed \in Nat  BY <1>1 DEF Shapes
  <2>3. \A i \in 1..Len(encoder.queue) : encoder.queue[i].frame \in 1..Len(shot')
    BY <1>1, <1>2 DEF EncoderInv
  <2>4. Streaming' <=> Streaming  BY <1>0 DEF Streaming, Final, Clear
  <2> QED  BY <1>0, <1>1, <1>2, <2>1, <2>2, <2>3, <2>4 DEF EncoderInv, Current
<1>c. \A i \in 1..Len(cmds) : CmdRight(cmds[i])  BY <1>1 DEF CmdsInv
<1>10. CmdsInv'
  <2>1. \A i \in 1..Len(cmds') : CmdRight(cmds[i])'
    <3> SUFFICES ASSUME NEW i \in 1..Len(cmds) PROVE CmdRight(cmds[i])'  BY <1>0
    <3>1. CmdRight(cmds[i]) /\ cmds' = cmds /\ agent' = agent  BY <1>0, <1>c
    <3> QED  BY <1>2, <3>1 DEF CmdRight
  <2> QED  BY <1>0, <1>1, <2>1 DEF CmdsInv, SameUpload
<1>11. UploadInv'
  <2>1. reader.snap # NoSnap => shot'[reader.snap.frame] = shot[reader.snap.frame]
    BY <1>1, <1>2 DEF ReaderInv
  <2>2. ASSUME cmds # <<>>, cmds[1].kind \in {"chunk", "commit"}
        PROVE shot'[cmds[1].frame] = shot[cmds[1].frame]
    <3>1. 1 \in 1..Len(cmds)
      <4>1. cmds \in Seq(Commands)  BY <1>1 DEF Shapes
      <4> QED  BY <2>2, <4>1, TailOf
    <3> QED  BY <1>2, <1>c, <2>2, <3>1 DEF CmdRight
  <2> QED  BY <1>0, <1>1, <2>1, <2>2 DEF UploadInv
<1>12. SlotInv'  BY <1>0, <1>1, <1>2 DEF SlotInv
<1>b. \A b \in 1..Len(shot) : AtBase(b) => AtBase(b)'
  BY <1>0, <1>2 DEF AtBase
<1>13. RectAhead'
  <2>1. \A i \in 1..Len(wire) : wire[i].type = "rect" => AtBase(wire[i].base)'
    <3> SUFFICES ASSUME NEW i \in 1..Len(wire), wire[i].type = "rect", NEW b, b = wire[i].base
                 PROVE  AtBase(b)'
      BY <1>0 DEF AtBase
    <3>1. b \in 1..Len(shot) /\ AtBase(b)  BY <1>1 DEF WireInv, Right, RectAhead
    <3> QED  BY <1>b, <3>1
  <2>2. reader.rect # NoRect => AtBase(reader.rect.base)'
    <3> SUFFICES ASSUME reader.rect # NoRect, NEW b, b = reader.rect.base PROVE AtBase(b)'
      BY <1>0 DEF AtBase
    <3>1. b \in 1..Len(shot) /\ AtBase(b)  BY <1>1 DEF ReaderInv, RectAhead
    <3> QED  BY <1>b, <3>1
  <2>3. \A i \in 1..Len(cmds) : cmds[i].kind = "rect" => AtBase(cmds[i].base)'
    <3> SUFFICES ASSUME NEW i \in 1..Len(cmds), cmds[i].kind = "rect", NEW b, b = cmds[i].base
                 PROVE  AtBase(b)'
      BY <1>0 DEF AtBase
    <3>1. b \in 1..Len(shot) /\ AtBase(b)  BY <1>1, <1>c DEF CmdRight, RectAhead
    <3> QED  BY <1>b, <3>1
  <2> QED  BY <1>0, <1>1, <2>1, <2>2, <2>3 DEF RectAhead, Unhurried
<1>14. BaseInv'
  <2>1. agent.mode = "exact" => AtBase(agent.exactFrame)'
    <3> SUFFICES ASSUME agent.mode = "exact", NEW b, b = agent.exactFrame PROVE AtBase(b)'
      BY <1>0 DEF AtBase
    <3> QED  BY <1>1, <1>p, <1>b DEF BaseInv
  <2>2. agent.mode = "awaiting_rect_ack" /\ RectHandled => RectHandled'
    BY <1>0, <1>2, <1>p DEF RectHandled
  <2> QED  BY <1>0, <1>1, <2>1, <2>2 DEF BaseInv, Unhurried, TheRect, OurRect
<1>15. OwnInv'  BY <1>0, <1>1, <1>d DEF OwnInv, OwnWire, OwnCmds
<1>16. AckInv'
  <2>1. \A a : AckRight(a) => AckRight(a)'
    <3> SUFFICES ASSUME NEW a, AckRight(a) PROVE AckRight(a)'  OBVIOUS
    <3>1. agent.mode = "awaiting_ack" /\ SnapDone => SnapDone'
      <4> SUFFICES ASSUME agent.mode = "awaiting_ack", SnapDone, NEW b, b = agent.snapFrame
                   PROVE  AtBase(b)'
        BY <1>0 DEF SnapDone, AtBase
      <4> QED  BY <1>p, <1>b DEF SnapDone
    <3>2. RectDone' <=> RectDone  BY <1>0 DEF RectDone
    <3> QED  BY <1>0, <1>d, <3>1, <3>2 DEF AckRight
  <2> QED  BY <1>0, <1>1, <2>1, AcksUnchanged
<1>17. ShownInv'
  <2>1. compositor.frame \in Nat
    <3>1. compositor \in CompositorState  BY <1>1 DEF Shapes
    <3> QED  BY <3>1 DEF CompositorState
  <2> QED  BY <1>0, <1>1, <1>2, <2>1 DEF ShownInv
<1>18. Running'  BY <1>0, <1>1 DEF Running
<1> QED
  BY <1>3, <1>4, <1>5, <1>6, <1>7, <1>8, <1>9, <1>10, <1>11, <1>12, <1>13, <1>14, <1>15, <1>16,
     <1>17, <1>18 DEF SafetyInv

\* Analysing a frame and a quiet screen touch nothing that was sent.
LEMMA AnalysisInv == ASSUME SafetyInv, Analyze \/ BecomesQuiet PROVE SafetyInv'
<1>0. UNCHANGED <<shot, encoder, agent, inbox, wire, reader, cmds, slot, compositor, ctl, budget, fault>>
  BY DEF Analyze, BecomesQuiet, agentVars, viewerVars, limitVars
<1>1. /\ Shapes /\ Begun /\ Plan /\ WireInv /\ ReaderInv /\ StreamInv /\ EncoderInv /\ CmdsInv
      /\ UploadInv /\ SlotInv /\ RectAhead /\ BaseInv /\ OwnInv /\ AckInv /\ ShownInv /\ Running
  BY DEF SafetyInv
<1>2. /\ analyzed' \in [frame: Nat, content: Nat, quiet: BOOLEAN]
      /\ analyzed'.content <= analyzed'.frame /\ analyzed'.frame <= Len(shot')
      /\ analyzed'.frame = 0 => agent'.epoch = 1
  <2>1. analyzed \in [frame: Nat, content: Nat, quiet: BOOLEAN] /\ Len(shot) \in Nat  BY <1>1 DEF Shapes
  <2>2. /\ analyzed.content <= analyzed.frame /\ analyzed.frame <= Len(shot)
        /\ analyzed.frame = 0 => agent.epoch = 1
    BY <1>1 DEF Begun
  <2>3. CASE Analyze
    <3>1. /\ Len(shot) > analyzed.frame
          /\ \/ analyzed' = [frame |-> Len(shot), content |-> Len(shot), quiet |-> FALSE]
             \/ analyzed' = [analyzed EXCEPT !.frame = Len(shot)]
      BY <2>3 DEF Analyze
    <3>2. analyzed.frame \in Nat /\ analyzed.content \in Nat /\ Len(shot) # 0  BY <2>1, <3>1
    <3>3. /\ analyzed' \in [frame: Nat, content: Nat, quiet: BOOLEAN]
          /\ analyzed'.frame = Len(shot)
          /\ analyzed'.content \in {Len(shot), analyzed.content}
      <4>1. CASE analyzed' = [frame |-> Len(shot), content |-> Len(shot), quiet |-> FALSE]
        BY <2>1, <4>1
      <4>2. CASE analyzed' = [analyzed EXCEPT !.frame = Len(shot)]
        BY <2>1, <4>2
      <4> QED  BY <3>1, <4>1, <4>2
    <3> QED  BY <1>0, <2>1, <2>2, <3>1, <3>2, <3>3
  <2>4. CASE BecomesQuiet
    <3>1. analyzed' = [analyzed EXCEPT !.quiet = TRUE]  BY <2>4 DEF BecomesQuiet
    <3> QED  BY <1>0, <2>1, <2>2, <3>1
  <2> QED  BY <2>3, <2>4
<1>3. Shapes'  BY <1>0, <1>1, <1>2 DEF Shapes
<1>4. Begun'  BY <1>0, <1>1, <1>2 DEF Begun
<1>5. Plan' /\ WireInv' /\ ReaderInv' /\ StreamInv' /\ EncoderInv'  BY <1>0, UpstreamKept
<1>6. CmdsInv' /\ OwnInv'  BY <1>0, <1>1, CommandsKept
<1>7. UploadInv' /\ SlotInv'  BY <1>0, <1>1 DEF UploadInv, SlotInv
<1>8. RectAhead' /\ BaseInv'
  BY <1>0, <1>1 DEF RectAhead, BaseInv, AtBase, Unhurried, RectHandled, TheRect, OurRect
<1>9. AckInv'
  <2>1. \A a : AckRight(a) => AckRight(a)'
    BY <1>0 DEF AckRight, SnapDone, RectDone, AtBase, SentDigest
  <2> QED  BY <1>0, <1>1, <2>1, AcksUnchanged
<1>10. ShownInv' /\ Running'  BY <1>0, <1>1 DEF ShownInv, Running
<1> QED  BY <1>3, <1>4, <1>5, <1>6, <1>7, <1>8, <1>9, <1>10 DEF SafetyInv

-----------------------------------------------------------------------------
(* Steps that leave alone what the two sides agree on. *)

\* The agent may change its timers and what it considered, nothing else.
AgentKept ==
  /\ agent' \in AgentState
  /\ agent'.mode = agent.mode /\ agent'.epoch = agent.epoch
  /\ agent'.snapEpoch = agent.snapEpoch /\ agent'.snapFrame = agent.snapFrame
  /\ agent'.sent = agent.sent /\ agent'.exactFrame = agent.exactFrame
  /\ agent'.digest = agent.digest /\ agent'.rectEpoch = agent.rectEpoch
  /\ agent'.target = agent.target /\ agent'.rectDigest = agent.rectDigest
  /\ agent'.base = agent.base /\ agent'.pending = agent.pending

\* The agent's timers and the encoder leave the loop's own state alone.
LEMMA AgentSame == ASSUME Shapes, UNCHANGED agent PROVE AgentKept
BY DEF AgentKept, Shapes

LEMMA KeptAcks ==
  ASSUME AgentKept, UNCHANGED <<shot, wire, cmds, compositor>>
  PROVE  \A a : AckRight(a) => AckRight(a)'
BY DEF AgentKept, AckRight, SnapDone, RectDone, AtBase, SentDigest

\* A step that changes neither the stream, the viewer, nor the agent's plan.
LEMMA Kept ==
  ASSUME SafetyInv, AgentKept,
         UNCHANGED <<shot, analyzed, wire, reader, cmds, slot, compositor, fault>>,
         encoder' \in EncoderState,
         inbox' \in [recovery: BOOLEAN, ack: Acks], ctl' \in Seq(Acks \cup Requests),
         budget' \in [repeats: Nat, timeouts: Nat, faults: Nat],
         agent.epoch # 1 \/ (inbox'.recovery = inbox.recovery /\ ctl' = ctl),
         EncoderInv', AckInv'
  PROVE  SafetyInv'
<1>1. /\ Shapes /\ Begun /\ Plan /\ WireInv /\ ReaderInv /\ StreamInv /\ EncoderInv /\ CmdsInv
      /\ UploadInv /\ SlotInv /\ RectAhead /\ BaseInv /\ OwnInv /\ AckInv /\ ShownInv /\ Running
  BY DEF SafetyInv
<1>3. Shapes'  BY <1>1 DEF Shapes, AgentKept
<1>4. Begun'  BY SMTT(60), <1>1 DEF Begun, AgentKept
<1>5. Plan'  BY <1>1 DEF Plan, AgentKept
<1>6. WireInv'  BY <1>1 DEF WireInv, Right, Follows, Fits, Clear, RectComplete, AgentKept
<1>7. ReaderInv'  BY <1>1 DEF ReaderInv, AgentKept
<1>8. StreamInv'
  BY <1>1 DEF StreamInv, Opened, Streaming, Fresh, Delivered, Complete, Final, Clear, Based,
         AtExact, Transaction, OnWire, OurRect, SentDigest, AgentKept
<1>9. CmdsInv'  BY <1>1 DEF CmdsInv, CmdRight, SameUpload, AgentKept
<1>10. UploadInv' /\ SlotInv'  BY <1>1 DEF UploadInv, SlotInv
<1>11. RectAhead' /\ BaseInv'
  BY <1>1 DEF RectAhead, BaseInv, AtBase, Unhurried, RectHandled, TheRect, OurRect, AgentKept
<1>12. OwnInv'
  <2>1. /\ agent'.mode = agent.mode /\ agent'.epoch = agent.epoch
        /\ agent'.snapFrame = agent.snapFrame /\ SentDigest' = SentDigest
    BY DEF AgentKept, SentDigest
  <2>2. OwnWire /\ OwnCmds  BY <1>1 DEF OwnInv
  <2>3. OwnWire'  BY <2>1, <2>2 DEF OwnWire
  <2>4. OwnCmds'  BY <2>1, <2>2 DEF OwnCmds
  <2> QED  BY <2>3, <2>4 DEF OwnInv
<1>13. ShownInv' /\ Running'  BY <1>1 DEF ShownInv, Running
<1> QED  BY <1>3, <1>4, <1>5, <1>6, <1>7, <1>8, <1>9, <1>10, <1>11, <1>12, <1>13 DEF SafetyInv

LEMMA CooldownInv == ASSUME SafetyInv, CooldownEnds PROVE SafetyInv'
<1>1. Shapes /\ EncoderInv /\ AckInv  BY DEF SafetyInv
<1>2. UNCHANGED <<shot, analyzed, encoder, inbox, wire, reader, cmds, slot, compositor, ctl, budget, fault>>
  BY DEF CooldownEnds, sourceVars, viewerVars, limitVars
<1>3. AgentKept  BY <1>1 DEF CooldownEnds, AgentKept, Shapes, AgentState
<1>4. EncoderInv'
  BY <1>1, <1>2, <1>3 DEF EncoderInv, Current, Streaming, Final, Clear, AgentKept
<1>5. AckInv'  BY <1>1, <1>2, <1>3, KeptAcks, AcksUnchanged
<1> QED  BY <1>1, <1>2, <1>3, <1>4, <1>5, Kept DEF Shapes

-----------------------------------------------------------------------------
(* The encoder's steps. *)

\* A step of the encoder worker changes nothing else.
LEMMA EncoderStep ==
  ASSUME SafetyInv,
         UNCHANGED <<shot, analyzed, agent, inbox, wire, reader, cmds, slot, compositor, ctl, fault>>,
         encoder' \in EncoderState,
         budget' \in [repeats: Nat, timeouts: Nat, faults: Nat],
         EncoderInv'
  PROVE  SafetyInv'
<1>1. Shapes /\ AckInv  BY DEF SafetyInv
<1>2. AgentKept  BY <1>1, AgentSame
<1>3. AckInv'  BY <1>1, <1>2, KeptAcks, AcksUnchanged
<1> QED  BY <1>1, <1>2, <1>3, Kept DEF Shapes

LEMMA EncoderType ==
  ASSUME Shapes
  PROVE  /\ encoder.queue \in Seq(Encoded) /\ encoder.consumed \in Nat /\ encoder.repeats \in Nat
         /\ encoder.idr \in BOOLEAN /\ encoder.tried \in Nat
         /\ agent.epoch \in Nat /\ Len(shot) \in Nat /\ shot \in Seq(Contents)
BY DEF Shapes, AgentState

LEMMA LateRepeatsType ==
  ASSUME Shapes
  PROVE  LateRepeats \in SUBSET [frame: Nat, epoch: Nat]
<1>1. /\ encoder.late \in SUBSET [frame: Nat, epoch: Nat]
      /\ encoder.consumed \in Nat /\ agent.epoch \in Nat
  BY EncoderType DEF Shapes
<1> QED  BY <1>1 DEF LateRepeats, Repeated

\* A submitted frame is of the current epoch, and an IDR if one is owed.
LEMMA SubmitsInv ==
  ASSUME SafetyInv, NEW f \in 1..Len(shot), NEW r \in Nat, agent.mode = "video",
         NEW l \in SUBSET [frame: Nat, epoch: Nat], Submit(f, r, l),
         UNCHANGED <<shot, analyzed, agent, inbox, wire, reader, cmds, slot, compositor, ctl, budget, fault>>
  PROVE  SafetyInv'
<1>1. Shapes /\ Begun /\ EncoderInv  BY DEF SafetyInv
<1>2. /\ encoder.queue \in Seq(Encoded) /\ agent.epoch \in Nat /\ agent.epoch >= 1
      /\ Len(shot) \in Nat /\ f \in Nat /\ f <= Len(shot) /\ f >= 1
  BY <1>1, EncoderType DEF Begun
<1>3. PICK key \in BOOLEAN :
        /\ encoder.idr => key
        /\ encoder' = [queue |-> Append(encoder.queue, [frame |-> f, epoch |-> agent.epoch, key |-> key]),
                       consumed |-> f, repeats |-> r, idr |-> FALSE, tried |-> 0, late |-> l]
  BY DEF Submit
<1> DEFINE e == [frame |-> f, epoch |-> agent.epoch, key |-> key]
           q == encoder.queue
<1>4. e \in Encoded /\ e.frame = f /\ e.epoch = agent.epoch /\ e.key = key  BY <1>2 DEF Encoded
<1> HIDE DEF e
<1>5. /\ encoder'.queue = Append(q, e) /\ encoder'.consumed = f /\ encoder'.repeats = r
      /\ encoder'.idr = FALSE /\ encoder'.tried = 0
  BY <1>3 DEF e
<1>6. /\ Append(q, e) \in Seq(Encoded) /\ Len(Append(q, e)) = Len(q) + 1 /\ Len(q) \in Nat
      /\ \A i \in 1..Len(q) : Append(q, e)[i] = q[i]
      /\ Append(q, e)[Len(q) + 1] = e
  BY <1>2, <1>4, AppendOf
<1>7. encoder' \in EncoderState
  BY <1>2, <1>3, <1>6 DEF e
<1> DEFINE p == Append(q, e)
<1>8. /\ p \in Seq(Encoded) /\ Len(p) = Len(q) + 1 /\ encoder'.queue = p
      /\ \A i \in 1..Len(q) : p[i] = q[i]
      /\ p[Len(q) + 1] = e
  BY <1>5, <1>6
<1> HIDE DEF p
<1>9. \A i \in 1..Len(p) : p[i].frame \in 1..Len(shot) /\ p[i].epoch \in 1..agent.epoch
  <2> SUFFICES ASSUME NEW i \in 1..Len(p)
               PROVE  p[i].frame \in 1..Len(shot) /\ p[i].epoch \in 1..agent.epoch
    OBVIOUS
  <2>1. CASE i \in 1..Len(q)
    <3>1. q[i].frame \in 1..Len(shot) /\ q[i].epoch \in 1..agent.epoch
      BY <1>1, <2>1 DEF EncoderInv
    <3> QED  BY <1>8, <2>1, <3>1
  <2>2. CASE i = Len(q) + 1
    BY SMTT(60), <1>2, <1>4, <1>8, <2>2
  <2> QED  BY SMTT(60), <1>6, <1>8, <2>1, <2>2
<1>c. \A i \in 1..Len(p) : Current(i)' <=> p[i].epoch = agent.epoch
  BY <1>8 DEF Current
<1>10. ASSUME ~Streaming, NEW i \in 1..Len(p), p[i].epoch = agent.epoch,
              \A j \in 1..(i - 1) : p[j].epoch # agent.epoch
       PROVE  p[i].key
  <2>1. CASE i \in 1..Len(q)
    <3>1. Current(i)  BY <1>8, <1>10, <2>1 DEF Current
    <3>0. \A j \in 1..(i - 1) : ~Current(j)
      <4> SUFFICES ASSUME NEW j \in 1..(i - 1) PROVE ~Current(j)  OBVIOUS
      <4>1. j \in 1..Len(q)  BY <1>6, <2>1
      <4> QED  BY <1>8, <1>10, <4>1 DEF Current
    <3>2. q[i].key  BY <1>1, <1>10, <2>1, <3>1, <3>0 DEF EncoderInv
    <3> QED  BY <1>8, <2>1, <3>2
  <2>2. CASE i = Len(q) + 1
    <3>1. \A j \in 1..Len(q) : ~Current(j)
      BY SMTT(60), <1>6, <1>8, <1>10, <2>2 DEF Current
    <3>2. encoder.idr  BY <1>1, <1>10, <3>1 DEF EncoderInv
    <3> QED  BY <1>3, <1>4, <1>8, <2>2, <3>2
  <2> QED  BY SMTT(60), <1>6, <1>8, <2>1, <2>2
<1>11. EncoderInv'
  <2>1. Streaming' <=> Streaming  BY DEF Streaming, Final, Clear
  <2>2. ~(\A i \in 1..Len(p) : p[i].epoch # agent.epoch)  BY SMTT(60), <1>4, <1>6, <1>8
  <2>3. \A i \in 1..Len(p) : Current(i)' <=> p[i].epoch = agent.epoch  BY <1>c
  <2>4. \A i \in 1..Len(p) : \A j \in 1..(i - 1) : j \in 1..Len(p)  BY <1>6, <1>8
  <2>5. agent'.mode = "video" /\ ~Streaming' =>
         /\ \A i \in 1..Len(p) : Current(i)' /\ (\A j \in 1..(i - 1) : ~Current(j)') => p[i].key
         /\ ~\A i \in 1..Len(p) : ~Current(i)'
    BY <1>10, <2>1, <2>2, <2>3, <2>4
  <2>6. encoder'.consumed <= Len(shot) /\ encoder'.consumed # 0 /\ encoder'.tried = 0
        /\ shot' = shot /\ agent' = agent
    BY <1>2, <1>5
  <2>7. \A i \in 1..Len(p) : Current(i)' => agent'.mode = "video"  BY <2>6
  <2> QED  BY <1>8, <1>9, <2>5, <2>6, <2>7 DEF EncoderInv
<1> QED  BY <1>1, <1>7, <1>11, EncoderStep DEF Shapes

LEMMA EncoderSubmitsInv == ASSUME SafetyInv, EncoderSubmits PROVE SafetyInv'
<1>1. Shapes  BY DEF SafetyInv
<1>2. Len(shot) \in Nat /\ encoder.consumed \in Nat  BY <1>1, EncoderType
<1>3. /\ agent.mode = "video" /\ Len(shot) > encoder.consumed
      /\ Submit(Len(shot), MaxRepeats, encoder.late)
      /\ UNCHANGED <<shot, analyzed, agent, inbox, wire, reader, cmds, slot, compositor, ctl, budget, fault>>
  BY DEF EncoderSubmits, CanSubmit, sourceVars, agentVars, viewerVars, limitVars
<1>4. Len(shot) \in 1..Len(shot) /\ MaxRepeats \in Nat  BY <1>2, <1>3, VisualAssumption
<1>5. encoder.late \in SUBSET [frame: Nat, epoch: Nat]  BY <1>1 DEF Shapes
<1> QED  BY <1>3, <1>4, <1>5, SubmitsInv

\* A repeat is of a frame already submitted, whenever it comes.
LEMMA EncoderRepeatsInv == ASSUME SafetyInv, EncoderRepeats PROVE SafetyInv'
<1>1. Shapes /\ EncoderInv  BY DEF SafetyInv
<1>2. /\ Len(shot) \in Nat /\ encoder.consumed \in Nat /\ encoder.repeats \in Nat
      /\ encoder \in EncoderState
  BY <1>1, EncoderType DEF Shapes
<1>3. /\ encoder.tried # 0
      /\ UNCHANGED <<shot, analyzed, agent, inbox, wire, reader, cmds, slot, compositor, ctl, budget, fault>>
  BY DEF EncoderRepeats, sourceVars, agentVars, viewerVars, limitVars
<1>4. encoder.consumed <= Len(shot) /\ encoder.consumed # 0 /\ encoder.repeats > 0
  BY <1>1, <1>3 DEF EncoderInv
<1>5. CASE agent.mode = "video" /\ Submit(encoder.consumed, encoder.repeats - 1, LateRepeats)
  <2>1. encoder.consumed \in 1..Len(shot) /\ encoder.repeats - 1 \in Nat  BY <1>2, <1>4
  <2>2. LateRepeats \in SUBSET [frame: Nat, epoch: Nat]  BY <1>1, LateRepeatsType
  <2> QED  BY <1>3, <1>5, <2>1, <2>2, SubmitsInv
<1>6. CASE encoder' = [encoder EXCEPT !.tried = 0]
  <2>1. /\ encoder' \in EncoderState
        /\ encoder'.queue = encoder.queue /\ encoder'.consumed = encoder.consumed
        /\ encoder'.repeats = encoder.repeats /\ encoder'.idr = encoder.idr /\ encoder'.tried = 0
    BY <1>2, <1>6
  <2>2. EncoderInv'
    BY <1>1, <1>3, <2>1 DEF EncoderInv, Current, Streaming, Final, Clear
  <2> QED  BY <1>1, <1>3, <2>1, <2>2, EncoderStep DEF Shapes
<1> QED  BY <1>5, <1>6 DEF EncoderRepeats

LEMMA EncoderFindsNothingInv == ASSUME SafetyInv, EncoderFindsNothing PROVE SafetyInv'
<1>1. Shapes /\ EncoderInv  BY DEF SafetyInv
<1>2. /\ Len(shot) \in Nat /\ encoder.consumed \in Nat /\ encoder.repeats \in Nat /\ agent.epoch \in Nat
      /\ encoder \in EncoderState
  BY <1>1, EncoderType DEF Shapes
<1>3. /\ encoder.repeats > 0 /\ encoder' = [encoder EXCEPT !.tried = agent.epoch]
      /\ budget' = [budget EXCEPT !.repeats = @ + 1]
      /\ UNCHANGED <<shot, analyzed, agent, inbox, wire, reader, cmds, slot, compositor, ctl, fault>>
  BY DEF EncoderFindsNothing, sourceVars, agentVars, viewerVars
<1>4. /\ encoder' \in EncoderState
      /\ encoder'.queue = encoder.queue /\ encoder'.consumed = encoder.consumed
      /\ encoder'.repeats = encoder.repeats /\ encoder'.idr = encoder.idr
  BY <1>2, <1>3
<1>5. budget' \in [repeats: Nat, timeouts: Nat, faults: Nat]
  <2>1. budget \in [repeats: Nat, timeouts: Nat, faults: Nat]  BY <1>1 DEF Shapes
  <2> QED  BY <1>3, <2>1
<1>6. EncoderInv'
  <2>1. encoder.consumed # 0 /\ encoder'.repeats > 0  BY <1>1, <1>2, <1>3, <1>4 DEF EncoderInv
  <2>2. Streaming' <=> Streaming  BY <1>3 DEF Streaming, Final, Clear
  <2> QED  BY <1>1, <1>3, <1>4, <2>1, <2>2 DEF EncoderInv, Current
<1> QED  BY <1>3, <1>4, <1>5, <1>6, EncoderStep

\* What stays true of the queue when its oldest frame leaves it.
LEMMA QueueTail ==
  ASSUME SafetyInv, encoder.queue # <<>>, encoder' = [encoder EXCEPT !.queue = Tail(@)],
         UNCHANGED <<shot, agent>>
  PROVE  LET q == encoder.queue IN
         /\ Head(q) = q[1] /\ q[1] \in Encoded /\ 1 \in 1..Len(q) /\ Len(q) \in Nat
         /\ encoder' \in EncoderState
         /\ Len(encoder'.queue) = Len(q) - 1
         /\ \A i \in 1..Len(encoder'.queue) :
              encoder'.queue[i] = q[i + 1] /\ i + 1 \in 1..Len(q) /\ (Current(i)' <=> Current(i + 1))
         /\ encoder'.consumed = encoder.consumed /\ encoder'.repeats = encoder.repeats
         /\ encoder'.idr = encoder.idr /\ encoder'.tried = encoder.tried
         /\ encoder'.late = encoder.late
<1> DEFINE q == encoder.queue
<1>1. encoder \in EncoderState
  BY DEF SafetyInv, Shapes
<1>2. q \in Seq(Encoded) /\ q # <<>>  BY <1>1
<1>3. /\ encoder'.queue = Tail(q)
      /\ encoder'.consumed = encoder.consumed /\ encoder'.repeats = encoder.repeats
      /\ encoder'.idr = encoder.idr /\ encoder'.tried = encoder.tried
      /\ encoder'.late = encoder.late
  BY <1>1
<1>4. /\ Head(q) = q[1] /\ q[1] \in Encoded
      /\ Tail(q) \in Seq(Encoded) /\ Len(Tail(q)) = Len(q) - 1 /\ Len(q) \in Nat /\ Len(q) >= 1
      /\ \A i \in 1..(Len(q) - 1) : Tail(q)[i] = q[i + 1] /\ i + 1 \in 1..Len(q)
  <2> HIDE DEF q
  <2> QED  BY <1>2, TailOf
<1>5. encoder' \in EncoderState
  BY <1>1, <1>4
<1>6. \A i \in 1..(Len(q) - 1) : Current(i)' <=> Current(i + 1)
  BY <1>3, <1>4 DEF Current
<1>7. 1 \in 1..Len(q)  BY <1>4
<1> QED  BY <1>3, <1>4, <1>5, <1>6, <1>7

LEMMA EncoderDropsStaleInv == ASSUME SafetyInv, EncoderDropsStale PROVE SafetyInv'
<1>1. Shapes /\ EncoderInv  BY DEF SafetyInv
<1>2. /\ encoder.queue # <<>> /\ Head(encoder.queue).epoch # agent.epoch
      /\ encoder' = [encoder EXCEPT !.queue = Tail(@)]
      /\ UNCHANGED <<shot, analyzed, agent, inbox, wire, reader, cmds, slot, compositor, ctl, budget, fault>>
  BY DEF EncoderDropsStale, sourceVars, agentVars, viewerVars, limitVars
<1> DEFINE q == encoder.queue
           p == encoder'.queue
<1>3. /\ Head(q) = q[1] /\ 1 \in 1..Len(q) /\ Len(q) \in Nat /\ Len(p) = Len(q) - 1
      /\ encoder' \in EncoderState
      /\ \A i \in 1..Len(p) : p[i] = q[i + 1] /\ i + 1 \in 1..Len(q) /\ (Current(i)' <=> Current(i + 1))
      /\ encoder'.consumed = encoder.consumed /\ encoder'.repeats = encoder.repeats
      /\ encoder'.idr = encoder.idr /\ encoder'.tried = encoder.tried
  BY <1>2, QueueTail
<1>4. ~Current(1)  BY <1>2, <1>3 DEF Current
<1>5. EncoderInv'
  <2>1. Streaming' <=> Streaming  BY <1>2 DEF Streaming, Final, Clear
  <2>2. \A i \in 1..Len(p) : /\ p[i].frame \in 1..Len(shot) /\ p[i].epoch \in 1..agent.epoch
                             /\ Current(i)' => agent.mode = "video"
    BY <1>1, <1>3 DEF EncoderInv
  <2>3. ASSUME agent.mode = "video", ~Streaming
        PROVE  /\ \A i \in 1..Len(p) : Current(i)' /\ (\A j \in 1..(i - 1) : ~Current(j)') => p[i].key
               /\ (\A i \in 1..Len(p) : ~Current(i)') => encoder.idr
    <3>1. ASSUME NEW i \in 1..Len(p), Current(i)', \A j \in 1..(i - 1) : ~Current(j)'
          PROVE  p[i].key
      <4>1. Current(i + 1) /\ i + 1 \in 1..Len(q) /\ p[i] = q[i + 1]  BY <1>3, <3>1
      <4>2. ASSUME NEW j \in 1..(i + 1 - 1) PROVE ~Current(j)
        <5>1. CASE j = 1  BY <1>4, <5>1
        <5>2. CASE j # 1
          <6>1. j - 1 \in 1..(i - 1) /\ j - 1 \in 1..Len(p) /\ j - 1 + 1 = j
            BY <1>3, <5>2
          <6> QED  BY <1>3, <3>1, <6>1
        <5> QED  BY <5>1, <5>2
      <4> QED  BY <1>1, <2>3, <4>1, <4>2 DEF EncoderInv
    <3>2. ASSUME \A i \in 1..Len(p) : ~Current(i)'
          PROVE  encoder.idr
      <4>1. ASSUME NEW j \in 1..Len(q) PROVE ~Current(j)
        <5>1. CASE j = 1  BY <1>4, <5>1
        <5>2. CASE j # 1
          <6>1. j - 1 \in 1..Len(p) /\ j - 1 + 1 = j  BY <1>3, <5>2
          <6> QED  BY <1>3, <3>2, <6>1
        <5> QED  BY <5>1, <5>2
      <4> QED  BY <1>1, <2>3, <4>1 DEF EncoderInv
    <3> QED  BY <3>1, <3>2
  <2> QED  BY <1>1, <1>2, <1>3, <2>1, <2>2, <2>3 DEF EncoderInv
<1> QED  BY <1>1, <1>2, <1>3, <1>5, EncoderStep DEF Shapes

-----------------------------------------------------------------------------
(* The agent's steps. *)

\* What the agent appends to the wire goes on where the wire ends, or where
\* the reader stands.
LEMMA WireGrows ==
  ASSUME SafetyInv, UNCHANGED <<shot, reader, cmds, compositor>>,
         wire' \in Seq(Messages), agent' \in AgentState, agent'.epoch >= agent.epoch,
         Len(wire') >= Len(wire), \A i \in 1..Len(wire) : wire'[i] = wire[i],
         \A i \in 1..Len(wire') : i > Len(wire) =>
           /\ Right(wire[i])'
           /\ wire'[i].type = "rect" =>
                /\ i <= 2 /\ AtBase(wire'[i].base) /\ Unhurried
                /\ i = 2 => /\ RawRect /\ wire'[i].base = reader.frame /\ reader.digest # <<>>
                            /\ reader.rep = "snapshot" /\ cmds = <<>>,
         \A i \in 1..(Len(wire') - 1) : i >= Len(wire) => Follows(wire'[i], wire'[i + 1]),
         wire = <<>> /\ wire' # <<>> => Fits(wire'[1])
  PROVE  WireInv' /\ RectAhead'
<1>1. WireInv /\ RectAhead /\ wire \in Seq(Messages)  BY DEF SafetyInv, Shapes
<1>2. Len(wire) \in Nat /\ Len(wire') \in Nat /\ agent.epoch \in Nat /\ agent'.epoch \in Nat
  
  <2>1. agent \in AgentState  BY DEF SafetyInv, Shapes
  <2>2. agent.epoch \in Nat /\ agent'.epoch \in Nat  BY <2>1 DEF AgentState
  <2> QED  BY <1>1, <2>2
<1>3. \A i \in 1..Len(wire') : Right(wire[i])'
  <2> SUFFICES ASSUME NEW i \in 1..Len(wire') PROVE Right(wire[i])'  OBVIOUS
  <2>1. CASE i <= Len(wire)
    <3>1. i \in 1..Len(wire) /\ wire'[i] = wire[i]  BY <1>2, <2>1
    <3>2. Right(wire[i]) /\ wire[i].epoch \in 1..agent.epoch  BY <1>1, <3>1 DEF WireInv, Right
    <3>3. wire[i].epoch \in 1..agent'.epoch  BY <1>2, <3>2
    <3>4. \A m : m = wire'[i] /\ m = wire[i] => Right(m)'  BY <3>2, <3>3 DEF Right
    <3> QED  BY <3>1, <3>4 DEF Right
  <2>2. CASE i > Len(wire)  BY <2>2
  <2> QED  BY <1>2, <2>1, <2>2
<1>4. \A i \in 1..(Len(wire') - 1) : Follows(wire'[i], wire'[i + 1])
  <2> SUFFICES ASSUME NEW i \in 1..(Len(wire') - 1) PROVE Follows(wire'[i], wire'[i + 1])  OBVIOUS
  <2>1. CASE i < Len(wire)
    <3>1. i \in 1..(Len(wire) - 1) /\ i \in 1..Len(wire) /\ i + 1 \in 1..Len(wire)  BY <1>2, <2>1
    <3> QED  BY <1>1, <3>1 DEF WireInv
  <2>2. CASE i >= Len(wire)  BY <2>2
  <2> QED  BY <1>2, <2>1, <2>2
<1>5. wire' # <<>> => Fits(wire'[1])
  <2>1. CASE wire # <<>>
    <3>1. 1 \in 1..Len(wire)  BY <1>1, <2>1, TailOf
    <3> QED  BY <1>1, <2>1, <3>1 DEF WireInv
  <2> QED  BY <2>1
<1>6. \A m : Fits(m)' <=> Fits(m)
  BY DEF Fits, Clear, RectComplete
<1>7. \A i \in 1..Len(wire') : wire'[i].type = "rect" =>
        /\ i <= 2 /\ AtBase(wire'[i].base) /\ Unhurried
        /\ i = 2 => /\ RawRect /\ wire'[i].base = reader.frame /\ reader.digest # <<>>
                    /\ reader.rep = "snapshot" /\ cmds = <<>>
  <2> SUFFICES ASSUME NEW i \in 1..Len(wire'), wire'[i].type = "rect"
               PROVE  /\ i <= 2 /\ AtBase(wire'[i].base) /\ Unhurried
                      /\ i = 2 => /\ RawRect /\ wire'[i].base = reader.frame /\ reader.digest # <<>>
                                  /\ reader.rep = "snapshot" /\ cmds = <<>>
    OBVIOUS
  <2>1. CASE i <= Len(wire)
    <3>1. i \in 1..Len(wire) /\ wire'[i] = wire[i]  BY <1>2, <2>1
    <3> QED  BY <1>1, <3>1 DEF WireInv, RectAhead
  <2>2. CASE i > Len(wire)  BY <2>2
  <2> QED  BY <1>2, <2>1, <2>2
<1>8. WireInv'
  <2>1. \A m, n : Follows(m, n)' <=> Follows(m, n)  BY DEF Follows
  <2>2. wire' # <<>> => Fits(wire[1])'
    <3> SUFFICES ASSUME wire' # <<>>, NEW m, m = wire'[1] PROVE Fits(m)'
      BY DEF Fits, Clear, RectComplete
    <3> QED  BY <1>5, <1>6
  <2>3. \A i \in 1..(Len(wire') - 1) : Follows(wire[i], wire[i + 1])'
    BY <1>4 DEF Follows
  <2>4. \A i \in 1..Len(wire') : Right(wire[i])'
    BY <1>3 DEF Right
  <2> QED  BY <1>7, <2>2, <2>3, <2>4 DEF WireInv
<1>9. RectAhead'
  <2>1. \A b : AtBase(b)' <=> AtBase(b)  BY DEF AtBase
  <2>2. \A i \in 1..Len(wire') : wire'[i].type = "rect" =>
          AtBase(wire[i].base)' /\ Unhurried /\ (i = 2 => cmds = <<>>)
    BY <1>7 DEF AtBase
  <2>3. Unhurried' <=> Unhurried  BY DEF Unhurried
  <2>4. reader.rect # NoRect => AtBase(reader.rect.base)' /\ Unhurried  BY <1>1 DEF RectAhead, AtBase
  <2>5. \A i \in 1..Len(cmds) : cmds[i].kind = "rect" =>
          AtBase(cmds[i].base)' /\ (i = 1 \/ (i = 2 /\ cmds[1].kind = "cancel"))
    BY <1>1 DEF RectAhead, AtBase
  <2> QED  BY <2>2, <2>3, <2>4, <2>5 DEF RectAhead
<1> QED  BY <1>8, <1>9

\* The same for one message that is not a rectangle.
LEMMA Sends ==
  ASSUME SafetyInv, UNCHANGED <<shot, reader, cmds, compositor>>,
         NEW x \in Messages, wire' = Append(wire, x), x.type # "rect", Right(x)',
         agent' \in AgentState, agent'.epoch >= agent.epoch,
         wire = <<>> => Fits(x), wire # <<>> => Follows(wire[Len(wire)], x)
  PROVE  /\ WireInv' /\ RectAhead'
         /\ wire' \in Seq(Messages) /\ wire' # <<>> /\ Len(wire') = Len(wire) + 1
         /\ wire'[Len(wire')] = x /\ Len(wire) \in Nat
         /\ \A i \in 1..Len(wire) : wire'[i] = wire[i]
<1>1. wire \in Seq(Messages)  BY DEF SafetyInv, Shapes
<1>2. /\ wire' \in Seq(Messages) /\ wire' # <<>> /\ Len(wire') = Len(wire) + 1
      /\ wire'[Len(wire')] = x /\ Len(wire) \in Nat
      /\ \A i \in 1..Len(wire) : wire'[i] = wire[i]
  BY <1>1, AppendOf
<1>3. \A i \in 1..Len(wire') : i > Len(wire) => wire'[i] = x /\ Right(wire[i])'
  <2> SUFFICES ASSUME NEW i \in 1..Len(wire'), i > Len(wire) PROVE wire'[i] = x /\ Right(wire[i])'
    OBVIOUS
  <2>1. i = Len(wire')  BY <1>2
  <2>2. \A m : m = x => Right(m)'  BY DEF Right
  <2> QED  BY <1>2, <2>1, <2>2 DEF Right
<1>4. \A i \in 1..(Len(wire') - 1) : i >= Len(wire) => Follows(wire'[i], wire'[i + 1])
  <2> SUFFICES ASSUME NEW i \in 1..(Len(wire') - 1), i >= Len(wire) PROVE Follows(wire'[i], wire'[i + 1])
    OBVIOUS
  <2>1. i = Len(wire) /\ i + 1 = Len(wire') /\ i \in 1..Len(wire)  BY <1>2
  <2>2. wire # <<>>  BY <1>2, <2>1
  <2> QED  BY <1>2, <2>1, <2>2
<1>5. wire = <<>> => wire'[1] = x
  <2>1. wire = <<>> => Len(wire) = 0  OBVIOUS
  <2> QED  BY <1>2, <2>1
<1>6. \A i \in 1..Len(wire') : i > Len(wire) => Right(wire[i])' /\ wire'[i].type # "rect"
  BY <1>3 DEF Right
<1>7. Len(wire') >= Len(wire)  BY <1>2
<1> QED  BY <1>2, <1>4, <1>5, <1>6, <1>7, WireGrows

\* A step of the loop that leaves the viewer and the source alone.
LEMMA LoopStep ==
  ASSUME SafetyInv, UNCHANGED <<shot, analyzed, reader, cmds, slot, compositor, ctl, fault>>,
         agent' \in AgentState, agent'.epoch >= agent.epoch,
         wire' \in Seq(Messages),
         encoder' \in EncoderState,
         inbox' \in [recovery: BOOLEAN, ack: Acks],
         budget' \in [repeats: Nat, timeouts: Nat, faults: Nat],
         Begun', Plan', WireInv', StreamInv', EncoderInv', RectAhead', BaseInv', OwnInv', AckInv'
  PROVE  SafetyInv'
<1>1. /\ Shapes /\ ReaderInv /\ CmdsInv /\ UploadInv /\ SlotInv /\ ShownInv /\ Running
  BY DEF SafetyInv
<1>2. agent.epoch \in Nat /\ agent'.epoch \in Nat /\ reader.epoch \in Nat /\ reader.resetEpoch \in Nat
  BY <1>1, ReaderType DEF AgentState
<1>3. Shapes'  BY <1>1 DEF Shapes
<1>4. ReaderInv'
  <2>1. reader.epoch <= agent'.epoch /\ reader.resetEpoch <= agent'.epoch  BY SMTT(60), <1>1, <1>2 DEF ReaderInv
  <2>2. \A e \in 2..agent.epoch : e \in 2..agent'.epoch  BY SMTT(60), <1>2
  <2>3. reader.rect # NoRect => reader.rect.epoch \in 2..agent'.epoch  BY <1>1, <2>2 DEF ReaderInv
  <2> QED  BY <1>1, <2>1, <2>3 DEF ReaderInv
<1>5. CmdsInv'
  <2>1. \A e \in 1..agent.epoch : e \in 1..agent'.epoch  BY SMTT(60), <1>2
  <2>2. \A i \in 1..Len(cmds) : CmdRight(cmds[i])'
    <3> SUFFICES ASSUME NEW i \in 1..Len(cmds) PROVE CmdRight(cmds[i])'  OBVIOUS
    <3>1. CmdRight(cmds[i])  BY <1>1 DEF CmdsInv
    <3> QED  BY <2>1, <3>1 DEF CmdRight
  <2>3. \A i \in 1..(Len(cmds) - 1) : SameUpload(cmds[i], cmds[i + 1])'  BY <1>1 DEF CmdsInv, SameUpload
  <2> QED  BY <1>1, <2>2, <2>3 DEF CmdsInv
<1>6. UploadInv' /\ SlotInv'  BY <1>1 DEF UploadInv, SlotInv
<1>7. ShownInv' /\ Running'  BY <1>1 DEF ShownInv, Running
<1> QED  BY <1>3, <1>4, <1>5, <1>6, <1>7 DEF SafetyInv

LEMMA ResetType == \A e \in Nat : Reset(e) \in Messages
BY DEF Reset, Messages

\* What the steps of the visual loop read.
LEMMA LoopTypes ==
  ASSUME SafetyInv
  PROVE  /\ agent \in AgentState /\ agent.epoch \in Nat /\ agent.epoch >= 1
         /\ agent.snapEpoch \in Nat /\ agent.snapFrame \in Nat /\ agent.snapContent \in Nat
         /\ agent.sent \in Nat /\ agent.exactFrame \in Nat /\ agent.digest \in Digests
         /\ agent.rectEpoch \in Nat /\ agent.target \in Nat /\ agent.rectDigest \in Digests
         /\ agent.base \in Nat /\ agent.pending \in Nat
         /\ wire \in Seq(Messages) /\ Len(wire) \in Nat
         /\ analyzed.frame \in Nat /\ analyzed.content \in Nat
         /\ shot \in Seq(Contents) /\ Len(shot) \in Nat
         /\ inbox \in [recovery: BOOLEAN, ack: Acks] /\ inbox.ack \in Acks
         /\ budget \in [repeats: Nat, timeouts: Nat, faults: Nat]
         /\ encoder \in EncoderState
<1>1. agent \in AgentState /\ agent.epoch >= 1  BY DEF SafetyInv, Shapes, Begun
<1>2. /\ agent.epoch \in Nat
      /\ agent.snapEpoch \in Nat /\ agent.snapFrame \in Nat /\ agent.snapContent \in Nat
      /\ agent.sent \in Nat /\ agent.exactFrame \in Nat /\ agent.digest \in Digests
      /\ agent.rectEpoch \in Nat /\ agent.target \in Nat /\ agent.rectDigest \in Digests
      /\ agent.base \in Nat /\ agent.pending \in Nat
  BY <1>1 DEF AgentState
<1>3. wire \in Seq(Messages) /\ shot \in Seq(Contents)  BY DEF SafetyInv, Shapes
<1>4. /\ analyzed \in [frame: Nat, content: Nat, quiet: BOOLEAN]
      /\ inbox \in [recovery: BOOLEAN, ack: Acks]
      /\ budget \in [repeats: Nat, timeouts: Nat, faults: Nat]
      /\ encoder \in EncoderState
  BY DEF SafetyInv, Shapes
<1>5. /\ analyzed.frame \in Nat /\ analyzed.content \in Nat /\ inbox.ack \in Acks
      /\ Len(wire) \in Nat /\ Len(shot) \in Nat
  BY <1>3, <1>4
<1> QED  BY <1>1, <1>2, <1>3, <1>4, <1>5, Zenon

\* The last message on the wire is of no later epoch than the agent's.
LEMMA LastEpoch ==
  ASSUME SafetyInv, wire # <<>>
  PROVE  /\ Len(wire) \in 1..Len(wire) /\ Right(wire[Len(wire)]) /\ wire[Len(wire)] \in Messages
         /\ wire[Len(wire)].epoch \in 1..agent.epoch
<1>1. wire \in Seq(Messages) /\ WireInv  BY DEF SafetyInv, Shapes
<1>2. Len(wire) \in 1..Len(wire)  BY <1>1, TailOf
<1> QED  BY <1>1, <1>2 DEF WireInv, Right

\* A consumed acknowledgement is of no epoch.
LEMMA NoAckRight ==
  ASSUME agent.epoch \in Nat, agent.epoch >= 1
  PROVE  AckRight(NoAck)
BY DEF AckRight, NoAck, Ack

\* The agent opens an epoch: nothing it sent before is of that epoch.
LEMMA NewEpoch ==
  ASSUME SafetyInv, UNCHANGED <<shot, analyzed, reader, cmds, slot, compositor, ctl, fault>>,
         agent' \in AgentState, agent'.epoch = agent.epoch + 1, analyzed.frame # 0,
         wire' = Append(wire, Reset(agent.epoch + 1)),
         inbox'.ack \in {inbox.ack, NoAck}
  PROVE  /\ Begun' /\ WireInv' /\ RectAhead' /\ OwnInv' /\ AckInv' /\ Final("reset")'
         /\ wire' \in Seq(Messages) /\ wire' # <<>> /\ Len(wire') = Len(wire) + 1
<1>0. /\ Shapes /\ Begun /\ WireInv /\ ReaderInv /\ CmdsInv /\ OwnInv /\ AckInv
  BY DEF SafetyInv
<1>1. agent.epoch \in Nat /\ agent.epoch >= 1 /\ wire \in Seq(Messages) /\ Len(wire) \in Nat
  BY LoopTypes
<1> DEFINE x == Reset(agent.epoch + 1)
<1>2. /\ x \in Messages /\ x.type = "reset" /\ x.epoch = agent.epoch + 1
      /\ wire' = Append(wire, x)
  <2>1. x \in Messages  BY <1>1, ResetType
  <2> QED  BY <2>1 DEF Reset
<1>3. PICK y \in Messages : y = x  BY <1>2
<1> HIDE DEF x
<1>4. Right(y)'
  <2>1. y.type = "reset" /\ y.epoch \in 1..agent'.epoch /\ y.epoch >= 2  BY <1>1, <1>2, <1>3
  <2> QED  BY <2>1 DEF Right
<1>5. wire = <<>> => Fits(y)
  <2>1. reader.epoch <= agent.epoch /\ reader.resetEpoch <= agent.epoch  BY <1>0 DEF ReaderInv
  <2>2. reader.epoch \in Nat /\ reader.resetEpoch \in Nat  BY <1>0, ReaderType
  <2>3. y.epoch > reader.epoch /\ y.epoch > reader.resetEpoch  BY <1>1, <1>2, <1>3, <2>1, <2>2
  <2> QED  BY <1>2, <1>3, <2>3 DEF Fits
<1>6. wire # <<>> => Follows(wire[Len(wire)], y)
  <2> SUFFICES ASSUME wire # <<>> PROVE Follows(wire[Len(wire)], y)  OBVIOUS
  <2>1. y.epoch > wire[Len(wire)].epoch  BY <1>1, <1>2, <1>3, LastEpoch
  <2> QED  BY <1>2, <1>3, <2>1 DEF Follows
<1>7. /\ WireInv' /\ RectAhead'
      /\ wire' \in Seq(Messages) /\ wire' # <<>> /\ Len(wire') = Len(wire) + 1
      /\ wire'[Len(wire')] = y
      /\ \A i \in 1..Len(wire) : wire'[i] = wire[i]
  <2>1. agent'.epoch >= agent.epoch  BY <1>1
  <2>2. y.type # "rect" /\ wire' = Append(wire, y)  BY <1>2, <1>3
  <2> QED  BY <1>4, <1>5, <1>6, <2>1, <2>2, Sends
<1>8. Final("reset")'  BY <1>2, <1>3, <1>7 DEF Final
<1>9. OwnInv'
  <2>1. OwnWire'
    <3>1. ASSUME NEW i \in 1..Len(wire'), wire'[i].type \in {"commit", "rect"},
                 wire'[i].epoch = agent'.epoch
          PROVE  FALSE
      <4>1. i \in 1..Len(wire)
        <5>1. i # Len(wire')  BY <1>2, <1>3, <1>7, <3>1
        <5> QED  BY <1>1, <1>7, <5>1
      <4>2. wire[i].epoch \in 1..agent.epoch  BY <1>0, <4>1 DEF WireInv, Right
      <4> QED  BY <1>1, <1>7, <3>1, <4>1, <4>2
    <3> QED  BY <3>1 DEF OwnWire
  <2>2. OwnCmds'
    <3>1. ASSUME NEW i \in 1..Len(cmds), cmds[i].kind \in {"commit", "rect"},
                 cmds[i].epoch = agent'.epoch
          PROVE  FALSE
      <4>1. cmds[i].epoch \in 1..agent.epoch  BY <1>0, <3>1 DEF CmdsInv, CmdRight
      <4> QED  BY <1>1, <3>1, <4>1
    <3> QED  BY <3>1 DEF OwnCmds
  <2> QED  BY <2>1, <2>2 DEF OwnInv
<1>10. AckInv'
  <2>1. \A a : a.epoch \in Nat /\ AckRight(a) => AckRight(a)'
    <3> SUFFICES ASSUME NEW a, a.epoch \in Nat, AckRight(a) PROVE AckRight(a)'  OBVIOUS
    <3>1. a.epoch <= agent.epoch  BY DEF AckRight
    <3>2. a.epoch <= agent'.epoch /\ a.epoch # agent'.epoch  BY <1>1, <3>1
    <3> QED  BY <3>2 DEF AckRight
  <2>2. NoAck.epoch \in Nat /\ AckRight(NoAck) /\ inbox.ack.epoch \in Nat /\ AckRight(inbox.ack)
    <3>1. inbox.ack \in Acks  BY LoopTypes
    <3> QED  BY <1>0, <1>1, <3>1, NoAckRight DEF Acks, NoAck, Ack, AckInv
  <2>3. AckRight(inbox.ack)'
    <3>1. \A a : a = inbox'.ack => AckRight(a)'  BY <2>1, <2>2
    <3> QED  BY <3>1 DEF AckRight
  <2>4. ASSUME NEW i \in 1..Len(ctl'), ctl'[i].type = "ack" PROVE AckRight(ctl[i])'
    <3>1. ctl[i].epoch \in Nat /\ AckRight(ctl[i])
      <4>1. ctl \in Seq(Acks \cup Requests)  BY <1>0 DEF Shapes
      <4>2. ctl[i] \in Acks \cup Requests  BY <2>4, <4>1
      <4> QED  BY <1>0, <2>4, <4>2 DEF AckInv, Acks, Requests
    <3>2. \A a : a = ctl'[i] => AckRight(a)'  BY <2>1, <3>1
    <3> QED  BY <3>2 DEF AckRight
  <2> QED  BY <2>3, <2>4 DEF AckInv
<1>11. Begun'
  <2>1. agent'.epoch >= 1 /\ agent'.epoch # 1  BY <1>1
  <2> QED  BY <1>0, <2>1 DEF Begun
<1> QED  BY <1>7, <1>8, <1>9, <1>10, <1>11

\* resume_forced_idr_video, whatever the agent was doing: the reset is the
\* last message, nothing is agreed, and in a hybrid session an IDR is owed.
LEMMA ResumeInv ==
  ASSUME SafetyInv, Resume, agent.epoch # 1,
         UNCHANGED <<shot, analyzed, reader, cmds, slot, compositor, ctl, fault>>,
         inbox' \in [recovery: BOOLEAN, ack: Acks], inbox'.ack \in {inbox.ack, NoAck},
         budget' \in [repeats: Nat, timeouts: Nat, faults: Nat]
  PROVE  SafetyInv'
<1>0. agent' = Resumed(agent) /\ wire' = Append(wire, Reset(agent.epoch + 1))
      /\ encoder' = [encoder EXCEPT !.idr = @ \/ ~ExactOnly]
  BY DEF Resume
<1>1. /\ agent \in AgentState /\ agent.epoch \in Nat /\ agent.epoch >= 1
      /\ encoder \in EncoderState
  BY LoopTypes
<1>2. agent.exactOnly \in BOOLEAN  BY <1>1 DEF AgentState
<1>3. /\ agent'.mode = (IF agent.exactOnly THEN "quiescing" ELSE "video")
      /\ agent'.epoch = agent.epoch + 1 /\ agent'.exactOnly = agent.exactOnly
      /\ agent'.snapEpoch = (IF agent.exactOnly THEN agent.epoch + 1 ELSE 0)
      /\ agent'.pending = 0 /\ agent'.exactFrame = 0
  BY <1>0, <1>1 DEF Resumed, AgentState, ExactOnly
<1>4. agent' \in AgentState
  <2> DEFINE mode == IF agent.exactOnly THEN "quiescing" ELSE "video"
             snap == IF agent.exactOnly THEN agent.epoch + 1 ELSE 0
             next == agent.epoch + 1
             cool == ~agent.exactOnly
  <2>1. mode \in Modes /\ snap \in Nat /\ next \in Nat /\ cool \in BOOLEAN /\ 0 \in Nat
    BY <1>1, <1>2 DEF Modes
  <2>2. agent' = [agent EXCEPT !.mode = mode, !.epoch = next, !.cooling = cool, !.snapEpoch = snap,
                               !.snapFrame = 0, !.snapContent = 0, !.sent = 0,
                               !.exactFrame = 0, !.exactContent = 0, !.rectEpoch = 0,
                               !.target = 0, !.targetContent = 0, !.considered = 0,
                               !.base = 0, !.pending = 0]
    BY <1>0 DEF Resumed, ExactOnly
  <2> HIDE DEF mode, snap, next, cool
  <2> QED  BY ZenonT(60), <1>1, <2>1, <2>2 DEF AgentState
<1>5. /\ encoder' \in EncoderState
      /\ encoder'.queue = encoder.queue /\ encoder'.consumed = encoder.consumed
      /\ encoder'.repeats = encoder.repeats /\ encoder'.tried = encoder.tried
      /\ ~agent.exactOnly => encoder'.idr = TRUE
  BY <1>0, <1>1, <1>2 DEF ExactOnly
<1>6. Begun /\ EncoderInv  BY DEF SafetyInv
<1>7. analyzed.frame # 0  BY <1>6 DEF Begun
<1>8. /\ Begun' /\ WireInv' /\ RectAhead' /\ OwnInv' /\ AckInv' /\ Final("reset")'
      /\ wire' \in Seq(Messages) /\ wire' # <<>>
  BY <1>0, <1>3, <1>4, <1>7, NewEpoch
<1>9. agent'.mode \in {"video", "quiescing"} /\ (agent'.mode = "video" => ~agent.exactOnly)
  BY <1>3
<1>10. Plan'  BY <1>3, <1>9 DEF Plan
<1>11. StreamInv'
  <2>1. Opened'  BY <1>8 DEF Opened
  <2> QED  BY <1>9, <2>1 DEF StreamInv
<1>12. EncoderInv'
  <2>1. \A i \in 1..Len(encoder.queue) :
          /\ encoder.queue[i].frame \in 1..Len(shot) /\ encoder.queue[i].epoch \in 1..agent.epoch
    BY <1>6 DEF EncoderInv
  <2>2. \A i \in 1..Len(encoder.queue) :
          encoder.queue[i].epoch \in 1..agent'.epoch /\ encoder.queue[i].epoch # agent'.epoch
    BY SMTT(60), <1>1, <1>3, <2>1
  <2>3. \A i \in 1..Len(encoder'.queue) : ~Current(i)'  BY <1>5, <2>2 DEF Current
  <2> QED  BY <1>5, <1>6, <1>9, <2>1, <2>2, <2>3 DEF EncoderInv
<1>13. BaseInv'  BY <1>9 DEF BaseInv
<1>14. agent'.epoch >= agent.epoch  BY <1>1, <1>3
<1> QED  BY <1>4, <1>5, <1>8, <1>10, <1>11, <1>12, <1>13, <1>14, LoopStep

\* A loop that waits, or holds a base, has left its first epoch.
LEMMA NotFirstEpoch ==
  ASSUME SafetyInv
  PROVE  /\ agent.mode # "video" => agent.epoch # 1
         /\ inbox.recovery => agent.epoch # 1
         /\ ctl # <<>> => agent.epoch # 1
         /\ agent.epoch # 1 => analyzed.frame # 0
BY DEF SafetyInv, Begun

\* A recovery, a timeout and a change of content all go back to video.
LEMMA RecoversInv == ASSUME SafetyInv, AgentRecovers PROVE SafetyInv'
<1>1. /\ inbox.recovery /\ Resume /\ inbox' = [inbox EXCEPT !.recovery = FALSE]
      /\ UNCHANGED <<shot, analyzed, reader, cmds, slot, compositor, ctl, budget, fault>>
  BY DEF AgentRecovers, sourceVars, viewerVars, limitVars
<1>2. inbox \in [recovery: BOOLEAN, ack: Acks] /\ budget \in [repeats: Nat, timeouts: Nat, faults: Nat]
  BY LoopTypes
<1>3. inbox' \in [recovery: BOOLEAN, ack: Acks] /\ inbox'.ack = inbox.ack  BY <1>1, <1>2
<1>4. agent.epoch # 1  BY <1>1, NotFirstEpoch
<1> QED  BY <1>1, <1>2, <1>3, <1>4, ResumeInv

LEMMA TimesOutInv == ASSUME SafetyInv, AgentAckTimesOut PROVE SafetyInv'
<1>1. /\ agent.mode # "video" /\ Resume
      /\ budget' = [budget EXCEPT !.timeouts = @ + IF TimesOutEarly THEN 1 ELSE 0]
      /\ UNCHANGED <<shot, analyzed, inbox, reader, cmds, slot, compositor, ctl, fault>>
  BY DEF AgentAckTimesOut, sourceVars, viewerVars
<1>2. inbox \in [recovery: BOOLEAN, ack: Acks] /\ budget \in [repeats: Nat, timeouts: Nat, faults: Nat]
  BY LoopTypes
<1>3. budget' \in [repeats: Nat, timeouts: Nat, faults: Nat]
  <2>1. PICK n \in {0, 1} : budget' = [budget EXCEPT !.timeouts = @ + n]  BY <1>1
  <2> QED  BY <1>2, <2>1
<1>4. agent.epoch # 1  BY <1>1, NotFirstEpoch
<1> QED  BY <1>1, <1>2, <1>3, <1>4, ResumeInv

LEMMA UnquietInv == ASSUME SafetyInv, AgentUnquiet PROVE SafetyInv'
<1>1. /\ agent.mode # "video" /\ Resume
      /\ UNCHANGED <<shot, analyzed, inbox, reader, cmds, slot, compositor, ctl, budget, fault>>
  BY DEF AgentUnquiet, sourceVars, viewerVars, limitVars
<1>2. inbox \in [recovery: BOOLEAN, ack: Acks] /\ budget \in [repeats: Nat, timeouts: Nat, faults: Nat]
  BY LoopTypes
<1>3. agent.epoch # 1  BY <1>1, NotFirstEpoch
<1> QED  BY <1>1, <1>2, <1>3, ResumeInv

LEMMA QuiescesInv == ASSUME SafetyInv, AgentQuiesces PROVE SafetyInv'
<1>0. /\ agent.mode = "video" /\ analyzed.frame # 0
      /\ agent' = [agent EXCEPT !.mode = "quiescing", !.epoch = agent.epoch + 1, !.snapEpoch = agent.epoch + 1]
      /\ wire' = Append(wire, Reset(agent.epoch + 1))
      /\ UNCHANGED <<shot, analyzed, encoder, inbox, reader, cmds, slot, compositor, ctl, budget, fault>>
  BY DEF AgentQuiesces, sourceVars, viewerVars, limitVars
<1>1. /\ agent \in AgentState /\ agent.epoch \in Nat /\ agent.epoch >= 1
      /\ encoder \in EncoderState
      /\ inbox \in [recovery: BOOLEAN, ack: Acks] /\ budget \in [repeats: Nat, timeouts: Nat, faults: Nat]
  BY LoopTypes
<1>2. /\ agent' \in AgentState /\ agent'.mode = "quiescing" /\ agent'.epoch = agent.epoch + 1
      /\ agent'.snapEpoch = agent'.epoch /\ agent'.pending = agent.pending
      /\ agent'.exactFrame = agent.exactFrame
  <2> DEFINE next == agent.epoch + 1
  <2>1. "quiescing" \in Modes /\ next \in Nat  BY <1>1 DEF Modes
  <2>2. agent' = [agent EXCEPT !.mode = "quiescing", !.epoch = next, !.snapEpoch = next] /\ next = agent.epoch + 1
    BY <1>0
  <2> HIDE DEF next
  <2>3. agent' \in AgentState  BY ZenonT(60), <1>1, <2>1, <2>2 DEF AgentState
  <2>4. /\ agent'.mode = "quiescing" /\ agent'.epoch = next /\ agent'.snapEpoch = next
        /\ agent'.pending = agent.pending /\ agent'.exactFrame = agent.exactFrame
    BY <1>1, <2>2 DEF AgentState
  <2> QED  BY <2>2, <2>3, <2>4
<1>3. Plan /\ EncoderInv  BY DEF SafetyInv
<1>4. /\ Begun' /\ WireInv' /\ RectAhead' /\ OwnInv' /\ AckInv' /\ Final("reset")'
      /\ wire' \in Seq(Messages) /\ wire' # <<>>
  BY <1>0, <1>2, NewEpoch
<1>5. Plan'  BY <1>0, <1>2, <1>3 DEF Plan
<1>6. StreamInv'
  <2>1. Opened'  BY <1>4 DEF Opened
  <2> QED  BY <1>2, <2>1 DEF StreamInv
<1>7. EncoderInv'
  <2>1. \A i \in 1..Len(encoder.queue) :
          /\ encoder.queue[i].frame \in 1..Len(shot) /\ encoder.queue[i].epoch \in 1..agent.epoch
    BY <1>3 DEF EncoderInv
  <2>2. \A i \in 1..Len(encoder.queue) :
          encoder.queue[i].epoch \in 1..agent'.epoch /\ encoder.queue[i].epoch # agent'.epoch
    BY SMTT(60), <1>1, <1>2, <2>1
  <2>3. \A i \in 1..Len(encoder'.queue) : ~Current(i)'  BY <1>0, <2>2 DEF Current
  <2> QED  BY <1>0, <1>2, <1>3, <2>1, <2>2, <2>3 DEF EncoderInv
<1>8. BaseInv'  BY <1>2 DEF BaseInv
<1>9. agent'.epoch >= agent.epoch  BY <1>1, <1>2
<1> QED  BY <1>0, <1>1, <1>2, <1>4, <1>5, <1>6, <1>7, <1>8, <1>9, LoopStep

\* The wire does not grow: what is on it stays right for the agent's epoch.
LEMMA WireStays ==
  ASSUME SafetyInv, UNCHANGED <<shot, reader, cmds, compositor, wire>>, agent'.epoch = agent.epoch
  PROVE  WireInv' /\ RectAhead'
<1>1. WireInv /\ RectAhead  BY DEF SafetyInv
<1>2. WireInv'  BY <1>1 DEF WireInv, Right, Follows, Fits, Clear, RectComplete
<1>3. RectAhead'  BY <1>1 DEF RectAhead, AtBase, Unhurried
<1> QED  BY <1>2, <1>3

\* In a mode in which nothing is encoded the encoder holds no current frame.
LEMMA EncoderStays ==
  ASSUME SafetyInv, UNCHANGED <<shot, encoder>>, agent.mode # "video", agent'.mode # "video",
         agent'.epoch \in Nat, agent'.epoch >= agent.epoch,
         agent'.epoch = agent.epoch \/ agent'.epoch = agent.epoch + 1
  PROVE  EncoderInv'
<1>1. EncoderInv /\ agent.epoch \in Nat  BY LoopTypes DEF SafetyInv
<1>2. \A i \in 1..Len(encoder.queue) :
        /\ encoder.queue[i].frame \in 1..Len(shot) /\ encoder.queue[i].epoch \in 1..agent.epoch
        /\ ~Current(i)
  BY <1>1 DEF EncoderInv
<1>3. \A i \in 1..Len(encoder.queue) :
        encoder.queue[i].epoch \in 1..agent'.epoch /\ encoder.queue[i].epoch # agent'.epoch
  BY <1>1, <1>2 DEF Current
<1>4. \A i \in 1..Len(encoder.queue) : ~Current(i)'  BY <1>3 DEF Current
<1> QED  BY <1>1, <1>2, <1>3, <1>4 DEF EncoderInv

LEMMA SnapshotsInv == ASSUME SafetyInv, AgentSnapshots PROVE SafetyInv'
<1>1. /\ Begun /\ Plan /\ StreamInv /\ OwnInv /\ AckInv /\ Shapes
  BY DEF SafetyInv
<1>2. /\ agent.mode = "quiescing"
      /\ UNCHANGED <<shot, analyzed, encoder, inbox, wire, reader, cmds, slot, compositor, ctl, budget>>
  BY DEF AgentSnapshots, sourceVars, viewerVars
<1>3. /\ agent \in AgentState /\ agent.epoch \in Nat /\ agent.epoch >= 1
      /\ analyzed.frame \in Nat /\ analyzed.content \in Nat /\ Len(shot) \in Nat
      /\ wire \in Seq(Messages)
      /\ encoder \in EncoderState
      /\ inbox \in [recovery: BOOLEAN, ack: Acks] /\ budget \in [repeats: Nat, timeouts: Nat, faults: Nat]
  BY LoopTypes
<1>4. analyzed.frame # 0 /\ agent.pending = 0 /\ agent.snapEpoch = agent.epoch /\ agent.epoch # 1
  <2>1. agent.epoch # 1  BY <1>2, NotFirstEpoch
  <2>2. analyzed.frame # 0  BY <2>1, NotFirstEpoch
  <2> QED  BY <1>1, <1>2, <2>1, <2>2 DEF Plan
<1>5. /\ agent' = [agent EXCEPT !.mode = "sending", !.snapFrame = analyzed.frame,
                                !.snapContent = analyzed.content, !.sent = 0, !.pending = analyzed.frame]
      /\ UNCHANGED fault
  <2>1. ~(analyzed.frame = 0 \/ agent.pending # 0 \/ agent.snapEpoch = 0)  BY SMTT(60), <1>3, <1>4
  <2> QED  BY <2>1 DEF AgentSnapshots
<1>6. agent' \in AgentState
  <2>1. "sending" \in Modes  BY DEF Modes
  <2> QED  BY <1>3, <1>5, <2>1 DEF AgentState
<1>7. /\ agent'.mode = "sending" /\ agent'.snapFrame = analyzed.frame /\ agent'.sent = 0
      /\ agent'.pending = analyzed.frame /\ agent'.epoch = agent.epoch
      /\ agent'.snapEpoch = agent.snapEpoch /\ agent'.exactFrame = agent.exactFrame
  BY <1>3, <1>5 DEF AgentState
<1>8. Begun'
  BY <1>1, <1>2, <1>4, <1>7 DEF Begun
<1>9. Plan'
  <2>1. analyzed.frame \in 1..Len(shot)  BY SMTT(60), <1>1, <1>3, <1>4 DEF Begun
  <2>2. 0 < Chunks  BY VisualAssumption
  <2> QED  BY <1>1, <1>2, <1>4, <1>7, <2>1, <2>2 DEF Plan
<1>10. StreamInv'
  <2>1. Opened  BY <1>1, <1>2 DEF StreamInv
  <2>2. Opened'  BY <1>2, <1>7, <2>1 DEF Opened, Final, Clear
  <2> QED  BY <1>7, <2>2 DEF StreamInv
<1>11. WireInv' /\ RectAhead'  BY <1>2, <1>7, WireStays
<1>12. EncoderInv'
  BY <1>2, <1>3, <1>7, EncoderStays
<1>13. BaseInv'  BY <1>7 DEF BaseInv
<1>14. OwnInv'
  <2>1. OwnWire /\ OwnCmds  BY <1>1 DEF OwnInv
  <2>2. OwnWire'  BY <1>2, <1>7, <2>1 DEF OwnWire
  <2>3. OwnCmds'  BY <1>2, <1>7, <2>1 DEF OwnCmds
  <2> QED  BY <2>2, <2>3 DEF OwnInv
<1>15. AckInv'
  <2>1. \A a : AckRight(a) => AckRight(a)'  BY <1>2, <1>7 DEF AckRight
  <2> QED  BY <1>1, <1>2, <2>1, AcksUnchanged
<1>16. agent'.epoch >= agent.epoch  BY <1>3, <1>7
<1> QED
  BY <1>2, <1>3, <1>5, <1>6, <1>8, <1>9, <1>10, <1>11, <1>12, <1>13, <1>14, <1>15, <1>16, LoopStep

\* The acknowledgement of the snapshot makes its frame the base.
LEMMA AgreeSnapshotInv ==
  ASSUME SafetyInv, SnapshotAcked, AckMatches, Promotes(agent.snapFrame), AgreeOnSnapshot,
         inbox' = [inbox EXCEPT !.ack = NoAck],
         UNCHANGED <<shot, analyzed, reader, cmds, slot, compositor, ctl, budget, fault>>
  PROVE  SafetyInv'
<1>1. /\ Begun /\ Plan /\ StreamInv /\ OwnInv /\ AckInv /\ Shapes
  BY DEF SafetyInv
<1>2. /\ agent.mode = "awaiting_ack" /\ inbox.ack.epoch = agent.snapEpoch
      /\ agent.snapEpoch = agent.epoch /\ agent.snapFrame \in 1..Len(shot)
      /\ agent.pending = agent.snapFrame
  BY <1>1 DEF SnapshotAcked, AckIsFor, Plan
<1>3. /\ agent \in AgentState /\ agent.epoch \in Nat /\ agent.epoch >= 1
      /\ wire \in Seq(Messages) /\ agent.pending \in Nat
      /\ encoder \in EncoderState
      /\ inbox \in [recovery: BOOLEAN, ack: Acks] /\ budget \in [repeats: Nat, timeouts: Nat, faults: Nat]
      /\ agent.snapFrame \in Nat /\ agent.snapContent \in Nat
  BY LoopTypes
<1>4. SnapDone
  BY <1>1, <1>2 DEF AckInv, AckRight
<1>5. wire = <<>> /\ cmds = <<>> /\ AtBase(agent.snapFrame)  BY <1>4 DEF SnapDone
<1>6. /\ Clear /\ reader.rep = "snapshot" /\ reader.epoch = agent.epoch /\ reader.resetEpoch = 0
      /\ reader.frame = agent.snapFrame /\ reader.digest = SentDigest
  BY <1>1, <1>2, <1>5 DEF StreamInv, Complete
<1>7. SentDigest \in Digests /\ SentDigest # <<>>  BY <1>1, <1>2, SentDigestType
<1> DEFINE next == IF RawRect THEN agent.epoch + 1 ELSE agent.epoch
<1>8. next \in Nat /\ next >= agent.epoch /\ (RawRect => next = agent.epoch + 1) /\ (~RawRect => next = agent.epoch)
  BY SMTT(60), <1>3
<1>9. /\ agent' = [agent EXCEPT !.mode = "exact", !.epoch = next, !.rectEpoch = next,
                                !.exactFrame = agent.snapFrame, !.exactContent = agent.snapContent,
                                !.digest = SentDigest, !.base = agent.pending, !.pending = 0]
      /\ wire' = IF RawRect THEN Append(wire, Reset(next)) ELSE wire
      /\ encoder' = encoder
  BY <1>2 DEF AgreeOnSnapshot
<1> HIDE DEF next
<1>10. agent' \in AgentState
  <2> DEFINE d == SentDigest
  <2>1. "exact" \in Modes /\ d \in Digests  BY <1>7 DEF Modes
  <2>2. agent' = [agent EXCEPT !.mode = "exact", !.epoch = next, !.rectEpoch = next,
                                !.exactFrame = agent.snapFrame, !.exactContent = agent.snapContent,
                                !.digest = d, !.base = agent.pending, !.pending = 0]
    BY <1>9
  <2> HIDE DEF d
  <2> QED  BY ZenonT(60), <1>3, <1>8, <2>1, <2>2 DEF AgentState
<1>11. /\ agent'.mode = "exact" /\ agent'.epoch = next /\ agent'.rectEpoch = next
       /\ agent'.exactFrame = agent.snapFrame /\ agent'.digest = SentDigest
       /\ agent'.base = agent.snapFrame /\ agent'.pending = 0
  BY <1>2, <1>3, <1>9 DEF AgentState
<1>12. inbox' \in [recovery: BOOLEAN, ack: Acks] /\ inbox'.ack = NoAck
  <2>1. NoAck \in Acks  BY DEF NoAck, Ack, Acks, Digests
  <2> QED  BY <1>3, <2>1
<1>13. analyzed.frame # 0 /\ agent.epoch # 1  BY <1>2, NotFirstEpoch
<1>14. /\ Begun' /\ WireInv' /\ RectAhead' /\ OwnInv' /\ AckInv' /\ wire' \in Seq(Messages)
       /\ RawRect => Final("reset")' /\ Len(wire') = 1
       /\ ~RawRect => wire' = <<>>
  <2>1. CASE RawRect
    <3>1. wire' = Append(wire, Reset(agent.epoch + 1)) /\ agent'.epoch = agent.epoch + 1
      BY <1>8, <1>9, <1>11, <2>1
    <3>2. /\ Begun' /\ WireInv' /\ RectAhead' /\ OwnInv' /\ AckInv' /\ wire' \in Seq(Messages)
          /\ Final("reset")' /\ Len(wire') = Len(wire) + 1
      BY <1>10, <1>12, <1>13, <3>1, NewEpoch
    <3>3. Len(wire) = 0  BY <1>5
    <3> QED  BY <2>1, <3>2, <3>3
  <2>2. CASE ~RawRect
    <3>1. wire' = wire /\ agent'.epoch = agent.epoch  BY <1>8, <1>9, <1>11, <2>2
    <3>2. WireInv' /\ RectAhead'  BY <3>1, WireStays
    <3>3. Begun'  BY <1>1, <1>13, <3>1 DEF Begun
    <3>4. OwnInv'  BY <1>5, <3>1 DEF OwnInv, OwnWire, OwnCmds
    <3>5. \A a : AckRight(a) => AckRight(a)'  BY <1>11, <2>2, <3>1 DEF AckRight
    <3>6. AckRight(inbox.ack)'
      <4>1. AckRight(NoAck)  BY <1>3, NoAckRight
      <4>2. \A a : a = NoAck => AckRight(a)'  BY <3>5, <4>1
      <4> QED  BY <1>12, <4>2 DEF AckRight
    <3>7. ASSUME NEW i \in 1..Len(ctl'), ctl'[i].type = "ack" PROVE AckRight(ctl[i])'
      <4>1. \A a : a = ctl'[i] => AckRight(a)'  BY <1>1, <3>5, <3>7 DEF AckInv
      <4> QED  BY <4>1 DEF AckRight
    <3>8. AckInv'  BY <3>6, <3>7 DEF AckInv
    <3> QED  BY <1>3, <1>5, <2>2, <3>1, <3>2, <3>3, <3>4, <3>8
  <2> QED  BY <2>1, <2>2
<1>15. Plan'
  BY <1>2, <1>7, <1>11 DEF Plan
<1>16. StreamInv'
  <2>1. Based'  BY <1>6, <1>11 DEF Based, Clear
  <2>2. AtExact'  BY <1>6, <1>14 DEF AtExact
  <2> QED  BY <1>11, <2>1, <2>2 DEF StreamInv
<1>17. EncoderInv'
  <2>1. next = agent.epoch \/ next = agent.epoch + 1  BY <1>8
  <2> QED  BY <1>2, <1>8, <1>9, <1>11, <2>1, EncoderStays
<1>18. BaseInv'
  <2>1. AtBase(agent.exactFrame)'
    <3> SUFFICES ASSUME NEW b, b = agent'.exactFrame PROVE AtBase(b)'
      BY DEF AtBase
    <3> QED  BY <1>5, <1>11 DEF AtBase
  <2>2. Unhurried'  BY <1>5 DEF Unhurried
  <2> QED  BY <1>5, <1>11, <2>1, <2>2 DEF BaseInv
<1>19. agent'.epoch >= agent.epoch  BY <1>8, <1>11
<1> QED
  BY <1>3, <1>9, <1>10, <1>12, <1>14, <1>15, <1>16, <1>17, <1>18, <1>19, LoopStep

\* The acknowledgement of the rectangle moves the base to its target.
LEMMA AgreeRectInv ==
  ASSUME SafetyInv, RectAcked, AckMatches, Promotes(agent.target), AgreeOnRect,
         inbox' = [inbox EXCEPT !.ack = NoAck],
         UNCHANGED <<shot, analyzed, reader, cmds, slot, compositor, ctl, budget, fault>>
  PROVE  SafetyInv'
<1>1. /\ Begun /\ Plan /\ StreamInv /\ OwnInv /\ AckInv /\ BaseInv /\ Shapes
  BY DEF SafetyInv
<1>2. /\ agent.mode = "awaiting_rect_ack" /\ inbox.ack.epoch = agent.rectEpoch
      /\ inbox.ack.frame = agent.target /\ RawRect
      /\ agent.rectEpoch = agent.epoch /\ agent.target \in 1..Len(shot)
      /\ agent.target > agent.exactFrame /\ agent.pending = agent.target
      /\ agent.exactFrame \in 1..Len(shot)
      /\ agent.rectDigest = RectDigest(agent.digest, agent.target, shot[agent.exactFrame], shot[agent.target])
  BY <1>1 DEF RectAcked, AckIsFor, Plan
<1>3. /\ agent \in AgentState /\ agent.epoch \in Nat /\ agent.epoch >= 1
      /\ wire \in Seq(Messages) /\ agent.pending \in Nat /\ agent.target \in Nat
      /\ agent.exactFrame \in Nat /\ agent.rectDigest \in Digests /\ agent.digest \in Digests
      /\ encoder \in EncoderState
      /\ inbox \in [recovery: BOOLEAN, ack: Acks] /\ budget \in [repeats: Nat, timeouts: Nat, faults: Nat]
  BY LoopTypes
<1>4. RectDone
  <2>1. AckRight(inbox.ack)  BY <1>1 DEF AckInv
  <2>2. inbox.ack.frame <= agent.exactFrame \/ RectDone  BY <1>2, <2>1 DEF AckRight
  <2> QED  BY SMTT(60), <1>2, <1>3, <2>2
<1>5. wire = <<>> /\ cmds = <<>> /\ compositor.frame = agent.target  BY <1>4 DEF RectDone
<1>6. /\ Clear /\ reader.rep = "rect" /\ reader.epoch = agent.epoch /\ reader.resetEpoch = 0
      /\ reader.frame = agent.target /\ reader.digest = agent.rectDigest
  <2>1. Transaction  BY <1>1, <1>2 DEF StreamInv
  <2>2. Len(wire) = 0  BY <1>5
  <2> QED  BY <1>5, <2>1, <2>2 DEF Transaction
<1>7. RectHandled
  <2>1. Len(cmds) = 0  BY <1>5
  <2> QED  BY <1>1, <1>2, <1>5, <2>1 DEF BaseInv
<1>8. AtBase(agent.target)  BY <1>5, <1>7 DEF RectHandled, AtBase
<1>9. /\ agent' = [agent EXCEPT !.mode = "exact", !.exactFrame = agent.target,
                                !.exactContent = agent.targetContent, !.digest = agent.rectDigest,
                                !.target = 0, !.targetContent = 0, !.considered = 0,
                                !.base = agent.pending, !.pending = 0]
      /\ wire' = wire /\ encoder' = encoder
  BY DEF AgreeOnRect
<1>10. agent' \in AgentState
  <2>1. "exact" \in Modes /\ agent.targetContent \in Nat  BY <1>3 DEF Modes, AgentState
  <2> QED  BY ZenonT(60), <1>3, <1>9, <2>1 DEF AgentState
<1>11. /\ agent'.mode = "exact" /\ agent'.epoch = agent.epoch /\ agent'.rectEpoch = agent.rectEpoch
       /\ agent'.exactFrame = agent.target /\ agent'.digest = agent.rectDigest
       /\ agent'.base = agent.target /\ agent'.pending = 0
  BY <1>2, <1>3, <1>9 DEF AgentState
<1>12. inbox' \in [recovery: BOOLEAN, ack: Acks] /\ inbox'.ack = NoAck
  <2>1. NoAck \in Acks  BY DEF NoAck, Ack, Acks, Digests
  <2> QED  BY <1>3, <2>1
<1>13. WireInv' /\ RectAhead'  BY <1>9, <1>11, WireStays
<1>14. Begun'
  <2>1. agent.epoch # 1  BY <1>2, NotFirstEpoch
  <2> QED  BY <1>1, <1>11, <2>1 DEF Begun
<1>15. Plan'
  <2>1. agent.rectDigest # <<>>
    <3>1. shot[agent.exactFrame] \in Contents /\ shot[agent.target] \in Contents
      <4>1. shot \in Seq(Contents) /\ agent.exactFrame \in 1..Len(shot) /\ agent.target \in 1..Len(shot)
        BY <1>2, LoopTypes
      <4> QED  BY <4>1
    <3> DEFINE e == <<agent.target, shot[agent.exactFrame], shot[agent.target]>>
    <3>2. e \in Entry  BY <1>3, <3>1 DEF Entry
    <3>3. agent.rectDigest = Append(agent.digest, e)  BY <1>2 DEF RectDigest
    <3> HIDE DEF e
    <3>4. agent.digest \in Seq(Entry)  BY <1>3 DEF Digests
    <3>5. Append(agent.digest, e) # <<>>  BY <3>2, <3>4, AppendOf
    <3> QED  BY <3>3, <3>5
  <2> QED  BY <1>2, <1>11, <2>1 DEF Plan
<1>16. StreamInv'
  <2>1. Based'  BY <1>6, <1>11 DEF Based, Clear
  <2>2. AtExact'  BY <1>2, <1>5, <1>6, <1>9, <1>11 DEF AtExact
  <2> QED  BY <1>11, <2>1, <2>2 DEF StreamInv
<1>17. EncoderInv'
  BY <1>2, <1>3, <1>9, <1>11, EncoderStays
<1>18. BaseInv'
  <2>1. AtBase(agent.exactFrame)'
    <3> SUFFICES ASSUME NEW b, b = agent'.exactFrame PROVE AtBase(b)'
      BY DEF AtBase
    <3> QED  BY <1>8, <1>11 DEF AtBase
  <2>2. Unhurried'  BY <1>5 DEF Unhurried
  <2> QED  BY <1>5, <1>9, <1>11, <2>1, <2>2 DEF BaseInv
<1>19. OwnInv'  BY <1>5, <1>9 DEF OwnInv, OwnWire, OwnCmds
<1>20. AckInv'
  <2>1. \A a : a.frame \in Nat /\ AckRight(a) => AckRight(a)'
    <3> SUFFICES ASSUME NEW a, a.frame \in Nat, AckRight(a) PROVE AckRight(a)'  OBVIOUS
    <3>1. a.epoch = agent.epoch => a.frame <= agent.exactFrame \/ a.frame = agent.target
      BY <1>2 DEF AckRight
    <3>2. a.epoch = agent.epoch => a.frame <= agent.target  BY SMTT(60), <1>2, <1>3, <3>1
    <3> QED  BY <1>11, <3>2 DEF AckRight
  <2>2. AckRight(inbox.ack)'
    <3>1. AckRight(NoAck) /\ NoAck.frame \in Nat  BY <1>3, NoAckRight DEF NoAck, Ack
    <3>2. \A a : a = NoAck => AckRight(a)'  BY <2>1, <3>1
    <3> QED  BY <1>12, <3>2 DEF AckRight
  <2>3. ASSUME NEW i \in 1..Len(ctl'), ctl'[i].type = "ack" PROVE AckRight(ctl[i])'
    <3>1. ctl[i].frame \in Nat
      <4>1. ctl \in Seq(Acks \cup Requests)  BY <1>1 DEF Shapes
      <4>2. ctl[i] \in Acks \cup Requests  BY <2>3, <4>1
      <4> QED  BY <2>3, <4>2 DEF Acks, Requests
    <3>2. \A a : a = ctl'[i] => AckRight(a)'  BY <1>1, <2>1, <2>3, <3>1 DEF AckInv
    <3> QED  BY <3>2 DEF AckRight
  <2> QED  BY <2>2, <2>3 DEF AckInv
<1>21. agent'.epoch >= agent.epoch  BY <1>3, <1>11
<1> QED
  BY <1>3, <1>9, <1>10, <1>12, <1>13, <1>14, <1>15, <1>16, <1>17, <1>18, <1>19, <1>20, <1>21, LoopStep

\* An acknowledgement that is not for what the agent waits for changes nothing.
LEMMA AcksInv == ASSUME SafetyInv, AgentAcks PROVE SafetyInv'
<1>1. /\ inbox' = [inbox EXCEPT !.ack = NoAck]
      /\ UNCHANGED <<shot, analyzed, reader, cmds, slot, compositor, ctl, budget, fault>>
  BY DEF AgentAcks, sourceVars, viewerVars, limitVars
<1>2. /\ inbox \in [recovery: BOOLEAN, ack: Acks] /\ budget \in [repeats: Nat, timeouts: Nat, faults: Nat]
      /\ encoder \in EncoderState
      /\ agent.epoch \in Nat /\ agent.epoch >= 1
  BY LoopTypes
<1>3. inbox' \in [recovery: BOOLEAN, ack: Acks] /\ inbox'.ack = NoAck
  <2>1. NoAck \in Acks  BY DEF NoAck, Ack, Acks, Digests
  <2> QED  BY <1>1, <1>2, <2>1
<1>4. CASE SnapshotAcked \/ RectAcked
  <2>1. agent.mode # "video"  BY <1>4 DEF SnapshotAcked, RectAcked
  <2>2. agent.epoch # 1  BY <2>1, NotFirstEpoch
  <2>3. CASE Resume  BY <1>1, <1>2, <1>3, <2>2, <2>3, ResumeInv
  <2>4. CASE AckMatches /\ SnapshotAcked /\ Promotes(agent.snapFrame) /\ AgreeOnSnapshot
    BY <1>1, <2>4, AgreeSnapshotInv
  <2>5. CASE AckMatches /\ RectAcked /\ Promotes(agent.target) /\ AgreeOnRect
    BY <1>1, <2>5, AgreeRectInv
  <2>6. AckMatches => SnapshotAcked \/ RectAcked  BY DEF AckMatches
  <2> QED  BY <1>4, <2>3, <2>4, <2>5, <2>6 DEF AgentAcks
<1>5. CASE ~(SnapshotAcked \/ RectAcked)
  <2>1. UNCHANGED <<agent, wire, encoder>>  BY <1>5 DEF AgentAcks, AckMatches
  <2>2. Shapes /\ Begun /\ EncoderInv /\ AckInv  BY DEF SafetyInv
  <2>3. AgentKept  BY <2>1, <2>2, AgentSame
  <2>4. \A a : AckRight(a) => AckRight(a)'  BY <1>1, <2>1, <2>3, KeptAcks
  <2>5. AckRight(inbox.ack)'
    <3>1. AckRight(NoAck)  BY <1>2, NoAckRight
    <3>2. \A a : a = NoAck => AckRight(a)'  BY <2>4, <3>1
    <3> QED  BY <1>3, <3>2 DEF AckRight
  <2>6. ASSUME NEW i \in 1..Len(ctl'), ctl'[i].type = "ack" PROVE AckRight(ctl[i])'
    <3>1. \A a : a = ctl'[i] => AckRight(a)'  BY <1>1, <2>2, <2>4, <2>6 DEF AckInv
    <3> QED  BY <3>1 DEF AckRight
  <2>7. AckInv'  BY <2>5, <2>6 DEF AckInv
  <2>8. EncoderInv'  BY <1>1, <2>1, <2>2 DEF EncoderInv, Current, Streaming, Final, Clear
  <2>10. ctl' \in Seq(Acks \cup Requests)  BY <1>1, <2>2 DEF Shapes
  <2>9. inbox'.recovery = inbox.recovery /\ ctl' = ctl  BY <1>1, <1>2
  <2> QED  BY <1>1, <1>2, <1>3, <2>1, <2>3, <2>7, <2>8, <2>9, <2>10, Kept
<1> QED  BY <1>4, <1>5

LEMMA ReceivesInv == ASSUME SafetyInv, ReceivesControl PROVE SafetyInv'
<1>1. /\ ctl # <<>> /\ ctl' = Tail(ctl)
      /\ inbox' = (IF Head(ctl).type = "request" THEN [inbox EXCEPT !.recovery = TRUE]
                                                 ELSE [inbox EXCEPT !.ack = Head(ctl)])
      /\ UNCHANGED <<shot, analyzed, encoder, agent, wire, reader, cmds, slot, compositor, budget, fault>>
  BY DEF ReceivesControl, sourceVars, viewerVars, limitVars
<1>2. Shapes /\ Begun /\ EncoderInv /\ AckInv  BY DEF SafetyInv
<1>3. /\ inbox \in [recovery: BOOLEAN, ack: Acks] /\ budget \in [repeats: Nat, timeouts: Nat, faults: Nat]
      /\ encoder \in EncoderState
  BY LoopTypes
<1>4. agent.epoch # 1  BY <1>1, NotFirstEpoch
<1>5. /\ Head(ctl) = ctl[1] /\ ctl[1] \in Acks \cup Requests
      /\ ctl' \in Seq(Acks \cup Requests) /\ Len(ctl') = Len(ctl) - 1 /\ Len(ctl) \in Nat /\ Len(ctl) >= 1
      /\ \A i \in 1..Len(ctl') : ctl'[i] = ctl[i + 1] /\ i + 1 \in 1..Len(ctl)
  <2>1. ctl \in Seq(Acks \cup Requests)  BY <1>2 DEF Shapes
  <2>2. /\ Head(ctl) = ctl[1] /\ ctl[1] \in Acks \cup Requests
        /\ Tail(ctl) \in Seq(Acks \cup Requests) /\ Len(Tail(ctl)) = Len(ctl) - 1
        /\ Len(ctl) \in Nat /\ Len(ctl) >= 1
        /\ \A i \in 1..(Len(ctl) - 1) : Tail(ctl)[i] = ctl[i + 1] /\ i + 1 \in 1..Len(ctl)
    BY <1>1, <2>1, TailOf
  <2> QED  BY <1>1, <2>2
<1>6. AgentKept  BY <1>1, <1>2, AgentSame
<1>7. \A a : AckRight(a) => AckRight(a)'  BY <1>1, <1>6, KeptAcks
<1>8. /\ inbox' \in [recovery: BOOLEAN, ack: Acks]
      /\ inbox'.ack = inbox.ack \/ (inbox'.ack = ctl[1] /\ ctl[1].type = "ack")
  <2>1. CASE ctl[1].type = "request"
    <3>1. inbox' = [inbox EXCEPT !.recovery = TRUE]  BY <1>1, <1>5, <2>1
    <3> QED  BY <1>3, <3>1
  <2>2. CASE ctl[1].type # "request"
    <3>1. ctl[1] \in Acks /\ ctl[1].type = "ack"  BY <1>5, <2>2 DEF Acks, Requests
    <3>2. inbox' = [inbox EXCEPT !.ack = ctl[1]]  BY <1>1, <1>5, <2>2
    <3> QED  BY <1>3, <3>1, <3>2
  <2> QED  BY <2>1, <2>2
<1>9. AckInv'
  <2>1. 1 \in 1..Len(ctl)  BY <1>5
  <2>2. AckRight(inbox'.ack)  BY <1>2, <1>8, <2>1 DEF AckInv
  <2>3. AckRight(inbox.ack)'
    <3>1. \A a : a = inbox'.ack => AckRight(a)'  BY <1>7, <2>2
    <3> QED  BY <3>1 DEF AckRight
  <2>4. ASSUME NEW i \in 1..Len(ctl'), ctl'[i].type = "ack" PROVE AckRight(ctl[i])'
    <3>1. \A a : a = ctl'[i] => AckRight(a)'  BY <1>2, <1>5, <1>7, <2>4 DEF AckInv
    <3> QED  BY <3>1 DEF AckRight
  <2> QED  BY <2>3, <2>4 DEF AckInv
<1>10. EncoderInv'  BY <1>1, <1>2 DEF EncoderInv, Current, Streaming, Final, Clear
<1> QED  BY <1>1, <1>3, <1>4, <1>5, <1>6, <1>8, <1>9, <1>10, Kept

-----------------------------------------------------------------------------
(* The agent sends the snapshot. *)

LEMMA ChunkType ==
  \A e, f, i \in Nat : \A c \in Contents :
    /\ Chunk(e, f, i, c) \in Messages
    /\ Chunk(e, f, i, c).type = "chunk" /\ Chunk(e, f, i, c).epoch = e /\ Chunk(e, f, i, c).frame = f
    /\ Chunk(e, f, i, c).offset = i /\ Chunk(e, f, i, c).content = c
BY DEF Chunk, Messages

LEMMA CommitType ==
  \A e, f, b \in Nat :
    /\ Commit(e, f, b) \in Messages
    /\ Commit(e, f, b).type = "commit" /\ Commit(e, f, b).epoch = e /\ Commit(e, f, b).frame = f
    /\ Commit(e, f, b).base = b
BY DEF Commit, Messages

\* The chunk continues the reset or the chunk before it.
LEMMA NextChunk ==
  ASSUME SafetyInv, agent.mode = "sending", NEW x \in Messages,
         x.type = "chunk", x.epoch = agent.epoch, x.frame = agent.snapFrame,
         x.offset = agent.sent, x.content = shot[agent.snapFrame]
  PROVE  /\ wire = <<>> => Fits(x)
         /\ wire # <<>> => Follows(wire[Len(wire)], x)
<1>1. StreamInv /\ Plan /\ Shapes  BY DEF SafetyInv
<1>2. IF agent.sent = 0 THEN Opened ELSE Delivered  BY <1>1 DEF StreamInv
<1>3. agent.sent \in Nat  BY LoopTypes
<1>4. ASSUME wire = <<>> PROVE Fits(x)
  <2>1. CASE agent.sent = 0
    <3>1. reader.snap = NoSnap /\ reader.rect = NoRect /\ reader.resetEpoch = agent.epoch
      BY <1>2, <1>4, <2>1 DEF Opened, Clear
    <3>2. Len(reader.snap.parts) = 0  BY <3>1 DEF NoSnap
    <3> QED  BY <2>1, <3>1, <3>2 DEF Fits
  <2>2. CASE agent.sent # 0
    <3>1. /\ reader.resetEpoch = agent.epoch /\ reader.rect = NoRect
          /\ reader.snap # NoSnap /\ reader.snap.frame = agent.snapFrame
          /\ Len(reader.snap.parts) = agent.sent
      BY <1>2, <1>4, <2>2 DEF Delivered
    <3> QED  BY <3>1 DEF Fits
  <2> QED  BY <2>1, <2>2
<1>5. ASSUME wire # <<>> PROVE Follows(wire[Len(wire)], x)
  <2> DEFINE l == wire[Len(wire)]
  <2>1. CASE agent.sent = 0
    <3>1. l.type = "reset" /\ l.epoch = agent.epoch
      BY <1>2, <1>5, <2>1 DEF Opened, Final
    <3> HIDE DEF l
    <3>2. Follows(l, x)  BY <2>1, <3>1 DEF Follows
    <3> QED  BY <3>2 DEF l
  <2>2. CASE agent.sent # 0
    <3>1. /\ l.type = "chunk" /\ l.epoch = agent.epoch /\ l.frame = agent.snapFrame
          /\ l.offset + 1 = agent.sent
      BY <1>2, <1>5, <2>2 DEF Delivered, Final
    <3> HIDE DEF l
    <3>2. Follows(l, x)  BY <2>2, <3>1 DEF Follows
    <3> QED  BY <3>2 DEF l
  <2> QED  BY <2>1, <2>2
<1> QED  BY <1>4, <1>5

\* What a step that only sends leaves to prove.
LEMMA SendingKept ==
  ASSUME SafetyInv, agent.mode = "sending", agent'.mode \in {"sending", "awaiting_ack"},
         agent'.epoch = agent.epoch, agent'.snapFrame = agent.snapFrame,
         UNCHANGED <<shot, analyzed, encoder, inbox, cmds, ctl>>
  PROVE  Begun' /\ EncoderInv' /\ BaseInv' /\ OwnCmds' /\ AckInv'
<1>1. /\ Begun /\ EncoderInv /\ OwnCmds /\ AckInv /\ agent.epoch \in Nat
  BY LoopTypes DEF SafetyInv, OwnInv
<1>2. agent.epoch # 1  BY NotFirstEpoch
<1>3. Begun'  BY <1>1, <1>2 DEF Begun
<1>4. EncoderInv'  BY <1>1, EncoderStays
<1>5. BaseInv'  BY DEF BaseInv
<1>6. OwnCmds'
  <2>1. \A i \in 1..Len(cmds) : ~(cmds[i].kind \in {"commit", "rect"} /\ cmds[i].epoch = agent.epoch)
    BY <1>1 DEF OwnCmds
  <2> QED  BY <2>1 DEF OwnCmds
<1>7. \A a : AckRight(a) => AckRight(a)'
  BY DEF AckRight
<1>8. AckInv'  BY <1>1, <1>7, AcksUnchanged
<1> QED  BY <1>3, <1>4, <1>5, <1>6, <1>8

\* Two messages that are no rectangles, the second one following the first.
LEMMA SendsTwo ==
  ASSUME SafetyInv, UNCHANGED <<shot, reader, cmds, compositor>>,
         NEW x \in Messages, NEW y \in Messages, wire' = wire \o <<x>> \o <<y>>,
         x.type # "rect", y.type # "rect", Right(x)', Right(y)',
         agent' \in AgentState, agent'.epoch >= agent.epoch,
         wire = <<>> => Fits(x), wire # <<>> => Follows(wire[Len(wire)], x), Follows(x, y)
  PROVE  /\ WireInv' /\ RectAhead'
         /\ wire' \in Seq(Messages) /\ wire' # <<>> /\ Len(wire') = Len(wire) + 2
         /\ wire'[Len(wire')] = y /\ wire'[Len(wire) + 1] = x /\ Len(wire) \in Nat
         /\ \A i \in 1..Len(wire) : wire'[i] = wire[i]
<1>1. wire \in Seq(Messages)  BY DEF SafetyInv, Shapes
<1>2. /\ wire' \in Seq(Messages) /\ wire' # <<>> /\ Len(wire') = Len(wire) + 2 /\ Len(wire) \in Nat
      /\ wire'[Len(wire) + 1] = x /\ wire'[Len(wire) + 2] = y
      /\ \A i \in 1..Len(wire) : wire'[i] = wire[i]
  <2> SUFFICES ASSUME NEW t, t = wire'
               PROVE  /\ t \in Seq(Messages) /\ t # <<>> /\ Len(t) = Len(wire) + 2 /\ Len(wire) \in Nat
                      /\ t[Len(wire) + 1] = x /\ t[Len(wire) + 2] = y
                      /\ \A i \in 1..Len(wire) : t[i] = wire[i]
    OBVIOUS
  <2>1. t = wire \o <<x>> \o <<y>>  OBVIOUS
  <2> QED  BY <1>1, <2>1, TwoMore
<1>3. \A i \in 1..Len(wire') : i > Len(wire) => Right(wire[i])' /\ wire'[i].type # "rect"
  <2> SUFFICES ASSUME NEW i \in 1..Len(wire'), i > Len(wire)
               PROVE  Right(wire[i])' /\ wire'[i].type # "rect"
    OBVIOUS
  <2>1. i = Len(wire) + 1 \/ i = Len(wire) + 2  BY <1>2
  <2>2. wire'[i] = x \/ wire'[i] = y  BY <1>2, <2>1
  <2>3. \A m : m = x \/ m = y => Right(m)'  BY DEF Right
  <2> QED  BY <2>2, <2>3 DEF Right
<1>4. \A i \in 1..(Len(wire') - 1) : i >= Len(wire) => Follows(wire'[i], wire'[i + 1])
  <2> SUFFICES ASSUME NEW i \in 1..(Len(wire') - 1), i >= Len(wire)
               PROVE  Follows(wire'[i], wire'[i + 1])
    OBVIOUS
  <2>1. CASE i = Len(wire)
    <3>1. i \in 1..Len(wire) /\ wire # <<>>  BY <1>2, <2>1
    <3>2. wire'[i] = wire[Len(wire)] /\ wire'[i + 1] = x  BY <1>2, <2>1, <3>1
    <3> QED  BY <3>1, <3>2
  <2>2. CASE i # Len(wire)
    <3>1. i = Len(wire) + 1 /\ i + 1 = Len(wire) + 2  BY <1>2, <2>2
    <3> QED  BY <1>2, <3>1
  <2> QED  BY <2>1, <2>2
<1>5. wire = <<>> => wire'[1] = x
  <2>1. wire = <<>> => Len(wire) = 0  OBVIOUS
  <2> QED  BY <1>2, <2>1
<1>6. Len(wire') >= Len(wire) /\ wire'[Len(wire')] = y  BY <1>2
<1> QED  BY <1>2, <1>3, <1>4, <1>5, <1>6, WireGrows

\* The loop sends the next chunk, or the last one with its commit.
LEMMA SendsInv == ASSUME SafetyInv, AgentSends PROVE SafetyInv'
<1>1. /\ agent.mode = "sending"
      /\ UNCHANGED <<shot, analyzed, inbox, reader, cmds, slot, compositor, ctl, budget, fault>>
  BY DEF AgentSends, sourceVars, viewerVars, limitVars
<1>2. /\ agent \in AgentState /\ agent.epoch \in Nat /\ agent.epoch >= 1
      /\ agent.sent \in Nat /\ agent.snapFrame \in Nat /\ shot \in Seq(Contents)
      /\ wire \in Seq(Messages) /\ Len(wire) \in Nat
      /\ encoder \in EncoderState
      /\ inbox \in [recovery: BOOLEAN, ack: Acks] /\ budget \in [repeats: Nat, timeouts: Nat, faults: Nat]
  BY LoopTypes
<1>3. agent.epoch # 1 /\ Plan /\ OwnWire  BY <1>1, NotFirstEpoch DEF SafetyInv, OwnInv
<1>4. CASE Resume  BY <1>1, <1>2, <1>3, <1>4, ResumeInv
<1>5. CASE ~Resume
  <2>1. /\ agent.snapEpoch = agent.epoch /\ agent.snapFrame \in 1..Len(shot)
        /\ agent.pending = agent.snapFrame /\ agent.sent < Chunks /\ agent.exactFrame = 0
    BY <1>1, <1>3 DEF Plan
  <2> DEFINE c == shot[agent.snapFrame]
             last == agent.sent + 1 = Chunks
             mode == IF last THEN "awaiting_ack" ELSE "sending"
             x0 == Chunk(agent.epoch, agent.snapFrame, agent.sent, c)
             y0 == Commit(agent.epoch, agent.snapFrame, 0)
  <2>2. c \in Contents  BY <1>2, <2>1
  <2>3. /\ agent' = [agent EXCEPT !.sent = agent.sent + 1, !.mode = mode]
        /\ wire' = wire \o <<x0>> \o (IF last THEN <<y0>> ELSE <<>>)
        /\ encoder' = encoder
    BY <1>5, <2>1 DEF AgentSends
  <2>4. PICK x \in Messages :
          /\ x = x0 /\ x.type = "chunk" /\ x.epoch = agent.epoch /\ x.frame = agent.snapFrame
          /\ x.offset = agent.sent /\ x.content = c
    <3> HIDE DEF c
    <3>0. agent.epoch \in Nat /\ agent.snapFrame \in Nat /\ agent.sent \in Nat  BY <1>2
    <3>1. /\ x0 \in Messages /\ x0.type = "chunk" /\ x0.epoch = agent.epoch
          /\ x0.frame = agent.snapFrame /\ x0.offset = agent.sent /\ x0.content = c
      BY <2>2, <3>0 DEF Chunk, Messages
    <3> HIDE DEF x0
    <3> QED  BY <3>1, Zenon
  <2>5. PICK y \in Messages :
          /\ y = y0 /\ y.type = "commit" /\ y.epoch = agent.epoch /\ y.frame = agent.snapFrame
          /\ y.base = 0
    <3>1. agent.epoch \in Nat /\ agent.snapFrame \in Nat /\ 0 \in Nat  BY <1>2
    <3>2. /\ y0 \in Messages /\ y0.type = "commit" /\ y0.epoch = agent.epoch
          /\ y0.frame = agent.snapFrame /\ y0.base = 0
      BY <3>1, CommitType
    <3> HIDE DEF y0
    <3> QED  BY <3>2, Zenon
  <2> HIDE DEF x0, y0
  <2>6. mode \in {"sending", "awaiting_ack"} /\ (mode = "awaiting_ack" <=> last)  OBVIOUS
  <2>7. agent.sent + 1 \in Nat /\ agent.sent + 1 <= Chunks /\ Chunks \in Nat
    <3>1. Chunks \in Nat  BY VisualAssumption
    <3>2. agent.sent \in Nat /\ agent.sent < Chunks  BY <1>2, <2>1
    <3> QED  BY <3>1, <3>2
  <2> HIDE DEF mode
  <2>8. /\ agent' \in AgentState /\ agent'.mode = mode /\ agent'.sent = agent.sent + 1
        /\ agent'.epoch = agent.epoch /\ agent'.snapEpoch = agent.snapEpoch
        /\ agent'.snapFrame = agent.snapFrame /\ agent'.pending = agent.pending
        /\ agent'.exactFrame = agent.exactFrame
    <3>1. mode \in Modes  BY <2>6 DEF Modes
    <3> QED  BY <1>2, <2>3, <2>7, <3>1 DEF AgentState
  <2>9. /\ wire = <<>> => Fits(x)
        /\ wire # <<>> => Follows(wire[Len(wire)], x)
    BY <1>1, <2>4, NextChunk
  <2>10. Right(x)' /\ Right(y)'
    <3>1. agent.epoch \in 1..agent'.epoch /\ agent.epoch >= 2  BY SMTT(60), <1>2, <1>3, <2>8
    <3>2. agent.snapFrame \in 1..Len(shot') /\ shot' = shot  BY <1>1, <2>1
    <3>3. \A m : m = x => Right(m)'  BY <1>1, <2>1, <2>4, <3>1, <3>2 DEF Right
    <3>4. \A m : m = y => Right(m)'  BY <2>5, <3>1, <3>2 DEF Right
    <3> QED  BY <3>3, <3>4 DEF Right
  <2>11. agent'.epoch >= agent.epoch  BY <1>2, <2>8
  <2>12. CASE ~last
    <3>1. wire' = Append(wire, x)
      <4>1. wire' = wire \o <<x>> \o <<>>  BY <2>3, <2>4, <2>12
      <4>2. wire \o <<x>> = Append(wire, x) /\ Append(wire, x) \in Seq(Messages)  BY <1>2
      <4>3. Append(wire, x) \o <<>> = Append(wire, x)  BY <4>2
      <4> QED  BY <4>1, <4>2, <4>3
    <3>2. /\ WireInv' /\ RectAhead' /\ wire' \in Seq(Messages) /\ wire' # <<>>
          /\ Len(wire') = Len(wire) + 1 /\ wire'[Len(wire')] = x
          /\ \A i \in 1..Len(wire) : wire'[i] = wire[i]
      <4>1. x.type # "rect"  BY <2>4
      <4> QED  BY <1>1, <2>8, <2>9, <2>10, <2>11, <3>1, <4>1, Sends
    <3>3. mode = "sending"  BY <2>6, <2>12
    <3>4. Plan'
      <4>1. agent'.sent < Chunks  BY <2>7, <2>8, <2>12
      <4> QED  BY <1>1, <2>1, <2>8, <3>3, <4>1 DEF Plan
    <3>5. StreamInv'
      <4>1. Delivered'  BY <2>4, <2>8, <3>2 DEF Delivered, Final
      <4>2. agent'.sent # 0  BY SMTT(60), <1>2, <2>8
      <4> QED  BY <2>8, <3>3, <4>1, <4>2 DEF StreamInv
    <3>6. /\ Begun' /\ EncoderInv' /\ BaseInv' /\ OwnCmds' /\ AckInv'
      BY <1>1, <2>3, <2>6, <2>8, SendingKept
    <3>7. OwnWire'
      <4>1. ASSUME NEW i \in 1..Len(wire'), wire'[i].type \in {"commit", "rect"},
                   wire'[i].epoch = agent'.epoch
            PROVE  FALSE
        <5>1. i # Len(wire')  BY <2>4, <3>2, <4>1
        <5>2. i \in 1..Len(wire)  BY SMTT(60), <1>2, <3>2, <5>1
        <5> QED  BY <1>1, <1>3, <2>8, <3>2, <4>1, <5>2 DEF OwnWire
      <4> QED  BY <4>1 DEF OwnWire
    <3>8. OwnInv'  BY <3>6, <3>7 DEF OwnInv
    <3> QED  BY <1>1, <1>2, <2>3, <2>8, <2>11, <3>2, <3>4, <3>5, <3>6, <3>8, LoopStep
  <2>13. CASE last
    <3>1. wire' = wire \o <<x>> \o <<y>>  BY <2>3, <2>4, <2>5, <2>13
    <3>2. Follows(x, y)  BY <2>4, <2>5, <2>13 DEF Follows
    <3>3. /\ WireInv' /\ RectAhead' /\ wire' \in Seq(Messages) /\ wire' # <<>>
          /\ Len(wire') = Len(wire) + 2 /\ wire'[Len(wire')] = y /\ wire'[Len(wire) + 1] = x
          /\ \A i \in 1..Len(wire) : wire'[i] = wire[i]
      <4>1. x.type # "rect" /\ y.type # "rect"  BY <2>4, <2>5
      <4> QED  BY <1>1, <2>8, <2>9, <2>10, <2>11, <3>1, <3>2, <4>1, SendsTwo
    <3>4. mode = "awaiting_ack"  BY <2>6, <2>13
    <3>5. Plan'
      BY <1>1, <2>1, <2>8, <3>4 DEF Plan
    <3>6. StreamInv'
      <4>1. Complete'  BY <2>5, <2>8, <3>3 DEF Complete, Final
      <4> QED  BY <2>8, <3>4, <4>1 DEF StreamInv
    <3>7. /\ Begun' /\ EncoderInv' /\ BaseInv' /\ OwnCmds' /\ AckInv'
      BY <1>1, <2>3, <2>6, <2>8, SendingKept
    <3>8. OwnWire'
      <4>1. ASSUME NEW i \in 1..Len(wire'), wire'[i].type \in {"commit", "rect"},
                   wire'[i].epoch = agent'.epoch, i # Len(wire')
            PROVE  FALSE
        <5>1. i # Len(wire) + 1  BY <2>4, <3>3, <4>1
        <5>3. Len(wire) \in Nat /\ Len(wire') = Len(wire) + 2 /\ i # Len(wire')  BY <1>2, <3>3, <4>1
        <5>2. i \in 1..Len(wire)  BY <5>1, <5>3
        <5> QED  BY <1>1, <1>3, <2>8, <3>3, <4>1, <5>2 DEF OwnWire
      <4>2. wire'[Len(wire')].type = "commit" /\ agent'.mode = "awaiting_ack"  BY <2>5, <2>8, <3>3, <3>4
      <4> QED  BY <4>1, <4>2 DEF OwnWire
    <3>9. OwnInv'  BY <3>7, <3>8 DEF OwnInv
    <3> QED  BY <1>1, <1>2, <2>3, <2>8, <2>11, <3>3, <3>5, <3>6, <3>7, <3>9, LoopStep
  <2> QED  BY <2>12, <2>13
<1> QED  BY <1>4, <1>5

-----------------------------------------------------------------------------
(* Rectangles. *)

\* Two messages sent together are sent one after the other.
LEMMA PairAppended ==
  ASSUME NEW S, NEW x \in S, NEW y \in S, NEW s \in Seq(S)
  PROVE  s \o <<x, y>> = s \o <<x>> \o <<y>>
<1>1. <<x>> \in Seq(S) /\ <<y>> \in Seq(S) /\ <<x, y>> \in Seq(S)  OBVIOUS
<1>2. <<x>> \o <<y>> \in Seq(S) /\ Len(<<x>> \o <<y>>) = 2  BY <1>1
<1>3. (<<x>> \o <<y>>)[1] = x /\ (<<x>> \o <<y>>)[2] = y  BY <1>1
<1>4. Len(<<x, y>>) = 2 /\ <<x, y>>[1] = x /\ <<x, y>>[2] = y  OBVIOUS
<1>5. <<x>> \o <<y>> = <<x, y>>
  <2> DEFINE a == <<x>> \o <<y>>
             b == <<x, y>>
  <2>1. /\ a \in Seq(S) /\ b \in Seq(S) /\ Len(a) = 2 /\ Len(b) = 2
        /\ a[1] = b[1] /\ a[2] = b[2]
    BY <1>1, <1>2, <1>3, <1>4
  <2> HIDE DEF a, b
  <2>2. \A i \in 1..Len(a) : a[i] = b[i]  BY <2>1
  <2>3. a = b  BY <2>1, <2>2, SeqEqual
  <2> QED  BY <2>3 DEF a, b
<1>6. (s \o <<x>>) \o <<y>> = s \o (<<x>> \o <<y>>)
  <2> DEFINE a == <<x>>
             b == <<y>>
  <2>1. a \in Seq(S) /\ b \in Seq(S)  BY <1>1
  <2> HIDE DEF a, b
  <2>2. (s \o a) \o b = s \o (a \o b)  BY SMTT(60), <2>1, ConcatAssociative
  <2> QED  BY <2>2 DEF a, b
<1> QED  BY <1>5, <1>6

\* A rectangle and its commit go on the wire.
LEMMA SendsRect ==
  ASSUME SafetyInv, UNCHANGED <<shot, reader, cmds, compositor>>,
         NEW x \in Messages, NEW y \in Messages, wire' = wire \o <<x>> \o <<y>>,
         x.type = "rect", y.type = "commit", Right(x)', Right(y)', Follows(x, y),
         agent' \in AgentState, agent'.epoch >= agent.epoch,
         wire = <<>> => Fits(x),
         wire # <<>> => /\ Len(wire) = 1 /\ Follows(wire[1], x)
                        /\ RawRect /\ x.base = reader.frame /\ reader.digest # <<>>
                        /\ reader.rep = "snapshot" /\ cmds = <<>>,
         AtBase(x.base), Unhurried
  PROVE  /\ WireInv' /\ RectAhead'
         /\ wire' \in Seq(Messages) /\ wire' # <<>> /\ Len(wire') = Len(wire) + 2
         /\ wire'[Len(wire) + 1] = x /\ wire'[Len(wire) + 2] = y
         /\ \A i \in 1..Len(wire) : wire'[i] = wire[i]
<1>1. wire \in Seq(Messages)  BY DEF SafetyInv, Shapes
<1>2. /\ wire' \in Seq(Messages) /\ wire' # <<>> /\ Len(wire') = Len(wire) + 2 /\ Len(wire) \in Nat
      /\ wire'[Len(wire) + 1] = x /\ wire'[Len(wire) + 2] = y
      /\ \A i \in 1..Len(wire) : wire'[i] = wire[i]
  <2> SUFFICES ASSUME NEW t, t = wire'
               PROVE  /\ t \in Seq(Messages) /\ t # <<>> /\ Len(t) = Len(wire) + 2 /\ Len(wire) \in Nat
                      /\ t[Len(wire) + 1] = x /\ t[Len(wire) + 2] = y
                      /\ \A i \in 1..Len(wire) : t[i] = wire[i]
    OBVIOUS
  <2>1. t = wire \o <<x>> \o <<y>>  OBVIOUS
  <2> QED  BY <1>1, <2>1, TwoMore
<1>3. Len(wire) <= 1 /\ (wire = <<>> <=> Len(wire) = 0)
  <2>1. wire = <<>> <=> Len(wire) = 0  BY <1>1, EmptySeq
  <2> QED  BY <2>1
<1>4. \A i \in 1..Len(wire') : i > Len(wire) =>
        /\ Right(wire[i])'
        /\ wire'[i].type = "rect" =>
             /\ i <= 2 /\ AtBase(wire'[i].base) /\ Unhurried
             /\ i = 2 => /\ RawRect /\ wire'[i].base = reader.frame /\ reader.digest # <<>>
                         /\ reader.rep = "snapshot" /\ cmds = <<>>
  <2> SUFFICES ASSUME NEW i \in 1..Len(wire'), i > Len(wire)
               PROVE  /\ Right(wire[i])'
                      /\ wire'[i].type = "rect" =>
                           /\ i <= 2 /\ AtBase(wire'[i].base) /\ Unhurried
                           /\ i = 2 => /\ RawRect /\ wire'[i].base = reader.frame /\ reader.digest # <<>>
                                       /\ reader.rep = "snapshot" /\ cmds = <<>>
    OBVIOUS
  <2>1. \A m : m = x \/ m = y => Right(m)'  BY DEF Right
  <2>2. CASE i = Len(wire) + 1
    <3>1. wire'[i] = x  BY SMTT(60), <1>2, <2>2
    <3>2. Right(wire[i])'  BY <2>1, <3>1 DEF Right
    <3>3. i <= 2 /\ (i = 2 => wire # <<>>)  BY <1>2, <1>3, <2>2
    <3>4. AtBase(wire'[i].base)  BY <3>1
    <3> QED  BY <3>1, <3>2, <3>3, <3>4
  <2>3. CASE i = Len(wire) + 2
    <3>1. wire'[i] = y  BY <1>2, <2>3
    <3>2. Right(wire[i])'  BY <2>1, <3>1 DEF Right
    <3> QED  BY <3>1, <3>2
  <2>4. i = Len(wire) + 1 \/ i = Len(wire) + 2  BY <1>2
  <2> QED  BY <2>2, <2>3, <2>4
<1>5. \A i \in 1..(Len(wire') - 1) : i >= Len(wire) => Follows(wire'[i], wire'[i + 1])
  <2> SUFFICES ASSUME NEW i \in 1..(Len(wire') - 1), i >= Len(wire)
               PROVE  Follows(wire'[i], wire'[i + 1])
    OBVIOUS
  <2>1. CASE i = Len(wire)
    <3>1. Len(wire) = 1 /\ wire # <<>> /\ i = 1  BY <1>2, <1>3, <2>1
    <3>2. 1 \in 1..Len(wire)  BY <3>1
    <3>3. wire'[i] = wire[1]  BY <1>2, <3>1, <3>2
    <3>4. i + 1 = Len(wire) + 1  BY <2>1
    <3> QED  BY <1>2, <3>1, <3>3, <3>4
  <2>2. CASE i # Len(wire)
    <3>1. i = Len(wire) + 1 /\ i + 1 = Len(wire) + 2  BY <1>2, <2>2
    <3> QED  BY <1>2, <3>1
  <2> QED  BY <2>1, <2>2
<1>6. wire = <<>> => wire'[1] = x  BY <1>2, <1>3
<1>7. Len(wire') >= Len(wire)  BY <1>2
<1>8. WireInv' /\ RectAhead'  BY <1>2, <1>4, <1>5, <1>6, <1>7, WireGrows
<1> QED  BY <1>2, <1>8

\* What the agent decides from is what it agreed on with the viewer.
LEMMA RectFacts ==
  ASSUME SafetyInv, agent.mode = "exact", RawRect, RectReady(TRUE)
  PROVE  /\ agent.base = agent.exactFrame /\ agent.exactFrame \in 1..Len(shot)
         /\ analyzed.frame \in 1..Len(shot) /\ analyzed.frame > agent.exactFrame
         /\ shot[analyzed.frame] \in Contents /\ shot[agent.exactFrame] \in Contents
         /\ agent.rectEpoch = agent.epoch /\ agent.epoch >= 2 /\ agent.digest # <<>>
<1>1. Plan /\ Begun  BY DEF SafetyInv
<1>2. /\ agent.base = agent.exactFrame /\ agent.exactFrame \in 1..Len(shot)
      /\ analyzed.frame > agent.exactFrame /\ agent.rectEpoch = agent.epoch /\ agent.digest # <<>>
      /\ analyzed.frame <= Len(shot)
  BY <1>1 DEF Plan, Begun, RectReady
<1>3. /\ analyzed.frame \in Nat /\ shot \in Seq(Contents) /\ Len(shot) \in Nat
      /\ agent.epoch \in Nat /\ agent.epoch >= 1 /\ agent.epoch # 1 /\ agent.exactFrame \in Nat
  BY LoopTypes, NotFirstEpoch
<1>4. analyzed.frame \in 1..Len(shot) /\ agent.epoch >= 2  BY <1>2, <1>3
<1> QED  BY <1>2, <1>3, <1>4

\* A rectangle is sent with its commit, behind a reset when it is the first.
LEMMA SendRectInv ==
  ASSUME SafetyInv, agent.mode = "exact", RawRect, RectReady(TRUE), SendRect,
         UNCHANGED <<shot, analyzed, inbox, reader, cmds, slot, compositor, ctl, budget, fault>>
  PROVE  SafetyInv'
<1>1. /\ Begun /\ Plan /\ StreamInv /\ OwnInv /\ AckInv /\ BaseInv /\ Shapes
  BY DEF SafetyInv
<1>2. /\ agent \in AgentState /\ agent.epoch \in Nat /\ agent.epoch >= 1
      /\ wire \in Seq(Messages) /\ Len(wire) \in Nat /\ agent.exactFrame \in Nat
      /\ agent.digest \in Digests /\ analyzed.frame \in Nat /\ analyzed.content \in Nat
      /\ encoder \in EncoderState
      /\ inbox \in [recovery: BOOLEAN, ack: Acks] /\ budget \in [repeats: Nat, timeouts: Nat, faults: Nat]
  BY LoopTypes
<1>3. /\ agent.base = agent.exactFrame /\ agent.exactFrame \in 1..Len(shot)
      /\ analyzed.frame \in 1..Len(shot) /\ analyzed.frame > agent.exactFrame
      /\ shot[analyzed.frame] \in Contents /\ shot[agent.exactFrame] \in Contents
      /\ agent.rectEpoch = agent.epoch /\ agent.epoch >= 2 /\ agent.digest # <<>>
  BY RectFacts
<1> DEFINE f == analyzed.frame
           u == shot[agent.exactFrame]
           v == shot[f]
           d == RectDigest(agent.digest, f, u, v)
           x0 == Rect(agent.epoch, f, agent.exactFrame, u, v)
           y0 == Commit(agent.epoch, f, agent.exactFrame)
<1>4. /\ agent' = [Considered EXCEPT !.mode = "awaiting_rect_ack", !.target = f,
                                     !.targetContent = analyzed.content, !.pending = f,
                                     !.rectDigest = d]
      /\ wire' = wire \o <<x0, y0>> /\ encoder' = encoder
  BY <1>3 DEF SendRect
<1>5. u \in Contents /\ v \in Contents /\ f \in Nat  BY <1>2, <1>3
<1>6. d \in Digests
  <2> DEFINE e == <<f, u, v>>
  <2>1. e \in Entry  BY <1>5 DEF Entry
  <2>2. d = Append(agent.digest, e)  BY DEF RectDigest
  <2> HIDE DEF e, d, u, v, f
  <2> QED  BY <1>2, <2>1, <2>2 DEF Digests
<1>7. PICK x \in Messages :
        /\ x = x0 /\ x.type = "rect" /\ x.epoch = agent.epoch /\ x.frame = f
        /\ x.base = agent.exactFrame /\ x.from = u /\ x.to = v
  <2> HIDE DEF u, v, f
  <2>0. agent.epoch \in Nat /\ agent.exactFrame \in Nat  BY <1>2
  <2>1. /\ x0 \in Messages /\ x0.type = "rect" /\ x0.epoch = agent.epoch /\ x0.frame = f
        /\ x0.base = agent.exactFrame /\ x0.from = u /\ x0.to = v
    BY <1>5, <2>0 DEF Rect, Messages
  <2> HIDE DEF x0
  <2> QED  BY <2>1, Zenon
<1>8. PICK y \in Messages :
        /\ y = y0 /\ y.type = "commit" /\ y.epoch = agent.epoch /\ y.frame = f
        /\ y.base = agent.exactFrame
  <2> HIDE DEF f
  <2>0. agent.epoch \in Nat /\ agent.exactFrame \in Nat  BY <1>2
  <2>1. /\ y0 \in Messages /\ y0.type = "commit" /\ y0.epoch = agent.epoch /\ y0.frame = f
        /\ y0.base = agent.exactFrame
    BY <1>5, <2>0 DEF Commit, Messages
  <2> HIDE DEF y0
  <2> QED  BY <2>1, Zenon
<1>9. /\ agent' \in AgentState /\ agent'.mode = "awaiting_rect_ack" /\ agent'.target = f
      /\ agent'.pending = f /\ agent'.rectDigest = d /\ agent'.epoch = agent.epoch
      /\ agent'.exactFrame = agent.exactFrame /\ agent'.digest = agent.digest
      /\ agent'.base = agent.exactFrame /\ agent'.rectEpoch = agent.epoch
  <2> HIDE DEF d, f
  <2>1. Considered \in AgentState /\ Considered.epoch = agent.epoch
        /\ Considered.exactFrame = agent.exactFrame /\ Considered.digest = agent.digest
        /\ Considered.base = agent.base /\ Considered.rectEpoch = agent.rectEpoch
    BY <1>2 DEF Considered, AgentState
  <2>2. "awaiting_rect_ack" \in Modes  BY DEF Modes
  <2> DEFINE a == Considered
  <2> HIDE DEF a
  <2>3. a \in AgentState /\ a.epoch = agent.epoch /\ a.exactFrame = agent.exactFrame
        /\ a.digest = agent.digest /\ a.base = agent.exactFrame /\ a.rectEpoch = agent.epoch
    BY <1>3, <2>1 DEF a
  <2>4. agent' = [a EXCEPT !.mode = "awaiting_rect_ack", !.target = f,
                           !.targetContent = analyzed.content, !.pending = f, !.rectDigest = d]
    BY <1>4 DEF a
  <2>5. agent' \in AgentState
    BY ZenonT(60), <1>2, <1>5, <1>6, <2>2, <2>3, <2>4 DEF AgentState
  <2> QED  BY <2>3, <2>4, <2>5 DEF AgentState
<1>10. wire' = wire \o <<x>> \o <<y>>
  <2>1. wire' = wire \o <<x, y>>  BY <1>4, <1>7, <1>8
  <2>2. wire \in Seq(Messages)  BY <1>2
  <2>3. wire \o <<x, y>> = wire \o <<x>> \o <<y>>  BY <2>2, PairAppended
  <2> QED  BY <2>1, <2>3
<1>11. Based /\ AtExact /\ AtBase(agent.exactFrame) /\ Unhurried /\ (wire # <<>> => cmds = <<>>)
  BY <1>1 DEF StreamInv, BaseInv
<1> HIDE DEF x0, y0, d, u, v
<1>12. Right(x)' /\ Right(y)'
  <2>1. agent.epoch \in 1..agent'.epoch /\ agent.epoch >= 2  BY <1>2, <1>3, <1>9
  <2>2. \A m : m = x => Right(m)'  BY <1>3, <1>7, <2>1 DEF Right, u, v
  <2>3. \A m : m = y => Right(m)'  BY <1>3, <1>8, <2>1 DEF Right
  <2> QED  BY <2>2, <2>3 DEF Right
<1> HIDE DEF f
<1>13. Follows(x, y)  BY <1>7, <1>8 DEF Follows
<1>14. /\ Clear /\ reader.frame = agent.exactFrame /\ reader.digest = agent.digest
       /\ reader.digest # <<>>
  BY <1>3, <1>11 DEF Based
<1>15. ASSUME wire = <<>> PROVE Fits(x)
  <2>1. \/ reader.rep = "rect" /\ reader.epoch = agent.epoch /\ reader.resetEpoch = 0
        \/ reader.rep = "snapshot" /\ reader.resetEpoch = agent.epoch
    BY <1>11, <1>15 DEF AtExact, Final
  <2> QED  BY <1>7, <1>14, <2>1 DEF Fits
<1>16. ASSUME wire # <<>>
       PROVE  /\ Len(wire) = 1 /\ wire[1].type = "reset" /\ wire[1].epoch = agent.epoch
              /\ reader.rep = "snapshot" /\ cmds = <<>>
  BY <1>11, <1>16 DEF AtExact, Final
<1>17. wire # <<>> => Follows(wire[1], x)
  <2> SUFFICES ASSUME wire # <<>> PROVE Follows(wire[1], x)  OBVIOUS
  <2> DEFINE l == wire[1]
  <2>1. l.type = "reset" /\ l.epoch = agent.epoch  BY <1>16
  <2> HIDE DEF l
  <2>2. Follows(l, x)  BY <1>7, <2>1 DEF Follows
  <2> QED  BY <2>2 DEF l
<1>18. AtBase(x.base)  BY <1>7, <1>11
<1>19. /\ WireInv' /\ RectAhead'
       /\ wire' \in Seq(Messages) /\ wire' # <<>> /\ Len(wire') = Len(wire) + 2
       /\ wire'[Len(wire) + 1] = x /\ wire'[Len(wire) + 2] = y
       /\ \A i \in 1..Len(wire) : wire'[i] = wire[i]
  <2>1. agent'.epoch >= agent.epoch  BY <1>2, <1>9
  <2>2. wire # <<>> => /\ Len(wire) = 1 /\ Follows(wire[1], x)
                       /\ RawRect /\ x.base = reader.frame /\ reader.digest # <<>>
                       /\ reader.rep = "snapshot" /\ cmds = <<>>
    BY <1>7, <1>14, <1>16, <1>17
  <2> QED  BY <1>7, <1>8, <1>9, <1>10, <1>11, <1>12, <1>13, <1>15, <1>18, <2>1, <2>2, SendsRect
<1>20. Begun'
  <2>1. agent.epoch # 1  BY NotFirstEpoch
  <2> QED  BY <1>1, <1>9, <2>1 DEF Begun
<1>21. Plan'
  <2>1. /\ agent.exactFrame \in 1..Len(shot) /\ f \in 1..Len(shot) /\ f > agent.exactFrame
        /\ agent.digest # <<>> /\ d = RectDigest(agent.digest, f, shot[agent.exactFrame], shot[f])
    BY <1>3 DEF f, d, u, v
  <2> QED  BY <1>9, <2>1 DEF Plan
<1>22. StreamInv'
  <2>1. Based'  BY <1>9, <1>14 DEF Based, Clear
  <2>3. Transaction'
    <3>1. CASE wire = <<>>
      <4>1. Len(wire) = 0  BY <3>1
      <4>2. Len(wire') = 2 /\ wire'[1] = x /\ wire'[2] = y  BY <1>19, <4>1
      <4>3. OnWire("rect", 1)' /\ OnWire("commit", 2)'
        BY <1>7, <1>8, <1>9, <4>2 DEF OnWire, OurRect
      <4> QED  BY <2>1, <4>2, <4>3 DEF Transaction
    <3>2. CASE wire # <<>>
      <4>1. Len(wire) = 1 /\ wire[1].type = "reset"  BY <1>16, <3>2
      <4>2. Len(wire') = 3 /\ wire'[2] = x /\ wire'[3] = y /\ wire'[1] = wire[1]
        BY <1>19, <4>1
      <4>3. OnWire("rect", 2)' /\ OnWire("commit", 3)'
        BY <1>7, <1>8, <1>9, <4>2 DEF OnWire, OurRect
      <4> QED  BY <2>1, <4>1, <4>2, <4>3 DEF Transaction
    <3> QED  BY <3>1, <3>2
  <2> QED  BY <1>9, <2>3 DEF StreamInv
<1>23. EncoderInv'
  BY SMTT(60), <1>2, <1>4, <1>9, EncoderStays
<1>24. BaseInv'  BY <1>9, <1>19 DEF BaseInv
<1>25. OwnInv'  BY <1>9 DEF OwnInv, OwnWire, OwnCmds
<1>26. AckInv'
  <2>1. \A a : AckRight(a) => AckRight(a)'
    BY <1>9 DEF AckRight
  <2> QED  BY <1>1, <2>1, AcksUnchanged
<1>27. agent'.epoch >= agent.epoch  BY <1>2, <1>9
<1> QED
  BY <1>2, <1>4, <1>9, <1>19, <1>20, <1>21, <1>22, <1>23, <1>24, <1>25, <1>26, <1>27, LoopStep

\* The agent only notes the content it has considered.
LEMMA ConsideredInv ==
  ASSUME SafetyInv, agent' = Considered,
         UNCHANGED <<shot, analyzed, encoder, inbox, wire, reader, cmds, slot, compositor, ctl, budget, fault>>
  PROVE  SafetyInv'
<1>1. Shapes /\ EncoderInv /\ AckInv  BY DEF SafetyInv
<1>2. /\ agent \in AgentState /\ analyzed.content \in Nat
      /\ encoder \in EncoderState
      /\ inbox \in [recovery: BOOLEAN, ack: Acks] /\ budget \in [repeats: Nat, timeouts: Nat, faults: Nat]
  BY LoopTypes
<1>3. AgentKept
  <2>1. agent' = [agent EXCEPT !.considered = analyzed.content]  BY DEF Considered
  <2> QED  BY ZenonT(60), <1>2, <2>1 DEF AgentKept, AgentState
<1>4. AckInv'
  <2>1. \A a : AckRight(a) => AckRight(a)'  BY <1>3, KeptAcks
  <2> QED  BY <1>1, <2>1, AcksUnchanged
<1>5. EncoderInv'
  BY <1>1, <1>3 DEF EncoderInv, Current, Streaming, Final, Clear, AgentKept
<1>6. ctl' \in Seq(Acks \cup Requests)  BY <1>1 DEF Shapes
<1> QED  BY <1>2, <1>3, <1>4, <1>5, <1>6, Kept

LEMMA RectsInv == ASSUME SafetyInv, AgentRects PROVE SafetyInv'
<1>1. /\ agent.mode = "exact"
      /\ UNCHANGED <<shot, analyzed, inbox, reader, cmds, slot, compositor, ctl, budget, fault>>
  BY DEF AgentRects, sourceVars, viewerVars, limitVars
<1>2. /\ inbox \in [recovery: BOOLEAN, ack: Acks] /\ budget \in [repeats: Nat, timeouts: Nat, faults: Nat]
      /\ agent.epoch # 1
  BY <1>1, LoopTypes, NotFirstEpoch
<1>3. \/ Resume
      \/ RawRect /\ RectReady(TRUE) /\ SendRect
      \/ agent' = Considered /\ UNCHANGED <<wire, encoder>>
  <2>1. CASE RawRect
    <3>1. PICK d \in Decisions(TRUE) : CASE d = "selected" -> SendRect
                                         [] d = "exceeded" -> Resume
                                         [] OTHER -> agent' = Considered /\ UNCHANGED <<wire, encoder>>
      BY <2>1 DEF AgentRects
    <3>2. d = "selected" => RectReady(TRUE)  BY <3>1 DEF Decisions
    <3> QED  BY <2>1, <3>1, <3>2
  <2> QED  BY <2>1 DEF AgentRects
<1>4. CASE Resume  BY <1>1, <1>2, <1>4, ResumeInv
<1>5. CASE RawRect /\ RectReady(TRUE) /\ SendRect  BY <1>1, <1>5, SendRectInv
<1>6. CASE agent' = Considered /\ UNCHANGED <<wire, encoder>>  BY <1>1, <1>6, ConsideredInv
<1> QED  BY <1>3, <1>4, <1>5, <1>6

LEMMA SupersedesInv == ASSUME SafetyInv, AgentSupersedes PROVE SafetyInv'
<1>1. /\ agent.mode = "awaiting_rect_ack"
      /\ UNCHANGED <<shot, analyzed, inbox, reader, cmds, slot, compositor, ctl, budget, fault>>
  BY DEF AgentSupersedes, sourceVars, viewerVars, limitVars
<1>2. /\ inbox \in [recovery: BOOLEAN, ack: Acks] /\ budget \in [repeats: Nat, timeouts: Nat, faults: Nat]
      /\ agent.epoch # 1
  BY <1>1, LoopTypes, NotFirstEpoch
<1>3. Resume \/ (agent' = Considered /\ UNCHANGED <<wire, encoder>>)  BY DEF AgentSupersedes
<1>4. CASE Resume  BY <1>1, <1>2, <1>4, ResumeInv
<1>5. CASE agent' = Considered /\ UNCHANGED <<wire, encoder>>  BY <1>1, <1>5, ConsideredInv
<1> QED  BY <1>3, <1>4, <1>5

-----------------------------------------------------------------------------
(* A video frame goes on the wire. *)

LEMMA VideoType ==
  ASSUME NEW e \in Nat, NEW f \in Nat, NEW k \in BOOLEAN
  PROVE  \E x \in Messages : /\ x = Video(e, f, k) /\ x.type = "video"
                             /\ x.epoch = e /\ x.frame = f /\ x.key = k
<1> DEFINE x0 == Video(e, f, k)
<1>1. x0 \in Messages /\ x0.type = "video" /\ x0.epoch = e /\ x0.frame = f /\ x0.key = k
  BY DEF Video, Messages
<1> HIDE DEF x0
<1>2. \E x \in Messages : /\ x = x0 /\ x.type = "video" /\ x.epoch = e /\ x.frame = f /\ x.key = k
  BY <1>1, Zenon
<1> QED  BY <1>2 DEF x0

\* An access unit goes out behind a reset only as an IDR.
LEMMA DeliversVideoInv == ASSUME SafetyInv, AgentDeliversVideo PROVE SafetyInv'
<1>1. /\ Begun /\ Plan /\ StreamInv /\ EncoderInv /\ OwnInv /\ AckInv /\ BaseInv
  BY DEF SafetyInv
<1> DEFINE q == encoder.queue
           p == encoder'.queue
           h == q[1]
<1>2. /\ q # <<>> /\ Head(q).epoch = agent.epoch
      /\ wire' = Append(wire, Video(Head(q).epoch, Head(q).frame, Head(q).key))
      /\ encoder' = [encoder EXCEPT !.queue = Tail(@)]
      /\ UNCHANGED <<shot, analyzed, agent, inbox, reader, cmds, slot, compositor, ctl, budget, fault>>
  BY DEF AgentDeliversVideo, sourceVars, agentVars, viewerVars, limitVars
<1>3. /\ Head(q) = h /\ h \in Encoded /\ 1 \in 1..Len(q) /\ Len(q) \in Nat /\ Len(p) = Len(q) - 1
      /\ encoder' \in EncoderState
      /\ \A i \in 1..Len(p) : p[i] = q[i + 1] /\ i + 1 \in 1..Len(q) /\ (Current(i)' <=> Current(i + 1))
      /\ encoder'.consumed = encoder.consumed /\ encoder'.repeats = encoder.repeats
      /\ encoder'.idr = encoder.idr /\ encoder'.tried = encoder.tried
  BY <1>2, QueueTail
<1>4. /\ agent \in AgentState /\ agent.epoch \in Nat /\ agent.epoch >= 1
      /\ wire \in Seq(Messages) /\ Len(wire) \in Nat
      /\ inbox \in [recovery: BOOLEAN, ack: Acks] /\ budget \in [repeats: Nat, timeouts: Nat, faults: Nat]
  BY LoopTypes
<1>5. Current(1) /\ h.epoch = agent.epoch  BY <1>2, <1>3 DEF Current
<1>6. agent.mode = "video" /\ h.frame \in 1..Len(shot)  BY <1>1, <1>3, <1>5 DEF EncoderInv
<1>7. ~Streaming => h.key
  <2>1. \A j \in 1..(1 - 1) : ~Current(j)  OBVIOUS
  <2> QED  BY <1>1, <1>3, <1>5, <1>6, <2>1 DEF EncoderInv
<1>8. h.epoch \in Nat /\ h.frame \in Nat /\ h.key \in BOOLEAN
  <2> HIDE DEF h
  <2> QED  BY <1>3 DEF Encoded
<1>9. PICK x \in Messages : /\ x = Video(h.epoch, h.frame, h.key) /\ x.type = "video"
                            /\ x.epoch = h.epoch /\ x.frame = h.frame /\ x.key = h.key
  BY <1>8, VideoType
<1>10. wire' = Append(wire, x)  BY <1>2, <1>3, <1>9
<1>11. Opened \/ Streaming \/ Fresh  BY <1>1, <1>6 DEF StreamInv
<1>12. ASSUME wire = <<>> PROVE Fits(x)
  <2>1. CASE Streaming
    <3>1. Clear /\ reader.rep = "video" /\ reader.epoch = agent.epoch /\ reader.resetEpoch = 0
      BY <1>12, <2>1 DEF Streaming
    <3> QED  BY <1>5, <1>9, <3>1 DEF Fits
  <2>2. CASE ~Streaming
    <3>1. h.key /\ Clear
          /\ (reader.resetEpoch = agent.epoch \/ (reader.rep = "none" /\ reader.resetEpoch = 0))
      BY <1>7, <1>11, <1>12, <2>2 DEF Opened, Fresh
    <3> QED  BY <1>5, <1>9, <3>1 DEF Fits
  <2> QED  BY <2>1, <2>2
<1>13. ASSUME wire # <<>> PROVE Follows(wire[Len(wire)], x)
  <2> DEFINE l == wire[Len(wire)]
  <2>1. l.epoch = agent.epoch /\ (l.type = "video" \/ (l.type = "reset" /\ h.key))
    <3>1. CASE Streaming
      <4>1. Final("video")  BY <1>13, <3>1 DEF Streaming
      <4> QED  BY <4>1 DEF Final
    <3>2. CASE ~Streaming
      <4>1. Final("reset") /\ h.key  BY <1>7, <1>11, <1>13, <3>2 DEF Opened, Fresh
      <4> QED  BY <4>1 DEF Final
    <3> QED  BY <3>1, <3>2
  <2> HIDE DEF l
  <2>2. Follows(l, x)  BY <1>5, <1>9, <2>1 DEF Follows
  <2> QED  BY <2>2 DEF l
<1> HIDE DEF h
<1>14. Right(x)'
  <2>1. agent.epoch \in 1..agent.epoch  BY <1>4
  <2>2. \A m : m = x => Right(m)'  BY <1>2, <1>5, <1>6, <1>9, <2>1 DEF Right
  <2> QED  BY <2>2 DEF Right
<1>15. /\ WireInv' /\ RectAhead' /\ wire' \in Seq(Messages) /\ wire' # <<>>
       /\ Len(wire') = Len(wire) + 1 /\ wire'[Len(wire')] = x
       /\ \A i \in 1..Len(wire) : wire'[i] = wire[i]
  <2>1. agent' \in AgentState /\ agent'.epoch >= agent.epoch  BY <1>2, <1>4
  <2>2. x.type # "rect"  BY <1>9
  <2> QED  BY <1>2, <1>10, <1>12, <1>13, <1>14, <2>1, <2>2, Sends
<1>16. Streaming'
  <2>1. Final("video")'  BY <1>2, <1>5, <1>9, <1>15 DEF Final
  <2> QED  BY <1>15, <2>1 DEF Streaming
<1>17. Begun' /\ Plan' /\ BaseInv'
  BY <1>1, <1>2, <1>6 DEF Begun, Plan, BaseInv
<1>18. StreamInv'  BY <1>2, <1>6, <1>16 DEF StreamInv
<1>19. EncoderInv'
  <2>1. \A i \in 1..Len(p) : /\ p[i].frame \in 1..Len(shot) /\ p[i].epoch \in 1..agent.epoch
    BY <1>1, <1>3 DEF EncoderInv
  <2> QED  BY <1>1, <1>2, <1>3, <1>6, <1>16, <2>1 DEF EncoderInv
<1>20. OwnInv'
  <2>1. OwnWire'
    <3> SUFFICES ASSUME NEW i \in 1..Len(wire'), wire'[i].type \in {"commit", "rect"},
                        wire'[i].epoch = agent.epoch
                 PROVE  FALSE
      BY <1>2 DEF OwnWire
    <3>1. i # Len(wire')  BY <1>9, <1>15
    <3>2. i \in 1..Len(wire) /\ wire'[i] = wire[i]  BY <1>4, <1>15, <3>1
    <3> QED  BY <1>1, <1>6, <3>2 DEF OwnInv, OwnWire
  <2>2. OwnCmds'
    <3>1. \A i \in 1..Len(cmds) : ~(cmds[i].kind \in {"commit", "rect"} /\ cmds[i].epoch = agent.epoch)
      BY <1>1, <1>6 DEF OwnInv, OwnCmds
    <3> QED  BY <1>2, <3>1 DEF OwnCmds
  <2> QED  BY <2>1, <2>2 DEF OwnInv
<1>21. AckInv'
  <2>1. \A a : AckRight(a) => AckRight(a)'  BY <1>2, <1>6 DEF AckRight
  <2> QED  BY <1>1, <1>2, <2>1, AcksUnchanged
<1>22. agent' \in AgentState /\ agent'.epoch >= agent.epoch  BY <1>2, <1>4
<1> QED
  BY <1>2, <1>3, <1>4, <1>15, <1>17, <1>18, <1>19, <1>20, <1>21, <1>22, LoopStep

-----------------------------------------------------------------------------
(* The invariant holds throughout. *)

\* Every action keeps the invariant.
LEMMA NextInv == ASSUME SafetyInv, Next PROVE SafetyInv'
<1>1. CASE Source
  BY <1>1, CaptureInv, AnalysisInv, CooldownInv DEF Source
<1>2. CASE Encoder
  BY <1>2, EncoderSubmitsInv, EncoderFindsNothingInv, EncoderRepeatsInv, EncoderDropsStaleInv,
     DeliversVideoInv DEF Encoder
<1>3. CASE Agent
  BY <1>3, RecoversInv, AcksInv, TimesOutInv, SendsInv, QuiescesInv, UnquietInv, SnapshotsInv,
     RectsInv, SupersedesInv, ReceivesInv DEF Agent
<1>4. CASE Reader
  BY <1>4, ResetsInv, TakesRectInv, TakesChunkInv, ReaderCommitsInv, DecodesInv DEF Reader
<1>5. CASE Compositor
  BY <1>5, BeginsInv, UploadsInv, CommitsInv, PatchesInv, CancelsInv, ExpiresInv, DrawsInv DEF Compositor
<1> QED  BY <1>1, <1>2, <1>3, <1>4, <1>5 DEF Next

LEMMA StutterInv == ASSUME SafetyInv, UNCHANGED vars PROVE SafetyInv'
<1>1. /\ UNCHANGED <<shot, analyzed, encoder, agent, inbox, wire, reader, cmds, slot, compositor,
                     ctl, budget, fault>>
      /\ Shapes /\ EncoderInv
  BY DEF SafetyInv, vars
<1>2. EncoderInv'  BY <1>1 DEF EncoderInv, Current, Streaming, Final, Clear
<1> QED  BY <1>1, <1>2, EncoderStep DEF Shapes

LEMMA StepInv == SafetyInv /\ [Next]_vars => SafetyInv'
BY NextInv, StutterInv

LEMMA Safety == Spec => []SafetyInv
BY InitInv, StepInv, PTL DEF Spec

-----------------------------------------------------------------------------
(* What it implies. *)

\* What the invariant says of the stream, of the base, and of the digests.
LEMMA StreamFacts == SafetyInv => StreamLegal
<1> SUFFICES ASSUME SafetyInv, wire # <<>>
             PROVE  LET m == Head(wire) IN
                      CASE m.type = "reset"  -> ResetAdvances(m)
                        [] m.type = "rect"   -> RectAllowed(m)
                        [] m.type = "chunk"  -> ChunkFits(m)
                        [] m.type = "commit" -> RectComplete(m) \/ SnapshotComplete(m)
                        [] m.type = "video"  -> VideoLegal(m)
  BY DEF SafetyInv, StreamLegal
<1>1. /\ WireInv /\ ReaderInv /\ wire \in Seq(Messages) /\ reader \in ReaderState
  BY DEF SafetyInv, Shapes
<1> DEFINE m == wire[1]
<1>2. Head(wire) = m /\ m \in Messages /\ Len(wire) \in Nat /\ Len(wire) >= 1  BY <1>1, TailOf
<1>3. Right(m) /\ Fits(m)
  <2>1. 1 \in 1..Len(wire)  BY <1>2
  <2> QED  BY <1>1, <2>1 DEF WireInv
<1>4. m.type \in {"reset", "video", "chunk", "rect", "commit"} /\ m.epoch \in Nat
  BY <1>2, MessageFields
<1>5. m.type = "rect" => m.base \in Nat /\ m.frame \in Nat  BY <1>2, MessageFields
<1> HIDE DEF m
<1>6. m.type = "reset" => ResetAdvances(m)  BY <1>3 DEF Fits, ResetAdvances
<1>7. m.type = "rect" => RectAllowed(m)
  <2> SUFFICES ASSUME m.type = "rect" PROVE RectAllowed(m)  OBVIOUS
  <2>1. m.frame > m.base  BY <1>3, <1>5 DEF Right
  <2> QED  BY <1>3, <2>1 DEF Fits, RectAllowed, Clear
<1>8. m.type = "chunk" => ChunkFits(m)  BY <1>1, <1>3 DEF Fits, ChunkFits, ReaderInv
<1>9. m.type = "commit" => RectComplete(m) \/ SnapshotComplete(m)
  BY <1>1, <1>3 DEF Fits, SnapshotComplete, ReaderInv
<1>10. m.type = "video" => VideoLegal(m)  BY <1>3 DEF Fits, VideoLegal, OpensVideo
<1> QED  BY <1>2, <1>4, <1>6, <1>7, <1>8, <1>9, <1>10

\* The rectangle under way, wherever it is, is one the compositor's picture
\* is the base of; once handled, the picture is the base or the target.
LEMMA UnderWay ==
  ASSUME SafetyInv, agent.mode = "awaiting_rect_ack"
  PROVE  AtBase(agent.exactFrame) \/ (wire = <<>> /\ cmds = <<>> /\ RectHandled)
<1>1. StreamInv /\ WireInv /\ RectAhead /\ BaseInv  BY DEF SafetyInv
<1>2. Transaction  BY <1>1 DEF StreamInv
<1>3. CASE Len(wire) = 3 /\ OnWire("rect", 2)
  <2>1. wire[2].type = "rect" /\ wire[2].base = agent.exactFrame /\ 2 \in 1..Len(wire)
    BY <1>3 DEF OnWire, OurRect
  <2> QED  BY <1>1, <2>1 DEF RectAhead
<1>4. CASE Len(wire) = 2 /\ OnWire("rect", 1)
  <2>1. wire[1].type = "rect" /\ wire[1].base = agent.exactFrame /\ 1 \in 1..Len(wire)
    BY <1>4 DEF OnWire, OurRect
  <2> QED  BY <1>1, <2>1 DEF RectAhead
<1>5. CASE Len(wire) = 1 /\ OnWire("commit", 1) /\ reader.rect # NoRect
  <2>0. wire # <<>>  BY <1>5
  <2>1. wire[1].type = "commit" /\ wire[1].base = agent.exactFrame
    BY <1>5 DEF OnWire, OurRect
  <2>2. reader.rect.base = agent.exactFrame
    BY <1>1, <1>5, <2>0, <2>1 DEF WireInv, Fits, RectComplete
  <2> QED  BY <1>1, <1>5, <2>2 DEF RectAhead
<1>6. CASE wire = <<>>
  <2>1. CASE cmds = <<>> /\ RectHandled  BY <1>6, <2>1
  <2>2. ASSUME NEW i \in 1..Len(cmds), TheRect(cmds[i]) PROVE AtBase(agent.exactFrame)
    <3>1. cmds[i].kind = "rect" /\ cmds[i].base = agent.exactFrame  BY <2>2 DEF TheRect, OurRect
    <3> QED  BY <1>1, <3>1 DEF RectAhead
  <2>3. CASE Len(cmds) = 1 /\ TheRect(cmds[1])  BY <2>2, <2>3
  <2>4. CASE Len(cmds) = 2 /\ TheRect(cmds[2])  BY <2>2, <2>4
  <2> QED  BY <1>1, <1>6, <2>1, <2>3, <2>4 DEF BaseInv
<1> QED  BY <1>2, <1>3, <1>4, <1>5, <1>6 DEF Transaction

LEMMA BaseFacts == SafetyInv => AgreedBase
<1> SUFFICES ASSUME SafetyInv, agent.mode \in {"exact", "awaiting_rect_ack"}
             PROVE  /\ agent.base = agent.exactFrame
                    /\ compositor.quality = "exact"
                    /\ compositor.frame \in {agent.exactFrame, agent.target}
                    /\ ~compositor.picture.lossy
                    /\ compositor.picture.content \in
                         {shot[f] : f \in {agent.exactFrame, agent.target} \ {0}}
  BY DEF AgreedBase
<1>1. Plan /\ BaseInv  BY DEF SafetyInv
<1>2. /\ agent.base = agent.exactFrame /\ agent.exactFrame # 0
      /\ agent.mode = "awaiting_rect_ack" => agent.target # 0
  BY <1>1 DEF Plan
<1>3. AtBase(agent.exactFrame) \/ (agent.mode = "awaiting_rect_ack" /\ RectHandled)
  BY <1>1, UnderWay DEF BaseInv
<1>4. CASE AtBase(agent.exactFrame)  BY <1>2, <1>4 DEF AtBase
<1>5. CASE agent.mode = "awaiting_rect_ack" /\ RectHandled  BY <1>2, <1>5 DEF RectHandled
<1> QED  BY <1>3, <1>4, <1>5

LEMMA DigestFacts == SafetyInv => DigestsAgree
<1> SUFFICES ASSUME SafetyInv, SnapshotAcked \/ RectAcked PROVE AckMatches
  BY DEF DigestsAgree
<1>1. Plan /\ AckRight(inbox.ack)  BY DEF SafetyInv, AckInv
<1>2. agent.exactFrame \in Nat /\ agent.target \in Nat  BY LoopTypes
<1>3. CASE SnapshotAcked
  <2>1. agent.mode = "awaiting_ack" /\ inbox.ack.epoch = agent.epoch
    BY <1>1, <1>3 DEF SnapshotAcked, AckIsFor, Plan
  <2> QED  BY <1>1, <1>3, <2>1 DEF AckRight, AckMatches
<1>4. CASE RectAcked
  <2>1. /\ agent.mode = "awaiting_rect_ack" /\ inbox.ack.epoch = agent.epoch
        /\ inbox.ack.frame = agent.target /\ agent.target > agent.exactFrame
    BY <1>1, <1>4 DEF RectAcked, AckIsFor, Plan
  <2>2. ~(inbox.ack.frame <= agent.exactFrame)  BY <1>2, <2>1
  <2> QED  BY <1>1, <1>4, <2>1, <2>2 DEF AckRight, AckMatches
<1> QED  BY <1>3, <1>4

\* No upload mixes two snapshots and no rectangle patches a picture it was
\* not computed against: the compositor never shows a garbled surface.
THEOREM PictureIsWhole == Spec => []NeverGarbled
<1>1. SafetyInv => NeverGarbled  BY DEF SafetyInv, ShownInv, NeverGarbled
<1> QED  BY <1>1, Safety, PTL

\* The agent's exact base is what the viewer shows, or what it showed before
\* the one transaction under way, whatever timed out or failed in between.
THEOREM BaseIsAgreed == Spec => []AgreedBase
BY BaseFacts, Safety, PTL

\* Nothing the agent sends is refused by the reader, and no thread ends the
\* session: the two-sided protocol of resets, chunks, rectangles and commits
\* stays in step through every abandoned representation.
THEOREM StreamIsLegal == Spec => []StreamLegal
BY StreamFacts, Safety, PTL

\* An acknowledgement the agent waits for carries the digest it expects: the
\* agent and the reader hashed the same history.
THEOREM DigestsAreAgreed == Spec => []DigestsAgree
BY DigestFacts, Safety, PTL

-----------------------------------------------------------------------------
(* The session implements ExactFramebuffer.  Three facts describe a step:   *)
(* the frame and the quality the compositor shows, and the agent's base.    *)

Unseen == UNCHANGED <<compositor.frame, compositor.quality, agent.exactFrame>>

\* The compositor finished a snapshot or a rectangle, or refused it.
LEMMA CommitShows ==
  ASSUME SafetyInv, CompositorCommits
  PROVE  Unseen \/ Abstract!CommitExact
<1>0. /\ cmds # <<>> /\ Head(cmds).kind = "commit" /\ cmds' = Tail(cmds)
      /\ UNCHANGED <<shot, analyzed, encoder, agent, inbox, wire, reader, slot, fault>>
  BY DEF CompositorCommits, Runs, sourceVars, agentVars
<1>1. Shapes /\ Plan /\ ShownInv  BY DEF SafetyInv
<1> DEFINE m == Head(cmds)
           idle == [compositor EXCEPT !.upload = Idle]
           swapped == Shows(idle, Whole(compositor.upload.parts), FALSE)
<1>2. compositor \in CompositorState /\ agent.exactFrame \in Nat  BY <1>1, LoopTypes DEF Shapes
<1>3. /\ swapped.frame = compositor.frame /\ swapped.quality = compositor.quality
      /\ idle.frame = compositor.frame /\ idle.quality = compositor.quality
      /\ Exact(swapped, m.frame).frame = m.frame /\ Exact(swapped, m.frame).quality = "exact"
  BY <1>2 DEF Shows, Exact, CompositorState
<1>4. \/ compositor' \in {idle, swapped}
      \/ SnapshotAccepted(m) /\ compositor' = Exact(swapped, m.frame)
  BY DEF CompositorCommits
<1>5. m.frame \in 1..Len(shot) /\ Len(shot) \in Nat /\ cmds[1].kind = "commit" /\ m = cmds[1]
  <2>1. /\ Head(cmds) = cmds[1] /\ CmdRight(cmds[1])  BY <1>0, Popped
  <2>2. Len(shot) \in Nat  BY LoopTypes
  <2> QED  BY <1>0, <2>1, <2>2 DEF CmdRight
<1>6. agent.exactFrame = 0
  <2>1. agent.mode \notin {"exact", "awaiting_rect_ack"}
    <3>1. cmds[1].kind \notin {"cancel", "rect"}  BY <1>5
    <3> QED  BY <1>0, <3>1, HeadNotCancel
  <2>2. agent.mode \in {"video", "quiescing", "sending", "awaiting_ack"}
    BY <2>1, LoopTypes DEF AgentState, Modes
  <2> QED  BY <1>1, <2>2 DEF Plan
<1> HIDE DEF m, idle, swapped
<1>7. CASE compositor' \in {idle, swapped}
  BY <1>0, <1>3, <1>7 DEF Unseen
<1>8. CASE SnapshotAccepted(m) /\ compositor' = Exact(swapped, m.frame)
  <2>1. compositor'.frame = m.frame /\ compositor'.quality = "exact"  BY <1>3, <1>8
  <2>2. m.frame \in Nat \ {0}  BY <1>5
  <2>3. m.frame >= compositor.frame  BY <1>8 DEF SnapshotAccepted
  <2> QED  BY <1>0, <1>6, <2>1, <2>2, <2>3 DEF Abstract!CommitExact, Abstract!Advances
<1> QED  BY <1>4, <1>7, <1>8

\* A rectangle is committed, or refused.
LEMMA PatchShows ==
  ASSUME SafetyInv, CompositorPatches
  PROVE  Unseen \/ Abstract!CommitExact
<1>0. /\ cmds # <<>> /\ Head(cmds).kind = "rect" /\ cmds' = Tail(cmds)
      /\ UNCHANGED <<shot, analyzed, encoder, agent, inbox, wire, reader, slot, fault>>
  BY DEF CompositorPatches, Runs, sourceVars, agentVars
<1>1. Shapes /\ Plan /\ RectAhead /\ BaseInv /\ StreamInv  BY DEF SafetyInv
<1> DEFINE m == Head(cmds)
           entered == [Entered("rect", m.epoch) EXCEPT !.upload = IF RectAccepted(m) THEN @ ELSE Idle]
           swapped == Shows(entered, Patch(compositor.picture.content, m.from, m.to), compositor.picture.lossy)
           refused == [swapped EXCEPT !.upload = Idle]
<1>2. compositor \in CompositorState /\ agent.exactFrame \in Nat  BY <1>1, LoopTypes DEF Shapes
<1>3. /\ m = cmds[1] /\ m.frame \in 1..Len(shot) /\ m.base < m.frame /\ Len(shot) \in Nat
      /\ m.base \in Nat /\ 1 \in 1..Len(cmds)
  <2>1. /\ Head(cmds) = cmds[1] /\ CmdRight(cmds[1]) /\ Len(cmds) \in Nat
        /\ cmds[1] \in Commands
    BY <1>0, Popped
  <2>2. Len(shot) \in Nat  BY LoopTypes
  <2>3. 1 \in 1..Len(cmds)
    <3>1. cmds \in Seq(Commands)  BY <1>1 DEF Shapes
    <3> QED  BY <1>0, <3>1, TailOf
  <2> QED  BY <1>0, <2>1, <2>2, <2>3 DEF CmdRight
<1>4. /\ entered.frame = compositor.frame /\ entered.quality = compositor.quality
      /\ entered \in CompositorState
  <2>1. m.epoch \in Nat
    <3>1. m \in Commands  BY <1>0, <1>3, Popped
    <3> QED  BY <3>1, CommandFields
  <2>2. "rect" \in {"recovery", "video", "snapshot", "rect"}  OBVIOUS
  <2>3. /\ Entered("rect", m.epoch) \in CompositorState
        /\ Entered("rect", m.epoch).frame = compositor.frame
        /\ Entered("rect", m.epoch).quality = compositor.quality
    BY <1>2, <2>1, <2>2 DEF Entered, CompositorState
  <2> DEFINE e == Entered("rect", m.epoch)
  <2>4. e \in CompositorState /\ e.frame = compositor.frame /\ e.quality = compositor.quality
    BY <2>3
  <2>5. Idle \in Upload  BY <1>1, CompositorType
  <2> DEFINE u == IF RectAccepted(m) THEN e.upload ELSE Idle
  <2>6. entered = [e EXCEPT !.upload = u]  OBVIOUS
  <2> HIDE DEF e
  <2>7. u \in Upload  BY <2>4, <2>5 DEF CompositorState
  <2> HIDE DEF u, entered
  <2> QED  BY <2>4, <2>6, <2>7 DEF CompositorState
<1>5. \/ compositor' \in {entered, refused}
      \/ RectAccepted(m) /\ compositor' = Exact(swapped, m.frame)
  BY DEF CompositorPatches
<1> HIDE DEF entered
<1>6. /\ swapped.frame = compositor.frame /\ swapped.quality = compositor.quality
      /\ refused.frame = compositor.frame /\ refused.quality = compositor.quality
      /\ Exact(swapped, m.frame).frame = m.frame /\ Exact(swapped, m.frame).quality = "exact"
  BY <1>4 DEF Shows, Exact, CompositorState
<1> HIDE DEF m, swapped, refused
<1>7. CASE compositor' \in {entered, refused}
  BY <1>0, <1>4, <1>6, <1>7 DEF Unseen
<1>8. CASE RectAccepted(m) /\ compositor' = Exact(swapped, m.frame)
  <2>1. compositor'.frame = m.frame /\ compositor'.quality = "exact"  BY <1>6, <1>8
  <2>2. m.frame \in Nat \ {0}  BY <1>3
  <2>3. compositor.frame = m.base /\ m.frame >= compositor.frame
    BY <1>2, <1>3, <1>8 DEF RectAccepted
  <2>4. agent.exactFrame = 0 \/ agent.exactFrame = compositor.frame
    <3>1. CASE agent.mode \in {"exact", "awaiting_rect_ack"}
      <4>1. AtBase(agent.exactFrame)  BY <1>0, <1>1, <3>1, UnderWay DEF BaseInv
      <4> QED  BY <4>1 DEF AtBase
    <3>2. CASE agent.mode \notin {"exact", "awaiting_rect_ack"}
      <4>1. agent.mode \in {"video", "quiescing", "sending", "awaiting_ack"}
        BY <3>2, LoopTypes DEF AgentState, Modes
      <4> QED  BY <1>1, <4>1 DEF Plan
    <3> QED  BY <3>1, <3>2
  <2> QED  BY <1>0, <2>1, <2>2, <2>3, <2>4 DEF Abstract!CommitExact, Abstract!Advances
<1> QED  BY <1>5, <1>7, <1>8

\* A frame of video is drawn only when the agent has no base.
LEMMA DrawShows ==
  ASSUME SafetyInv, CompositorDraws
  PROVE  Unseen \/ Abstract!CommitLossy
<1>0. slot # NoFrame /\ agent' = agent  BY DEF CompositorDraws, agentVars
<1>1. Shapes /\ Plan /\ SlotInv  BY DEF SafetyInv
<1> DEFINE entered == IF Enters(slot) THEN Entered("video", slot.epoch) ELSE compositor
           swapped == Shows(entered, shot[slot.frame], TRUE)
           drawn == [swapped EXCEPT !.frame = slot.frame, !.quality = "lossy", !.lastVideo = slot.frame]
<1>2. compositor \in CompositorState /\ slot.epoch \in Nat  BY <1>1 DEF Shapes, Encoded
<1>3. /\ entered.frame = compositor.frame /\ entered.quality = compositor.quality
      /\ entered \in CompositorState
  <2>1. /\ Entered("video", slot.epoch) \in CompositorState
        /\ Entered("video", slot.epoch).frame = compositor.frame
        /\ Entered("video", slot.epoch).quality = compositor.quality
    BY <1>2 DEF Entered, CompositorState
  <2> QED  BY <1>2, <2>1
<1>4. \/ compositor' \in {entered, swapped}
      \/ slot.frame >= compositor.frame /\ compositor' = drawn
  BY DEF CompositorDraws
<1> HIDE DEF entered
<1>5. /\ swapped.frame = compositor.frame /\ swapped.quality = compositor.quality
      /\ drawn.frame = slot.frame /\ drawn.quality = "lossy"
  BY <1>3 DEF Shows, CompositorState
<1> HIDE DEF swapped, drawn
<1>6. CASE compositor' \in {entered, swapped}
  BY <1>0, <1>3, <1>5, <1>6 DEF Unseen
<1>7. CASE slot.frame >= compositor.frame /\ compositor' = drawn
  <2>1. slot.frame \in 1..Len(shot) /\ Len(shot) \in Nat /\ reader.rep = "video"
    BY <1>0, <1>1, LoopTypes DEF SlotInv
  <2>2. slot.frame \in Nat \ {0}  BY <2>1
  <2>3. agent.mode \notin {"exact", "awaiting_rect_ack"}  BY <2>1, SlotExcludes
  <2>4. agent.mode \in {"video", "quiescing", "sending", "awaiting_ack"}
    BY <2>3, LoopTypes DEF AgentState, Modes
  <2>5. agent.exactFrame = 0  BY <1>1, <2>4 DEF Plan
  <2> QED  BY <1>0, <1>5, <1>7, <2>2, <2>5 DEF Abstract!CommitLossy, Abstract!Advances
<1> QED  BY <1>4, <1>6, <1>7

\* The compositor's other steps and the reader's leave both alone.
LEMMA ViewerShows ==
  ASSUME SafetyInv,
         \/ CompositorBegins \/ CompositorUploads \/ CompositorCancels \/ CompositorExpires \/ Reader
  PROVE  Unseen
<1>1. compositor \in CompositorState  BY DEF SafetyInv, Shapes
<1>2. CASE CompositorBegins
  <2> DEFINE e == Entered("snapshot", Head(cmds).epoch)
             u == IF BeginAccepted(Head(cmds)) THEN [active |-> TRUE, parts |-> <<>>] ELSE Idle
  <2>1. compositor' = [e EXCEPT !.upload = u] /\ agent' = agent
    BY <1>2 DEF CompositorBegins, agentVars
  <2>2. /\ e.frame = compositor.frame /\ e.quality = compositor.quality
        /\ DOMAIN e = DOMAIN compositor
    BY <1>1 DEF Entered, CompositorState
  <2> HIDE DEF e, u
  <2>3. [e EXCEPT !.upload = u].frame = e.frame /\ [e EXCEPT !.upload = u].quality = e.quality
    BY <1>1, <2>2 DEF CompositorState
  <2> QED  BY <2>1, <2>2, <2>3 DEF Unseen
<1>3. CASE CompositorUploads \/ CompositorCancels \/ CompositorExpires
  <2>1. (\E u : compositor' = [compositor EXCEPT !.upload = u]) /\ agent' = agent
    BY SMTT(60), <1>3 DEF CompositorUploads, CompositorCancels, CompositorExpires, agentVars
  <2> QED  BY <1>1, <2>1 DEF Unseen, CompositorState
<1>4. CASE Reader
  BY <1>4 DEF Reader, ReaderResets, ReaderTakesRect, ReaderTakesChunk, ReaderCommits, ReaderDecodes,
       agentVars, Unseen
<1> QED  BY <1>2, <1>3, <1>4

\* Neither the source nor the encoder nor the reader is seen.
LEMMA SourceShows ==
  ASSUME SafetyInv, Source \/ Encoder \/ ReceivesControl
  PROVE  Unseen
<1>1. CASE CooldownEnds
  <2>1. compositor' = compositor /\ agent' = [agent EXCEPT !.cooling = FALSE]
    BY <1>1 DEF CooldownEnds, viewerVars
  <2> QED  BY <2>1, LoopTypes DEF Unseen, AgentState
<1>2. CASE Source /\ ~CooldownEnds
  BY <1>2 DEF Source, Capture, Analyze, BecomesQuiet, agentVars, viewerVars, Unseen
<1>3. CASE Encoder \/ ReceivesControl
  BY <1>3 DEF Encoder, EncoderSubmits, EncoderFindsNothing, EncoderRepeats, EncoderDropsStale,
       AgentDeliversVideo, ReceivesControl, agentVars, viewerVars, Unseen
<1> QED  BY <1>1, <1>2, <1>3

\* The agent withdraws its base with every forced video.
LEMMA ResumeShows ==
  ASSUME SafetyInv, Resume, compositor' = compositor
  PROVE  Abstract!Withdraw
<1>1. agent'.exactFrame = 0
  <2>1. agent' = Resumed(agent) /\ agent \in AgentState  BY LoopTypes DEF Resume
  <2> QED  BY <2>1 DEF Resumed, AgentState
<1> QED  BY <1>1 DEF Abstract!Withdraw

\* The agent agrees on what the compositor shows.
LEMMA AgreesShows ==
  ASSUME SafetyInv, AgentAcks
  PROVE  Unseen \/ Abstract!Agree \/ Abstract!Withdraw
<1>1. compositor' = compositor  BY DEF AgentAcks, viewerVars
<1>2. Plan /\ BaseInv /\ AckRight(inbox.ack)  BY DEF SafetyInv, AckInv
<1>3. agent \in AgentState /\ agent.exactFrame \in Nat /\ agent.target \in Nat  BY LoopTypes
<1>4. CASE SnapshotAcked /\ AgreeOnSnapshot
  <2>1. agent.mode = "awaiting_ack" /\ inbox.ack.epoch = agent.epoch
    BY <1>2, <1>4 DEF SnapshotAcked, AckIsFor, Plan
  <2>2. AtBase(agent.snapFrame)  BY <1>2, <2>1 DEF AckRight, SnapDone
  <2>3. agent'.exactFrame = agent.snapFrame
    <3> DEFINE next == IF RawRect THEN agent.snapEpoch + 1 ELSE agent.snapEpoch
    <3>1. agent' = [agent EXCEPT !.mode = "exact", !.epoch = next, !.rectEpoch = next,
                            !.exactFrame = agent.snapFrame, !.exactContent = agent.snapContent,
                            !.digest = SentDigest, !.base = agent.pending, !.pending = 0]
      BY <1>4 DEF AgreeOnSnapshot
    <3> HIDE DEF next
    <3> QED  BY <1>3, <3>1 DEF AgentState
  <2> QED  BY <1>1, <2>2, <2>3 DEF AtBase, Abstract!Agree
<1>5. CASE RectAcked /\ AgreeOnRect
  <2>1. /\ agent.mode = "awaiting_rect_ack" /\ inbox.ack.epoch = agent.epoch
        /\ inbox.ack.frame = agent.target /\ agent.target > agent.exactFrame
    BY <1>2, <1>5 DEF RectAcked, AckIsFor, Plan
  <2>2. RectDone
    <3>1. ~(inbox.ack.frame <= agent.exactFrame)  BY <1>3, <2>1
    <3> QED  BY <1>2, <2>1, <3>1 DEF AckRight
  <2>3. compositor.frame = agent.target /\ compositor.quality = "exact"
    <3>1. RectHandled
      <4>1. wire = <<>> /\ cmds = <<>>  BY <2>2 DEF RectDone
      <4>2. Len(cmds) = 0  BY <4>1
      <4> QED  BY <1>2, <2>1, <4>1, <4>2 DEF BaseInv
    <3> QED  BY <2>2, <3>1 DEF RectDone, RectHandled
  <2>4. agent'.exactFrame = agent.target  BY <1>3, <1>5 DEF AgreeOnRect, AgentState
  <2> QED  BY <1>1, <2>3, <2>4 DEF Abstract!Agree
<1>6. CASE Resume  BY <1>1, <1>6, ResumeShows
<1>7. CASE agent' = agent  BY <1>1, <1>7 DEF Unseen
<1>8. \/ SnapshotAcked /\ AgreeOnSnapshot
      \/ RectAcked /\ AgreeOnRect
      \/ Resume
      \/ agent' = agent
  BY DEF AgentAcks, AckMatches
<1> QED  BY <1>4, <1>5, <1>6, <1>7, <1>8

\* Giving up the base is the only thing else that is seen of the loop.
LEMMA LoopShows ==
  ASSUME SafetyInv,
         \/ AgentRecovers \/ AgentAckTimesOut \/ AgentSends \/ AgentQuiesces
         \/ AgentUnquiet \/ AgentSnapshots \/ AgentRects \/ AgentSupersedes
  PROVE  Unseen \/ Abstract!Withdraw
<1>1. compositor' = compositor
  BY DEF AgentRecovers, AgentAckTimesOut, AgentSends, AgentQuiesces, AgentUnquiet, AgentSnapshots,
     AgentRects, AgentSupersedes, viewerVars
<1>2. agent \in AgentState  BY LoopTypes
<1>3. CASE Resume  BY <1>1, <1>3, ResumeShows
<1>4. CASE agent'.exactFrame = agent.exactFrame  BY <1>1, <1>4 DEF Unseen
<1>5. Resume \/ agent'.exactFrame = agent.exactFrame
  <2>1. CASE AgentRecovers \/ AgentAckTimesOut \/ AgentUnquiet
    BY <2>1 DEF AgentRecovers, AgentAckTimesOut, AgentUnquiet
  <2>2. CASE AgentSends  BY <1>2, <2>2 DEF AgentSends, AgentState
  <2>3. CASE AgentQuiesces  BY <1>2, <2>3 DEF AgentQuiesces, AgentState
  <2>4. CASE AgentSnapshots  BY ZenonT(60), <1>2, <2>4 DEF AgentSnapshots, AgentState
  <2>5. Considered \in [DOMAIN agent -> {agent[x] : x \in DOMAIN agent} \cup {analyzed.content}]
        /\ Considered.exactFrame = agent.exactFrame
    BY <1>2 DEF Considered, AgentState
  <2>6. CASE AgentRects
    <3>1. SendRect => agent'.exactFrame = agent.exactFrame  BY <1>2 DEF SendRect, Considered, AgentState
    <3>2. Resume \/ SendRect \/ agent' = Considered  BY <2>6 DEF AgentRects
    <3> QED  BY <2>5, <3>1, <3>2
  <2>7. CASE AgentSupersedes  BY <2>5, <2>7 DEF AgentSupersedes
  <2> QED  BY <2>1, <2>2, <2>3, <2>4, <2>6, <2>7
<1> QED  BY <1>3, <1>4, <1>5

\* Every step of the session is a step of the abstract one, or unseen.
LEMMA NextShows ==
  ASSUME SafetyInv, [Next]_vars
  PROVE  Abstract!Next \/ Unseen
<1>1. CASE UNCHANGED vars  BY <1>1 DEF vars, Unseen
<1>2. CASE Source \/ Encoder \/ ReceivesControl  BY <1>2, SourceShows
<1>3. CASE Agent /\ ~ReceivesControl
  BY <1>3, AgreesShows, LoopShows DEF Agent, Abstract!Next
<1>4. CASE Reader  BY <1>4, ViewerShows
<1>5. CASE Compositor
  BY <1>5, ViewerShows, CommitShows, PatchShows, DrawShows DEF Compositor, Abstract!Next
<1> QED  BY <1>1, <1>2, <1>3, <1>4, <1>5 DEF Next

\* Seen from outside, an interactive session is ExactFramebuffer: the viewer's
\* committed frame never goes back, the agent relies only on a frame the
\* viewer committed exactly, and while it does the viewer is at most one exact
\* commit ahead and shows no video.
THEOREM SessionImplements == Spec => ImplementsExactFramebuffer
<1>1. Init => Abstract!Init  BY DEF Init, Abstract!Init
<1>2. SafetyInv /\ [Next]_vars
        => [Abstract!Next]_<<compositor.frame, compositor.quality, agent.exactFrame>>
  BY NextShows DEF Unseen
<1> QED  BY <1>1, <1>2, Safety, PTL DEF Spec, ImplementsExactFramebuffer, Abstract!Spec

\* What every session that looks like ExactFramebuffer promises.
BaseShown ==
  /\ compositor.frame \in Nat /\ agent.exactFrame \in Nat
  /\ Abstract!BaseCommitted

\* The abstract invariant: the base is shown, or its successor.
LEMMA BaseShownInit == Abstract!Init => BaseShown
BY DEF Abstract!Init, BaseShown, Abstract!BaseCommitted

LEMMA BaseShownStep ==
  BaseShown /\ [Abstract!Next]_<<compositor.frame, compositor.quality, agent.exactFrame>> => BaseShown'
<1> SUFFICES ASSUME BaseShown,
                    [Abstract!Next]_<<compositor.frame, compositor.quality, agent.exactFrame>>
             PROVE  BaseShown'
  OBVIOUS
<1>1. CASE Abstract!CommitLossy
  BY <1>1 DEF Abstract!CommitLossy, Abstract!Advances, BaseShown, Abstract!BaseCommitted
<1>2. CASE Abstract!CommitExact
  BY <1>2 DEF Abstract!CommitExact, Abstract!Advances, BaseShown, Abstract!BaseCommitted
<1>3. CASE Abstract!Agree
  BY <1>3 DEF Abstract!Agree, BaseShown, Abstract!BaseCommitted
<1>4. CASE Abstract!Withdraw
  BY <1>4 DEF Abstract!Withdraw, BaseShown, Abstract!BaseCommitted
<1>5. CASE UNCHANGED <<compositor.frame, compositor.quality, agent.exactFrame>>
  BY <1>5 DEF BaseShown, Abstract!BaseCommitted
<1> QED  BY <1>1, <1>2, <1>3, <1>4, <1>5 DEF Abstract!Next

\* The base the agent computes rectangles against was committed exactly by
\* the viewer and is not ahead of the frame the viewer shows.
THEOREM BaseIsCommitted == Spec => []Abstract!BaseCommitted
<1>1. BaseShown => Abstract!BaseCommitted  BY DEF BaseShown
<1>2. ImplementsExactFramebuffer => []Abstract!BaseCommitted
  BY <1>1, BaseShownInit, BaseShownStep, PTL DEF ImplementsExactFramebuffer, Abstract!Spec
<1> QED  BY <1>2, SessionImplements, PTL

\* While the agent relies on a base, no step replaces the exact picture by
\* lossy video: the hybrid session withdraws its base first.
THEOREM ExactIsKept ==
  Spec => [][agent.exactFrame # 0 /\ agent'.exactFrame = agent.exactFrame
               => compositor'.quality = compositor.quality
            ]_<<compositor.frame, compositor.quality, agent.exactFrame>>
<1>1. BaseShown /\ [Abstract!Next]_<<compositor.frame, compositor.quality, agent.exactFrame>>
        => [agent.exactFrame # 0 /\ agent'.exactFrame = agent.exactFrame
              => compositor'.quality = compositor.quality
           ]_<<compositor.frame, compositor.quality, agent.exactFrame>>
  BY DEF BaseShown, Abstract!BaseCommitted, Abstract!Next, Abstract!CommitLossy,
         Abstract!CommitExact, Abstract!Agree, Abstract!Withdraw, Abstract!Advances
<1> QED
  BY <1>1, BaseShownInit, BaseShownStep, SessionImplements, PTL
     DEF ImplementsExactFramebuffer, Abstract!Spec

-----------------------------------------------------------------------------
(* The order of the frames.  The encoder, the wire, the queue of commands   *)
(* and the decoded frame hold frames that are on their way to the screen,   *)
(* and one that is further behind is never older, unless it is a repeat     *)
(* that the encoder worker decided in an earlier epoch than it submits it.  *)

\* No frame that the compositor shows, or was told to commit, is newer than f,
Commits(x) == x.kind \in {"commit", "rect"}
Shown(f) ==
  /\ compositor.frame <= f
  /\ \A i \in 1..Len(cmds) : Commits(cmds[i]) => cmds[i].frame <= f
\* none that the reader took from the wire,
Read(f) == Shown(f) /\ (slot # NoFrame => slot.frame <= f)
\* and none that the agent sent.
Carries(m) == m.type \in {"video", "commit"}
Sent(f) == Read(f) /\ \A i \in 1..Len(wire) : Carries(wire[i]) => wire[i].frame <= f

SlotOrder == slot # NoFrame /\ ~IsLate(slot) => Shown(slot.frame)
WireOrder ==
  \A i \in 1..Len(wire) : wire[i].type = "video" /\ ~IsLate(wire[i]) =>
    /\ Read(wire[i].frame)
    /\ \A j \in 1..(i - 1) : Carries(wire[j]) => wire[j].frame <= wire[i].frame
QueueOrder ==
  \A i \in 1..Len(encoder.queue) : Current(i) =>
    /\ ~IsLate(encoder.queue[i]) => Sent(encoder.queue[i].frame)
    /\ encoder.queue[i].frame <= encoder.consumed
    /\ \A j \in 1..(i - 1) : Current(j) => encoder.queue[j].frame <= encoder.queue[i].frame
\* The frame a worker that found nothing new may still repeat.
RepeatOrder ==
  /\ encoder.tried <= agent.epoch
  /\ agent.mode = "video" /\ encoder.tried = agent.epoch => Sent(encoder.consumed)
OrderInv == SlotOrder /\ WireOrder /\ QueueOrder /\ RepeatOrder

\* Every frame on its way was captured.
LEMMA OrderTypes ==
  ASSUME SafetyInv
  PROVE  /\ Len(shot) \in Nat /\ agent.epoch \in Nat /\ agent.epoch >= 1
         /\ compositor.frame \in Nat /\ compositor.frame <= Len(shot)
         /\ encoder.consumed \in Nat /\ encoder.tried \in Nat
         /\ encoder.queue \in Seq(Encoded) /\ Len(encoder.queue) \in Nat
         /\ \A i \in 1..Len(encoder.queue) : /\ encoder.queue[i].frame \in Nat
                                             /\ encoder.queue[i].frame <= Len(shot)
         /\ Len(cmds) \in Nat /\ cmds \in Seq(Commands)
         /\ \A i \in 1..Len(cmds) : Commits(cmds[i]) => cmds[i].frame \in Nat /\ cmds[i].frame <= Len(shot)
         /\ wire \in Seq(Messages) /\ Len(wire) \in Nat
         /\ \A i \in 1..Len(wire) : Carries(wire[i]) => wire[i].frame \in Nat /\ wire[i].frame <= Len(shot)
         /\ slot # NoFrame => slot.frame \in Nat /\ slot.frame <= Len(shot)
<1>1. Shapes /\ WireInv /\ EncoderInv /\ CmdsInv /\ SlotInv /\ ShownInv  BY DEF SafetyInv
<1>2. /\ Len(shot) \in Nat /\ agent.epoch \in Nat /\ agent.epoch >= 1
      /\ wire \in Seq(Messages) /\ Len(wire) \in Nat
  BY LoopTypes
<1>3. compositor.frame \in Nat /\ compositor.frame <= Len(shot)
  <2>1. compositor \in CompositorState  BY <1>1, CompositorType
  <2> QED  BY <1>1, <2>1 DEF ShownInv, CompositorState
<1>4. /\ encoder.consumed \in Nat /\ encoder.tried \in Nat
      /\ encoder.queue \in Seq(Encoded) /\ Len(encoder.queue) \in Nat
  <2>1. encoder.consumed \in Nat /\ encoder.tried \in Nat /\ encoder.queue \in Seq(Encoded)
    BY <1>1, EncoderType
  <2> QED  BY <2>1
<1>5. \A i \in 1..Len(encoder.queue) : encoder.queue[i].frame \in Nat /\ encoder.queue[i].frame <= Len(shot)
  <2>1. \A i \in 1..Len(encoder.queue) : encoder.queue[i].frame \in 1..Len(shot)  BY <1>1 DEF EncoderInv
  <2> QED  BY <1>2, <2>1
<1>6. cmds \in Seq(Commands) /\ Len(cmds) \in Nat
  <2>1. cmds \in Seq(Commands)  BY <1>1, ReaderType
  <2> QED  BY <2>1
<1>7. \A i \in 1..Len(cmds) : Commits(cmds[i]) => cmds[i].frame \in Nat /\ cmds[i].frame <= Len(shot)
  <2>1. \A i \in 1..Len(cmds) : Commits(cmds[i]) => cmds[i].frame \in 1..Len(shot)
    BY <1>1 DEF CmdsInv, CmdRight, Commits
  <2> QED  BY <1>2, <2>1
<1>8. \A i \in 1..Len(wire) : Carries(wire[i]) => wire[i].frame \in Nat /\ wire[i].frame <= Len(shot)
  <2>1. \A i \in 1..Len(wire) : Carries(wire[i]) => wire[i].frame \in 1..Len(shot)
    BY <1>1 DEF WireInv, Right, Carries
  <2> QED  BY <1>2, <2>1
<1>9. slot # NoFrame => slot.frame \in Nat /\ slot.frame <= Len(shot)
  <2>1. slot # NoFrame => slot.frame \in 1..Len(shot)  BY <1>1 DEF SlotInv
  <2> QED  BY <1>2, <2>1
<1> QED  BY <1>2, <1>3, <1>4, <1>5, <1>6, <1>7, <1>8, <1>9, Zenon

\* The newest capture is behind everything.
LEMMA NewestSent == ASSUME SafetyInv PROVE Sent(Len(shot))
BY OrderTypes DEF Sent, Read, Shown

\* At the start nothing is on its way.
LEMMA OrderInit == Init => OrderInv
<1> SUFFICES ASSUME Init PROVE OrderInv  OBVIOUS
<1>1. /\ encoder.queue = <<>> /\ encoder.tried = 0 /\ agent.epoch = 1
      /\ wire = <<>> /\ slot = NoFrame
  BY DEF Init
<1>2. Len(wire) = 0 /\ Len(encoder.queue) = 0  BY <1>1
<1> QED  BY <1>1, <1>2 DEF OrderInv, SlotOrder, WireOrder, QueueOrder, RepeatOrder

\* Steps that move no frame.
LEMMA OrderSame ==
  ASSUME OrderInv, UNCHANGED <<encoder, wire, cmds, slot, compositor, agent.mode, agent.epoch>>
  PROVE  OrderInv'
<1>1. SlotOrder'  BY DEF OrderInv, SlotOrder, Shown, IsLate
<1>2. WireOrder'  BY DEF OrderInv, WireOrder, Read, Shown, IsLate
<1>3. QueueOrder'  BY DEF OrderInv, QueueOrder, Current, Sent, Read, Shown, IsLate
<1>4. RepeatOrder'  BY DEF OrderInv, RepeatOrder, Sent, Read, Shown
<1> QED  BY <1>1, <1>2, <1>3, <1>4 DEF OrderInv

\* A step of the compositor: what was on its way is now on the screen.
LEMMA OrderCompositor ==
  ASSUME SafetyInv, OrderInv, UNCHANGED <<encoder, wire, agent>>, SlotOrder',
         \A f \in Nat : Read(f) => Read(f)'
  PROVE  OrderInv'
<1>1. \A f \in Nat : Sent(f) => Sent(f)'  BY DEF Sent
<1>2. WireOrder'
  <2> SUFFICES ASSUME NEW i \in 1..Len(wire), wire[i].type = "video", ~IsLate(wire[i])
               PROVE  Read(wire[i].frame)'
    BY DEF OrderInv, WireOrder, IsLate
  <2>1. wire[i].frame \in Nat /\ Read(wire[i].frame)  BY OrderTypes DEF Carries, OrderInv, WireOrder
  <2>2. PICK f \in Nat : f = wire[i].frame  BY <2>1
  <2>3. Read(f)'  BY <2>1, <2>2
  <2> QED  BY <2>2, <2>3 DEF Read, Shown
<1>3. QueueOrder'
  <2> SUFFICES ASSUME NEW i \in 1..Len(encoder.queue), Current(i), ~IsLate(encoder.queue[i])
               PROVE  Sent(encoder.queue[i].frame)'
    BY DEF OrderInv, QueueOrder, Current, IsLate
  <2>1. encoder.queue[i].frame \in Nat /\ Sent(encoder.queue[i].frame)
    BY OrderTypes DEF OrderInv, QueueOrder
  <2>2. PICK f \in Nat : f = encoder.queue[i].frame  BY <2>1
  <2>3. Sent(f)'  BY <1>1, <2>1, <2>2
  <2> QED  BY <2>2, <2>3 DEF Sent, Read, Shown
<1>4. RepeatOrder'
  <2> SUFFICES ASSUME agent.mode = "video", encoder.tried = agent.epoch PROVE Sent(encoder.consumed)'
    BY DEF OrderInv, RepeatOrder
  <2>1. encoder.consumed \in Nat /\ Sent(encoder.consumed)
    BY OrderTypes DEF OrderInv, RepeatOrder
  <2>2. PICK f \in Nat : f = encoder.consumed  BY <2>1
  <2>3. Sent(f)'  BY <1>1, <2>1, <2>2
  <2> QED  BY <2>2, <2>3 DEF Sent, Read, Shown
<1> QED  BY <1>2, <1>3, <1>4 DEF OrderInv

\* The same for the steps that leave the decoded frame where it is.
LEMMA OrderSlotKept ==
  ASSUME SafetyInv, OrderInv, UNCHANGED <<encoder, wire, agent, slot>>,
         \A f \in Nat : Shown(f) => Shown(f)'
  PROVE  OrderInv'
<1>1. \A f \in Nat : Read(f) => Read(f)'  BY DEF Read
<1>2. SlotOrder'
  <2> SUFFICES ASSUME slot # NoFrame, ~IsLate(slot) PROVE Shown(slot.frame)'
    BY DEF SlotOrder, IsLate
  <2>1. slot.frame \in Nat /\ Shown(slot.frame)  BY OrderTypes DEF OrderInv, SlotOrder
  <2>2. PICK f \in Nat : f = slot.frame  BY <2>1
  <2>3. Shown(f)'  BY <2>1, <2>2
  <2> QED  BY <2>2, <2>3 DEF Shown
<1> QED  BY <1>1, <1>2, OrderCompositor

\* A command leaves the queue; if it commits, the compositor shows its frame.
LEMMA OrderPopped ==
  ASSUME SafetyInv, OrderInv, UNCHANGED <<shot, encoder, wire, reader, agent, slot>>,
         cmds # <<>>, cmds' = Tail(cmds),
         \/ compositor'.frame = compositor.frame
         \/ Commits(cmds[1]) /\ compositor'.frame = cmds[1].frame
  PROVE  OrderInv'
<1>1. /\ Len(cmds) \in Nat /\ Len(cmds') = Len(cmds) - 1
      /\ \A i \in 1..Len(cmds') : cmds'[i] = cmds[i + 1] /\ i + 1 \in 1..Len(cmds)
  BY Popped
<1>2. 1 \in 1..Len(cmds)  BY OrderTypes, TailOf
<1>3. ASSUME NEW f \in Nat, Shown(f) PROVE Shown(f)'
  <2>1. compositor'.frame <= f  BY <1>2, <1>3 DEF Shown
  <2>2. \A i \in 1..Len(cmds') : Commits(cmds'[i]) => cmds'[i].frame <= f
    BY <1>1, <1>3 DEF Shown
  <2> QED  BY <2>1, <2>2 DEF Shown, Commits
<1> QED  BY <1>3, OrderSlotKept

\* The compositor's steps.
LEMMA OrderCompositorSteps ==
  ASSUME SafetyInv, OrderInv, Compositor
  PROVE  OrderInv'
<1>1. compositor \in CompositorState  BY DEF SafetyInv, Shapes
<1>2. CASE CompositorBegins
  <2>1. /\ cmds # <<>> /\ cmds' = Tail(cmds)
        /\ UNCHANGED <<shot, encoder, wire, reader, agent, slot>>
    BY <1>2 DEF CompositorBegins, Runs, sourceVars, agentVars
  <2>2. compositor'.frame = compositor.frame  BY <1>2, ViewerShows DEF Unseen
  <2> QED  BY <2>1, <2>2, OrderPopped
<1>3. CASE CompositorUploads \/ CompositorCancels
  <2>1. /\ cmds # <<>> /\ cmds' = Tail(cmds)
        /\ UNCHANGED <<shot, encoder, wire, reader, agent, slot>>
    BY <1>3 DEF CompositorUploads, CompositorCancels, Runs, sourceVars, agentVars
  <2>2. compositor'.frame = compositor.frame  BY <1>3, ViewerShows DEF Unseen
  <2> QED  BY <2>1, <2>2, OrderPopped
<1>4. CASE CompositorExpires
  <2>1. UNCHANGED <<encoder, wire, agent, slot, cmds>>
    BY <1>4 DEF CompositorExpires, agentVars
  <2>2. compositor'.frame = compositor.frame  BY <1>4, ViewerShows DEF Unseen
  <2>3. \A f \in Nat : Shown(f) => Shown(f)'  BY <2>1, <2>2 DEF Shown
  <2> QED  BY <2>1, <2>3, OrderSlotKept
<1>5. CASE CompositorCommits
  <2>1. /\ cmds # <<>> /\ cmds' = Tail(cmds) /\ Head(cmds).kind = "commit"
        /\ UNCHANGED <<shot, encoder, wire, reader, agent, slot>>
    BY <1>5 DEF CompositorCommits, Runs, sourceVars, agentVars
  <2>2. Head(cmds) = cmds[1]  BY <2>1, Popped
  <2>3. Commits(cmds[1])  BY <2>1, <2>2 DEF Commits
  <2>4. compositor'.frame \in {compositor.frame, cmds[1].frame}
    <3> DEFINE idle == [compositor EXCEPT !.upload = Idle]
               swapped == Shows(idle, Whole(compositor.upload.parts), FALSE)
    <3>1. compositor' \in {idle, swapped, Exact(swapped, cmds[1].frame)}
      BY <1>5, <2>2 DEF CompositorCommits
    <3>2. /\ idle.frame = compositor.frame /\ swapped.frame = compositor.frame
          /\ Exact(swapped, cmds[1].frame).frame = cmds[1].frame
      BY <1>1 DEF Shows, Exact, CompositorState
    <3> HIDE DEF idle, swapped
    <3> QED  BY <3>1, <3>2
  <2> QED  BY <2>1, <2>3, <2>4, OrderPopped
<1>6. CASE CompositorPatches
  <2>1. /\ cmds # <<>> /\ cmds' = Tail(cmds) /\ Head(cmds).kind = "rect"
        /\ UNCHANGED <<shot, encoder, wire, reader, agent, slot>>
    BY <1>6 DEF CompositorPatches, Runs, sourceVars, agentVars
  <2>2. Head(cmds) = cmds[1] /\ cmds[1] \in Commands  BY <2>1, Popped
  <2>3. Commits(cmds[1])  BY <2>1, <2>2 DEF Commits
  <2>4. compositor'.frame \in {compositor.frame, cmds[1].frame}
    <3> DEFINE m == cmds[1]
               entered == [Entered("rect", m.epoch) EXCEPT !.upload = IF RectAccepted(m) THEN @ ELSE Idle]
               swapped == Shows(entered, Patch(compositor.picture.content, m.from, m.to),
                                compositor.picture.lossy)
               refused == [swapped EXCEPT !.upload = Idle]
    <3>1. compositor' \in {entered, refused, Exact(swapped, m.frame)}
      BY <1>6, <2>2 DEF CompositorPatches
    <3>2. entered.frame = compositor.frame /\ DOMAIN entered = DOMAIN compositor
      <4>1. m.epoch \in Nat  BY <2>2, CommandFields
      <4>2. Entered("rect", m.epoch) \in CompositorState /\ Entered("rect", m.epoch).frame = compositor.frame
        BY <1>1, <4>1, EnteredType
      <4> QED  BY <1>1, <4>2 DEF CompositorState
    <3> HIDE DEF entered
    <3>3. /\ swapped.frame = compositor.frame /\ refused.frame = compositor.frame
          /\ Exact(swapped, m.frame).frame = m.frame
      BY <1>1, <3>2 DEF Shows, Exact, CompositorState
    <3> HIDE DEF swapped, refused
    <3> QED  BY <3>1, <3>2, <3>3
  <2> QED  BY <2>1, <2>3, <2>4, OrderPopped
<1>7. CASE CompositorDraws
  <2>1. /\ slot # NoFrame /\ slot' = NoFrame
        /\ UNCHANGED <<encoder, wire, agent, cmds>>
    BY <1>7 DEF CompositorDraws, agentVars
  <2>2. compositor'.frame \in {compositor.frame, slot.frame}
    <3> DEFINE entered == IF Enters(slot) THEN Entered("video", slot.epoch) ELSE compositor
               swapped == Shows(entered, shot[slot.frame], TRUE)
               drawn == [swapped EXCEPT !.frame = slot.frame, !.quality = "lossy", !.lastVideo = slot.frame]
    <3>1. compositor' \in {entered, swapped, drawn}  BY <1>7 DEF CompositorDraws
    <3>2. entered.frame = compositor.frame /\ DOMAIN entered = DOMAIN compositor
      BY <1>1 DEF Entered, CompositorState
    <3> HIDE DEF entered
    <3>3. swapped.frame = compositor.frame /\ drawn.frame = slot.frame
      BY <1>1, <3>2 DEF Shows, CompositorState
    <3> HIDE DEF swapped, drawn
    <3> QED  BY <3>1, <3>2, <3>3
  <2>3. \A f \in Nat : Read(f) => Read(f)'  BY <2>1, <2>2 DEF Read, Shown
  <2>4. SlotOrder'  BY <2>1 DEF SlotOrder
  <2> QED  BY <2>1, <2>3, <2>4, OrderCompositor
<1> QED  BY <1>2, <1>3, <1>4, <1>5, <1>6, <1>7 DEF Compositor

\* A step of the reader: a frame leaves the wire for the queue of commands,
\* for the slot, or for neither.
LEMMA OrderReader ==
  ASSUME SafetyInv, OrderInv, wire # <<>>, wire' = Tail(wire),
         UNCHANGED <<shot, encoder, agent, compositor>>, SlotOrder',
         \A f \in Nat : Read(f) /\ (Carries(wire[1]) => wire[1].frame <= f) => Read(f)'
  PROVE  OrderInv'
<1>1. /\ Len(wire) \in Nat /\ Len(wire') = Len(wire) - 1
      /\ \A i \in 1..Len(wire') : wire'[i] = wire[i + 1] /\ i + 1 \in 1..Len(wire)
      /\ 1 \in 1..Len(wire)
  <2>1. 1 \in 1..Len(wire)  BY OrderTypes, TailOf
  <2> QED  BY <2>1, ReadWire
<1>2. ASSUME NEW f \in Nat, Sent(f) PROVE Sent(f)'
  <2>1. Read(f)'  BY <1>1, <1>2 DEF Sent
  <2>2. \A i \in 1..Len(wire') : Carries(wire'[i]) => wire'[i].frame <= f  BY <1>1, <1>2 DEF Sent
  <2> QED  BY <2>1, <2>2 DEF Sent, Carries
<1>3. WireOrder'
  <2> SUFFICES ASSUME NEW i \in 1..Len(wire'), wire'[i].type = "video", ~IsLate(wire[i])'
               PROVE  /\ Read(wire[i].frame)'
                      /\ \A j \in 1..(i - 1) : Carries(wire'[j]) => wire'[j].frame <= wire'[i].frame
    BY DEF WireOrder, Carries
  <2>1. wire'[i] = wire[i + 1] /\ i + 1 \in 1..Len(wire) /\ i \in Nat /\ i >= 1  BY <1>1
  <2>2. Carries(wire[i + 1]) /\ ~IsLate(wire[i + 1])  BY <2>1 DEF Carries, IsLate
  <2>3. /\ Read(wire[i + 1].frame)
        /\ \A j \in 1..(i + 1 - 1) : Carries(wire[j]) => wire[j].frame <= wire[i + 1].frame
    BY <2>1, <2>2 DEF OrderInv, WireOrder
  <2>4. PICK f \in Nat : f = wire[i + 1].frame  BY <2>1, <2>2, OrderTypes
  <2>5. 1 \in 1..(i + 1 - 1)  BY <2>1
  <2>6. Read(f)'  BY <2>3, <2>4, <2>5
  <2>7. \A j \in 1..(i - 1) : j + 1 \in 1..(i + 1 - 1) /\ j \in 1..Len(wire')  BY <1>1, <2>1
  <2>8. \A j \in 1..(i - 1) : Carries(wire'[j]) => wire'[j].frame <= wire'[i].frame
    BY <1>1, <2>1, <2>3, <2>7
  <2> QED  BY <2>1, <2>4, <2>6, <2>8 DEF Read, Shown
<1>4. QueueOrder'
  <2> SUFFICES ASSUME NEW i \in 1..Len(encoder.queue), Current(i), ~IsLate(encoder.queue[i])
               PROVE  Sent(encoder.queue[i].frame)'
    BY DEF OrderInv, QueueOrder, Current, IsLate
  <2>1. encoder.queue[i].frame \in Nat /\ Sent(encoder.queue[i].frame)
    BY OrderTypes DEF OrderInv, QueueOrder
  <2>2. PICK f \in Nat : f = encoder.queue[i].frame  BY <2>1
  <2>3. Sent(f)'  BY <1>2, <2>1, <2>2
  <2> QED  BY <2>2, <2>3 DEF Sent, Read, Shown
<1>5. RepeatOrder'
  <2> SUFFICES ASSUME agent.mode = "video", encoder.tried = agent.epoch PROVE Sent(encoder.consumed)'
    BY DEF OrderInv, RepeatOrder
  <2>1. encoder.consumed \in Nat /\ Sent(encoder.consumed)
    BY OrderTypes DEF OrderInv, RepeatOrder
  <2>2. PICK f \in Nat : f = encoder.consumed  BY <2>1
  <2>3. Sent(f)'  BY <1>2, <2>1, <2>2
  <2> QED  BY <2>2, <2>3 DEF Sent, Read, Shown
<1> QED  BY <1>3, <1>4, <1>5 DEF OrderInv

\* A queue that grew by commands that commit nothing.
Added(s) == Len(s) >= Len(cmds) /\ (\A i \in 1..Len(cmds) : s[i] = cmds[i])
            /\ \A i \in 1..Len(s) : i > Len(cmds) => ~Commits(s[i])

\* A message that carries no frame to the screen.
LEMMA OrderQueued ==
  ASSUME SafetyInv, OrderInv, wire # <<>>, wire' = Tail(wire),
         UNCHANGED <<shot, encoder, agent, compositor>>, slot' \in {slot, NoFrame},
         Len(cmds') \in Nat, Added(cmds')
  PROVE  OrderInv'
<1>1. Len(cmds) \in Nat  BY OrderTypes
<1>2. ASSUME NEW f, Shown(f) PROVE Shown(f)'
  BY <1>1, <1>2 DEF Shown, Added
<1>3. \A f \in Nat : Read(f) => Read(f)'  BY <1>2 DEF Read
<1>4. SlotOrder'
  <2> SUFFICES ASSUME slot' # NoFrame, ~IsLate(slot)' PROVE Shown(slot.frame)'  BY DEF SlotOrder
  <2>1. slot' = slot /\ Shown(slot.frame)  BY DEF OrderInv, SlotOrder, IsLate
  <2>2. PICK f : f = slot.frame  OBVIOUS
  <2>3. Shown(f)'  BY <1>2, <2>1, <2>2
  <2> QED  BY <2>1, <2>2, <2>3 DEF Shown
<1> QED  BY <1>3, <1>4, OrderReader

\* A cancel shows nothing.
LEMMA CancelsNothing == \A e : ~Commits(Cancel(e))
BY DEF Commits, Cancel

\* What the reader added to the queue of commands: one command,
LEMMA AddedOne ==
  ASSUME SafetyInv, NEW x, ~Commits(x)
  PROVE  Added(Append(cmds, x)) /\ Len(Append(cmds, x)) \in Nat
<1>1. cmds \in Seq(Commands)  BY OrderTypes
<1>2. /\ Len(Append(cmds, x)) = Len(cmds) + 1 /\ Len(cmds) \in Nat
      /\ \A i \in 1..Len(cmds) : Append(cmds, x)[i] = cmds[i]
      /\ Append(cmds, x)[Len(cmds) + 1] = x
  BY <1>1
<1> DEFINE s == Append(cmds, x)
<1> HIDE DEF s
<1>3. /\ Len(s) = Len(cmds) + 1 /\ Len(cmds) \in Nat
      /\ (\A i \in 1..Len(cmds) : s[i] = cmds[i]) /\ s[Len(cmds) + 1] = x
  BY <1>2 DEF s
<1>4. \A i \in 1..Len(s) : i > Len(cmds) => s[i] = x  BY <1>3
<1>5. Added(s) /\ Len(s) \in Nat  BY <1>3, <1>4 DEF Added
<1> QED  BY <1>5 DEF s

\* or none.
LEMMA AddedNone == ASSUME SafetyInv PROVE Added(cmds) /\ Len(cmds) \in Nat
BY OrderTypes DEF Added

\* A snapshot or a rectangle that is complete is queued with the frame of the
\* commit that was read.
LEMMA OrderCommits ==
  ASSUME SafetyInv, SafetyInv', OrderInv, ReaderCommits
  PROVE  OrderInv'
<1>0. /\ wire # <<>> /\ wire' = Tail(wire) /\ Head(wire).type = "commit"
      /\ UNCHANGED <<shot, encoder, agent, compositor, slot>>
  BY DEF ReaderCommits, Reads, sourceVars, agentVars
<1> DEFINE m == wire[1]
<1>1. Head(wire) = m /\ m \in Messages  BY <1>0, ReadWire
<1>2. Carries(m)  BY <1>0, <1>1 DEF Carries
<1>3. cmds \in Seq(Commands) /\ Len(cmds) \in Nat  BY OrderTypes
<1>4. CASE \E poison : Recover(poison)
  <2>1. cmds' = Append(cmds, Cancel(0))  BY <1>4 DEF Recover
  <2> QED  BY <1>0, <2>1, AddedOne, CancelsNothing, OrderQueued
<1>5. ASSUME NEW x, cmds' = Append(cmds, x), x.frame = m.frame, reader'.rep # "video"
      PROVE  OrderInv'
  <2>1. slot' = NoFrame
    <3>1. SlotInv'  BY DEF SafetyInv
    <3> QED  BY <1>5, <3>1 DEF SlotInv
  <2>2. /\ Len(cmds') = Len(cmds) + 1
        /\ \A i \in 1..Len(cmds) : cmds'[i] = cmds[i]
        /\ cmds'[Len(cmds) + 1] = x
    BY <1>3, <1>5
  <2>3. ASSUME NEW f \in Nat, Read(f), m.frame <= f PROVE Read(f)'
    <3>1. \A i \in 1..Len(cmds') : Commits(cmds'[i]) => cmds'[i].frame <= f
      <4> SUFFICES ASSUME NEW i \in 1..Len(cmds'), Commits(cmds'[i]) PROVE cmds'[i].frame <= f
        OBVIOUS
      <4>1. CASE i \in 1..Len(cmds)  BY <2>2, <2>3, <4>1 DEF Read, Shown
      <4>2. CASE i = Len(cmds) + 1  BY <1>5, <2>2, <2>3, <4>2
      <4> QED  BY <1>3, <2>2, <4>1, <4>2
    <3> QED  BY <1>0, <2>1, <2>3, <3>1 DEF Read, Shown, Commits
  <2>4. SlotOrder'  BY <2>1 DEF SlotOrder
  <2> QED  BY <1>0, <1>2, <2>3, <2>4, OrderReader
<1>6. CASE reader.rect # NoRect /\ RectComplete(m)
  <2> DEFINE r == reader.rect
             digest == RectDigest(reader.digest, r.frame, r.from, r.to)
  <2>1. reader' = Moved("rect", m, digest) /\ cmds' = Append(cmds, PatchRect(r, digest))
    BY <1>1, <1>6 DEF ReaderCommits, CommitsRect
  <2>2. PatchRect(r, digest).frame = m.frame  BY <1>6 DEF PatchRect, RectComplete
  <2>3. reader'.rep = "rect"
    <3>1. reader \in ReaderState  BY DEF SafetyInv, Shapes
    <3> HIDE DEF digest
    <3> QED  BY <2>1, <3>1 DEF Moved, ReaderState
  <2> QED  BY <1>5, <2>1, <2>2, <2>3
<1>7. CASE reader.rect = NoRect /\ SnapshotComplete(m)
  <2> DEFINE digest == SnapshotDigest(reader.snap.parts)
  <2>1. reader' = Moved("snapshot", m, digest) /\ cmds' = Append(cmds, CommitSnap(m, digest))
    BY <1>1, <1>7 DEF ReaderCommits, CommitsSnapshot
  <2>2. CommitSnap(m, digest).frame = m.frame  BY DEF CommitSnap
  <2>3. reader'.rep = "snapshot"
    <3>1. reader \in ReaderState  BY DEF SafetyInv, Shapes
    <3> HIDE DEF digest
    <3> QED  BY <2>1, <3>1 DEF Moved, ReaderState
  <2> QED  BY <1>5, <2>1, <2>2, <2>3
<1>8. \/ \E poison : Recover(poison)
      \/ reader.rect # NoRect /\ RectComplete(m)
      \/ reader.rect = NoRect /\ SnapshotComplete(m)
  BY <1>1 DEF ReaderCommits, CommitsRect, CommitsSnapshot
<1> QED  BY <1>4, <1>6, <1>7, <1>8

\* The items of two sequences, one after the other.
LEMMA ConcatOf ==
  ASSUME NEW S, NEW s \in Seq(S), NEW t \in Seq(S)
  PROVE  /\ s \o t \in Seq(S) /\ Len(s \o t) = Len(s) + Len(t)
         /\ \A i \in 1..Len(s) : (s \o t)[i] = s[i]
         /\ \A i \in 1..Len(s \o t) : i > Len(s) => /\ (s \o t)[i] = t[i - Len(s)]
                                                   /\ i - Len(s) \in 1..Len(t)
OBVIOUS

\* Commands that commit nothing: the video that opens behind a half-read
\* transaction puts none, one or two of them behind the queue.
Harmless(a) == a \in Seq(Commands) /\ \A i \in 1..Len(a) : ~Commits(a[i])

\* None,
LEMMA HarmlessNone == Harmless(<<>>)
BY DEF Harmless

\* or one,
LEMMA HarmlessOne == \A x \in Commands : ~Commits(x) => Harmless(<<x>>)
<1> SUFFICES ASSUME NEW x \in Commands, ~Commits(x) PROVE Harmless(<<x>>)  OBVIOUS
<1>1. <<x>> \in Seq(Commands) /\ \A i \in 1..Len(<<x>>) : <<x>>[i] = x  OBVIOUS
<1> QED  BY <1>1 DEF Harmless

\* and two of them one after the other.
LEMMA AddedTwo ==
  ASSUME SafetyInv, NEW a, NEW b, Harmless(a), Harmless(b)
  PROVE  Added(cmds \o a \o b)
<1>1. cmds \in Seq(Commands) /\ Len(cmds) \in Nat  BY OrderTypes
<1>2. a \in Seq(Commands) /\ b \in Seq(Commands)  BY DEF Harmless
<1> DEFINE s == cmds \o a
           t == s \o b
<1>3. /\ s \in Seq(Commands) /\ Len(s) = Len(cmds) + Len(a)
      /\ \A i \in 1..Len(cmds) : s[i] = cmds[i]
      /\ \A i \in 1..Len(s) : i > Len(cmds) => s[i] = a[i - Len(cmds)] /\ i - Len(cmds) \in 1..Len(a)
  BY <1>1, <1>2, ConcatOf, Zenon
<1> HIDE DEF s
<1>4. s \in Seq(Commands)  BY <1>3
<1>5. /\ Len(t) = Len(s) + Len(b)
      /\ \A i \in 1..Len(s) : t[i] = s[i]
      /\ \A i \in 1..Len(t) : i > Len(s) => t[i] = b[i - Len(s)] /\ i - Len(s) \in 1..Len(b)
  BY ZenonT(60), <1>2, <1>4, ConcatOf
<1> HIDE DEF t
<1>6. Len(a) \in Nat /\ Len(b) \in Nat  BY <1>2
<1>7. ASSUME NEW i \in 1..Len(t), i > Len(cmds) PROVE ~Commits(t[i])
  <2>1. CASE i > Len(s)  BY <1>5, <1>7, <2>1 DEF Harmless
  <2>2. CASE ~(i > Len(s))
    <3>1. i \in 1..Len(s)  BY <1>1, <1>3, <1>5, <1>6, <1>7, <2>2
    <3> QED  BY <1>3, <1>5, <1>7, <3>1 DEF Harmless
  <2> QED  BY <2>1, <2>2
<1>8. \A i \in 1..Len(cmds) : i \in 1..Len(s)  BY <1>1, <1>3, <1>6
<1>9. Len(t) >= Len(cmds) /\ \A i \in 1..Len(cmds) : t[i] = cmds[i]
  BY <1>1, <1>3, <1>5, <1>6, <1>8
<1>10. Added(t)  BY <1>7, <1>9 DEF Added
<1> QED  BY <1>10 DEF s, t

\* A decoded frame is newer than what was read before it.
LEMMA OrderDecodes ==
  ASSUME SafetyInv, SafetyInv', OrderInv, ReaderDecodes
  PROVE  OrderInv'
<1> DEFINE m == wire[1]
           a == IF reader.snap # NoSnap THEN <<Cancel(0)>> ELSE <<>>
           b == IF reader.rect # NoRect THEN <<Cancel(Head(wire).epoch)>> ELSE <<>>
<1>0. /\ wire # <<>> /\ wire' = Tail(wire) /\ Head(wire).type = "video"
      /\ cmds' = cmds \o a \o b
      /\ UNCHANGED <<shot, encoder, agent, compositor>>
  BY DEF ReaderDecodes, Reads, sourceVars, agentVars
<1>1. /\ Head(wire) = m /\ m \in Messages /\ m.frame \in Nat /\ 1 \in 1..Len(wire)
      /\ m.type = "video" /\ Carries(m)
  <2>1. Head(wire) = m /\ m \in Messages  BY <1>0, ReadWire
  <2>2. 1 \in 1..Len(wire)  BY <1>0, OrderTypes, TailOf
  <2> QED  BY <1>0, <2>1, <2>2, MessageFields DEF Carries
<1>2. /\ slot' = [frame |-> m.frame, epoch |-> m.epoch, key |-> m.key]
      /\ slot'.frame = m.frame /\ slot'.epoch = m.epoch
  <2>1. fault' = fault  BY DEF SafetyInv, Running
  <2>2. Running  BY DEF SafetyInv
  <2>3. VideoLegal(m)
    <3>1. CASE ~VideoLegal(m)
      <4>1. fault' = "video transition"  BY <1>1, <3>1 DEF ReaderDecodes
      <4> QED  BY <2>1, <2>2, <4>1 DEF Running
    <3> QED  BY <3>1
  <2>4. slot' = [frame |-> m.frame, epoch |-> m.epoch, key |-> m.key]
    BY <1>1, <2>3 DEF ReaderDecodes
  <2> QED  BY <2>4
<1>3. cmds \in Seq(Commands) /\ Len(cmds) \in Nat  BY OrderTypes
<1>4. Added(cmds')
  <2>1. Cancel(0) \in Commands /\ Cancel(Head(wire).epoch) \in Commands
    <3>1. Head(wire).epoch \in Nat  BY <1>1, MessageFields
    <3> QED  BY <3>1 DEF Cancel, Commands
  <2>2. Harmless(a) /\ Harmless(b)
    <3>1. \A x \in Commands : ~Commits(x) => Harmless(<<x>>)  BY HarmlessOne
    <3>2. Harmless(<<Cancel(0)>>) /\ Harmless(<<Cancel(Head(wire).epoch)>>)
      BY <2>1, <3>1, CancelsNothing
    <3> QED  BY <3>2, HarmlessNone
  <2> HIDE DEF a, b
  <2> QED  BY <1>0, <2>2, AddedTwo
<1>5. Len(cmds') \in Nat  BY OrderTypes DEF SafetyInv, Shapes
<1>6. ASSUME NEW f, Shown(f) PROVE Shown(f)'
  <2>1. \A i \in 1..Len(cmds') : Commits(cmds'[i]) => cmds'[i].frame <= f
    BY <1>3, <1>4, <1>5, <1>6 DEF Shown, Added
  <2> QED  BY <1>0, <1>6, <2>1 DEF Shown, Commits
<1>7. SlotOrder'
  <2> SUFFICES ASSUME ~IsLate(slot)' PROVE Shown(slot.frame)'  BY DEF SlotOrder
  <2>0. ~IsLate(m)  BY <1>0, <1>2 DEF IsLate
  <2>1. Shown(m.frame)  BY <1>1, <2>0 DEF OrderInv, WireOrder, Read
  <2>2. PICK f \in Nat : f = m.frame  BY <1>1
  <2>3. Shown(f)'  BY <1>6, <2>1, <2>2
  <2> QED  BY <1>2, <2>2, <2>3 DEF Shown
<1>8. \A f \in Nat : Read(f) /\ (Carries(m) => m.frame <= f) => Read(f)'
  BY <1>1, <1>2, <1>6 DEF Read
<1> QED  BY <1>0, <1>7, <1>8, OrderReader

\* The reader's steps.
LEMMA OrderReaderSteps ==
  ASSUME SafetyInv, SafetyInv', OrderInv, Reader
  PROVE  OrderInv'
<1>1. ASSUME NEW x, ~Commits(x), wire # <<>>, wire' = Tail(wire), cmds' = Append(cmds, x),
             UNCHANGED <<shot, encoder, agent, compositor>>, slot' \in {slot, NoFrame}
      PROVE  OrderInv'
  BY <1>1, AddedOne, OrderQueued
<1>2. ASSUME wire # <<>>, wire' = Tail(wire), cmds' = cmds,
             UNCHANGED <<shot, encoder, agent, compositor>>, slot' = slot
      PROVE  OrderInv'
  BY <1>2, AddedNone, OrderQueued
<1>3. CASE ReaderResets
  <2>1. /\ wire # <<>> /\ wire' = Tail(wire)
        /\ UNCHANGED <<shot, encoder, agent, compositor>>
    BY <1>3 DEF ReaderResets, Reads, sourceVars, agentVars
  <2>2. (cmds' = cmds \/ \E e : cmds' = Append(cmds, Cancel(e))) /\ slot' \in {slot, NoFrame}
    BY <1>3 DEF ReaderResets
  <2>3. CASE \E e : cmds' = Append(cmds, Cancel(e))
    BY <1>1, <2>1, <2>2, <2>3, CancelsNothing
  <2>4. CASE cmds' = cmds
    BY <2>1, <2>2, <2>4, AddedNone, OrderQueued
  <2> QED  BY <2>2, <2>3, <2>4
<1>4. CASE ReaderTakesRect
  <2>1. /\ wire # <<>> /\ wire' = Tail(wire)
        /\ UNCHANGED <<shot, encoder, agent, compositor, slot>>
    BY <1>4 DEF ReaderTakesRect, Reads, sourceVars, agentVars
  <2>2. cmds' = cmds \/ cmds' = Append(cmds, Cancel(0))
    BY <1>4 DEF ReaderTakesRect, Recover
  <2> QED  BY <1>1, <1>2, <2>1, <2>2, CancelsNothing
<1>5. CASE ReaderTakesChunk
  <2> DEFINE a == IF reader.snap = NoSnap THEN <<Begin(Head(wire))>> ELSE <<>>
             b == <<Part(Head(wire))>>
  <2>1. /\ wire # <<>> /\ wire' = Tail(wire) /\ Head(wire).type = "chunk"
        /\ UNCHANGED <<shot, encoder, agent, compositor, slot>>
    BY <1>5 DEF ReaderTakesChunk, Reads, sourceVars, agentVars
  <2>2. cmds' = Append(cmds, Cancel(0)) \/ cmds' = cmds \o a \o b
    BY <1>5 DEF ReaderTakesChunk, Recover
  <2>3. Harmless(a) /\ Harmless(b)
    <3>1. Head(wire) \in Messages  BY <2>1, ReadWire
    <3>2. /\ Head(wire).epoch \in Nat /\ Head(wire).frame \in Nat /\ Head(wire).offset \in Nat
          /\ Head(wire).content \in Contents
      BY <2>1, <3>1, MessageFields
    <3>3. Begin(Head(wire)) \in Commands /\ Part(Head(wire)) \in Commands
      BY <3>2 DEF Begin, Part, Commands
    <3>4. ~Commits(Begin(Head(wire))) /\ ~Commits(Part(Head(wire)))
      BY DEF Begin, Part, Commits
    <3>5. Harmless(<<Begin(Head(wire))>>) /\ Harmless(<<Part(Head(wire))>>)
      BY <3>3, <3>4, HarmlessOne
    <3> QED  BY <3>5, HarmlessNone
  <2> HIDE DEF a, b
  <2>4. CASE cmds' = cmds \o a \o b
    <3>1. Added(cmds')  BY <2>3, <2>4, AddedTwo
    <3>2. cmds' \in Seq(Commands)  BY DEF SafetyInv, Shapes
    <3>3. Len(cmds') \in Nat  BY <3>2
    <3> QED  BY <2>1, <3>1, <3>3, OrderQueued
  <2> QED  BY <1>1, <2>1, <2>2, <2>4, CancelsNothing
<1> QED  BY <1>3, <1>4, <1>5, OrderCommits, OrderDecodes DEF Reader

-----------------------------------------------------------------------------
\* The encoder takes the newest frame, or repeats what it took last.
LEMMA OrderSubmits ==
  ASSUME SafetyInv, OrderInv, NEW f \in Nat, NEW r, NEW l, Submit(f, r, l), encoder.late \subseteq l,
         Sent(f) \/ [frame |-> f, epoch |-> agent.epoch] \in l,
         \A i \in 1..Len(encoder.queue) : Current(i) => encoder.queue[i].frame <= f,
         UNCHANGED <<wire, cmds, slot, compositor, agent>>
  PROVE  OrderInv'
<1>1. PICK key \in BOOLEAN :
        encoder' = [queue |-> Append(encoder.queue, [frame |-> f, epoch |-> agent.epoch, key |-> key]),
                    consumed |-> f, repeats |-> r, idr |-> FALSE, tried |-> 0, late |-> l]
  BY DEF Submit
<1> DEFINE e == [frame |-> f, epoch |-> agent.epoch, key |-> key]
           q == encoder.queue
           p == Append(q, e)
<1>2. encoder'.queue = p /\ encoder'.consumed = f /\ encoder'.tried = 0 /\ encoder'.late = l  BY <1>1
<1>3. /\ agent.epoch \in Nat /\ agent.epoch >= 1 /\ q \in Seq(Encoded)
      /\ \A i \in 1..Len(q) : q[i].frame \in Nat
  BY OrderTypes
<1>4. e \in Encoded /\ e.frame = f /\ e.epoch = agent.epoch  BY <1>3 DEF Encoded
<1> HIDE DEF e
<1>5. Len(p) = Len(q) + 1 /\ Len(q) \in Nat /\ (\A i \in 1..Len(q) : p[i] = q[i]) /\ p[Len(q) + 1] = e
  BY <1>3, <1>4, AppendOf
<1> HIDE DEF p
<1>a. \A x : IsLate(x) => IsLate(x)'  BY <1>2 DEF IsLate
<1>6. SlotOrder' /\ WireOrder'
  BY <1>a DEF OrderInv, SlotOrder, WireOrder, Read, Shown, IsLate
<1>7. RepeatOrder'  BY <1>2, <1>3 DEF RepeatOrder
<1>8. \A i \in 1..Len(q) : Current(i)' <=> Current(i)  BY <1>2, <1>5 DEF Current
<1>9. QueueOrder'
  <2> SUFFICES ASSUME NEW i \in 1..Len(p), Current(i)', NEW x, x = p[i].frame
               PROVE  /\ ~([frame |-> x, epoch |-> p[i].epoch] \in l) => Sent(x)'
                      /\ x <= f
                      /\ \A j \in 1..(i - 1) : Current(j)' => p[j].frame <= x
    BY <1>2 DEF QueueOrder, Sent, Read, Shown, IsLate
  <2>0. Sent(x)' <=> Sent(x)  BY DEF Sent, Read, Shown
  <2>1. CASE i \in 1..Len(q)
    <3>1. x = q[i].frame /\ p[i] = q[i]  BY <1>5, <2>1
    <3>2. /\ ~([frame |-> x, epoch |-> p[i].epoch] \in encoder.late) => Sent(x)
          /\ x <= f
          /\ \A j \in 1..(i - 1) : Current(j) => q[j].frame <= x
      BY <1>8, <2>1, <3>1 DEF OrderInv, QueueOrder, IsLate
    <3>3. \A j \in 1..(i - 1) : j \in 1..Len(q)  BY <1>5, <2>1
    <3>4. \A j \in 1..(i - 1) : Current(j)' => p[j].frame <= x
      BY <1>5, <1>8, <3>2, <3>3
    <3> QED  BY <2>0, <3>2, <3>4
  <2>2. CASE i = Len(q) + 1
    <3>1. x = f /\ p[i].epoch = agent.epoch  BY <1>4, <1>5, <2>2
    <3>2. \A j \in 1..(i - 1) : Current(j)' => p[j].frame <= x
      <4> SUFFICES ASSUME NEW j \in 1..(i - 1), Current(j)' PROVE p[j].frame <= f
        BY <3>1
      <4>1. j \in 1..Len(q)  BY <1>5, <2>2
      <4> QED  BY <1>5, <1>8, <4>1
    <3> QED  BY <2>0, <3>1, <3>2
  <2> QED  BY <1>5, <2>1, <2>2
<1> QED  BY <1>6, <1>7, <1>9 DEF OrderInv

\* The worker's two visits of the gate keep the order within an epoch, and a
\* repeat that slips into the next one is counted as late.
LEMMA OrderEncoder ==
  ASSUME SafetyInv, OrderInv, EncoderSubmits \/ EncoderFindsNothing \/ EncoderRepeats
  PROVE  OrderInv'
<1>1. UNCHANGED <<wire, cmds, slot, compositor, agent>>
  BY DEF EncoderSubmits, EncoderFindsNothing, EncoderRepeats, agentVars, viewerVars
<1>2. /\ Len(shot) \in Nat /\ encoder.consumed \in Nat /\ agent.epoch \in Nat
      /\ encoder \in EncoderState
  BY OrderTypes, LoopTypes
<1>3. CASE EncoderSubmits
  <2>1. Submit(Len(shot), MaxRepeats, encoder.late)  BY <1>3 DEF EncoderSubmits
  <2>2. \A i \in 1..Len(encoder.queue) : encoder.queue[i].frame <= Len(shot)  BY OrderTypes
  <2> QED  BY <1>1, <1>2, <2>1, <2>2, NewestSent, OrderSubmits
<1>4. ASSUME encoder'.queue = encoder.queue, encoder'.consumed = encoder.consumed,
             encoder'.late = encoder.late,
             \/ encoder'.tried = 0
             \/ encoder'.tried = agent.epoch /\ encoder.consumed = Len(shot)
      PROVE  OrderInv'
  <2>1. SlotOrder' /\ WireOrder'
    BY <1>1, <1>4 DEF OrderInv, SlotOrder, WireOrder, Read, Shown, IsLate
  <2>2. QueueOrder'  BY <1>1, <1>4 DEF OrderInv, QueueOrder, Current, Sent, Read, Shown, IsLate
  <2>3. RepeatOrder'
    <3>1. agent.epoch >= 1  BY OrderTypes
    <3>2. encoder'.tried = agent.epoch => Sent(encoder.consumed)  BY <1>2, <1>4, <3>1, NewestSent
    <3> QED  BY <1>1, <1>2, <1>4, <3>1, <3>2 DEF RepeatOrder, Sent, Read, Shown
  <2> QED  BY <2>1, <2>2, <2>3 DEF OrderInv
<1>5. CASE EncoderFindsNothing
  BY <1>2, <1>4, <1>5 DEF EncoderFindsNothing
<1>6. CASE EncoderRepeats
  <2>1. CASE encoder' = [encoder EXCEPT !.tried = 0]  BY <1>2, <1>4, <2>1
  <2>2. CASE agent.mode = "video" /\ Submit(encoder.consumed, encoder.repeats - 1, LateRepeats)
    <3>0. encoder.late \subseteq LateRepeats  BY DEF LateRepeats
    <3>1. Sent(encoder.consumed) \/ [frame |-> encoder.consumed, epoch |-> agent.epoch] \in LateRepeats
      BY <2>2 DEF OrderInv, RepeatOrder, LateRepeats, Repeated
    <3>2. \A i \in 1..Len(encoder.queue) : Current(i) => encoder.queue[i].frame <= encoder.consumed
      BY DEF OrderInv, QueueOrder
    <3> QED  BY <1>1, <1>2, <2>2, <3>0, <3>1, <3>2, OrderSubmits
  <2> QED  BY <1>6, <2>1, <2>2 DEF EncoderRepeats
<1> QED  BY <1>3, <1>5, <1>6

\* The oldest frame leaves the queue,
LEMMA OrderDropsStale ==
  ASSUME SafetyInv, OrderInv, EncoderDropsStale
  PROVE  OrderInv'
<1> DEFINE q == encoder.queue
           p == encoder'.queue
<1>1. /\ q # <<>> /\ encoder' = [encoder EXCEPT !.queue = Tail(@)]
      /\ UNCHANGED <<shot, agent, wire, cmds, slot, compositor>>
  BY DEF EncoderDropsStale, sourceVars, agentVars, viewerVars
<1>2. /\ Len(q) \in Nat /\ Len(p) = Len(q) - 1
      /\ \A i \in 1..Len(p) : p[i] = q[i + 1] /\ i + 1 \in 1..Len(q) /\ (Current(i)' <=> Current(i + 1))
      /\ encoder'.consumed = encoder.consumed /\ encoder'.tried = encoder.tried
      /\ encoder'.late = encoder.late
  BY <1>1, QueueTail
<1>3. SlotOrder' /\ WireOrder' /\ RepeatOrder'
  BY <1>1, <1>2 DEF OrderInv, SlotOrder, WireOrder, RepeatOrder, Sent, Read, Shown, IsLate
<1>4. QueueOrder'
  <2> SUFFICES ASSUME NEW i \in 1..Len(p), Current(i)', NEW x, x = p[i].frame
               PROVE  /\ ~IsLate(q[i + 1]) => Sent(x)'
                      /\ x <= encoder.consumed
                      /\ \A j \in 1..(i - 1) : Current(j)' => p[j].frame <= x
    BY <1>2 DEF QueueOrder, Sent, Read, Shown, IsLate
  <2>1. x = q[i + 1].frame /\ i + 1 \in 1..Len(q) /\ Current(i + 1) /\ i \in Nat  BY <1>2
  <2>2. /\ ~IsLate(q[i + 1]) => Sent(x)
        /\ x <= encoder.consumed
        /\ \A j \in 1..(i + 1 - 1) : Current(j) => q[j].frame <= x
    BY <2>1 DEF OrderInv, QueueOrder
  <2>3. \A j \in 1..(i - 1) : j + 1 \in 1..(i + 1 - 1) /\ j \in 1..Len(p)  BY <1>2, <2>1
  <2>4. ~IsLate(q[i + 1]) => Sent(x)'  BY <1>1, <2>2 DEF Sent, Read, Shown
  <2>5. \A j \in 1..(i - 1) : Current(j)' => p[j].frame <= x  BY <1>2, <2>2, <2>3
  <2> QED  BY <2>2, <2>4, <2>5
<1> QED  BY <1>3, <1>4 DEF OrderInv

\* for the wire, if it is of the agent's epoch.
LEMMA OrderDelivers ==
  ASSUME SafetyInv, SafetyInv', OrderInv, AgentDeliversVideo
  PROVE  OrderInv'
<1> DEFINE q == encoder.queue
           p == encoder'.queue
           h == q[1]
<1>1. /\ q # <<>> /\ encoder' = [encoder EXCEPT !.queue = Tail(@)] /\ Head(q).epoch = agent.epoch
      /\ wire' = Append(wire, Video(Head(q).epoch, Head(q).frame, Head(q).key))
      /\ UNCHANGED <<shot, agent, cmds, slot, compositor>>
  BY DEF AgentDeliversVideo, sourceVars, agentVars, viewerVars
<1>2. /\ Len(q) \in Nat /\ Len(p) = Len(q) - 1 /\ Head(q) = h /\ 1 \in 1..Len(q)
      /\ \A i \in 1..Len(p) : p[i] = q[i + 1] /\ i + 1 \in 1..Len(q) /\ (Current(i)' <=> Current(i + 1))
      /\ encoder'.consumed = encoder.consumed /\ encoder'.tried = encoder.tried
      /\ encoder'.late = encoder.late
  BY <1>1, QueueTail
<1>3. h.frame \in Nat /\ Current(1)  BY <1>1, <1>2, OrderTypes DEF Current
<1>4. (~IsLate(h) => Sent(h.frame)) /\ h.frame <= encoder.consumed
  BY <1>2, <1>3 DEF OrderInv, QueueOrder
<1> DEFINE x0 == Video(h.epoch, h.frame, h.key)
<1>5. x0.type = "video" /\ x0.frame = h.frame /\ x0.epoch = h.epoch  BY DEF Video
<1>6. wire \in Seq(Messages) /\ Len(wire) \in Nat /\ wire' = Append(wire, x0)  BY <1>1, <1>2, OrderTypes
<1> HIDE DEF x0
<1>7. /\ Len(wire') = Len(wire) + 1 /\ wire'[Len(wire) + 1] = x0
      /\ \A i \in 1..Len(wire) : wire'[i] = wire[i]
  BY <1>6
<1>8. ASSUME NEW f \in Nat, Sent(f), h.frame <= f PROVE Sent(f)'
  <2>1. Read(f)'  BY <1>1, <1>8 DEF Sent, Read, Shown
  <2>2. \A i \in 1..Len(wire') : Carries(wire'[i]) => wire'[i].frame <= f
    <3> SUFFICES ASSUME NEW i \in 1..Len(wire'), Carries(wire'[i]) PROVE wire'[i].frame <= f  OBVIOUS
    <3>1. CASE i \in 1..Len(wire)  BY <1>7, <1>8, <3>1 DEF Sent
    <3>2. CASE i = Len(wire) + 1  BY <1>5, <1>7, <1>8, <3>2
    <3> QED  BY <1>6, <1>7, <3>1, <3>2
  <2> QED  BY <2>1, <2>2 DEF Sent, Carries
<1>9. SlotOrder'  BY <1>1, <1>2 DEF OrderInv, SlotOrder, Shown, IsLate
<1>10. WireOrder'
  <2> SUFFICES ASSUME NEW i \in 1..Len(wire'), wire'[i].type = "video", NEW x, x = wire'[i].frame,
                      ~([frame |-> x, epoch |-> wire'[i].epoch] \in encoder.late)
               PROVE  /\ Read(x)'
                      /\ \A j \in 1..(i - 1) : Carries(wire'[j]) => wire'[j].frame <= x
    BY <1>2 DEF WireOrder, Carries, Read, Shown, IsLate
  <2>0. Read(x) => Read(x)'  BY <1>1 DEF Read, Shown
  <2>1. CASE i \in 1..Len(wire)
    <3>1. x = wire[i].frame /\ wire[i].type = "video" /\ ~IsLate(wire[i])  BY <1>7, <2>1 DEF IsLate
    <3>2. /\ Read(x) /\ \A j \in 1..(i - 1) : Carries(wire[j]) => wire[j].frame <= x
      BY <2>1, <3>1 DEF OrderInv, WireOrder
    <3>3. \A j \in 1..(i - 1) : j \in 1..Len(wire)  BY <1>6, <2>1
    <3>4. \A j \in 1..(i - 1) : Carries(wire'[j]) => wire'[j].frame <= x  BY <1>7, <3>2, <3>3
    <3> QED  BY <2>0, <3>2, <3>4
  <2>2. CASE i = Len(wire) + 1
    <3>1. x = h.frame /\ ~IsLate(h)  BY <1>5, <1>7, <2>2 DEF IsLate
    <3>2. Read(x) /\ \A j \in 1..Len(wire) : Carries(wire[j]) => wire[j].frame <= x
      BY <1>4, <3>1 DEF Sent
    <3>3. \A j \in 1..(i - 1) : j \in 1..Len(wire)  BY <1>6, <2>2
    <3>4. \A j \in 1..(i - 1) : Carries(wire'[j]) => wire'[j].frame <= x  BY <1>7, <3>2, <3>3
    <3> QED  BY <2>0, <3>2, <3>4
  <2> QED  BY SMTT(60), <1>6, <1>7, <2>1, <2>2
<1>11. QueueOrder'
  <2> SUFFICES ASSUME NEW i \in 1..Len(p), Current(i)', NEW x, x = p[i].frame
               PROVE  /\ ~IsLate(q[i + 1]) => Sent(x)'
                      /\ x <= encoder.consumed
                      /\ \A j \in 1..(i - 1) : Current(j)' => p[j].frame <= x
    BY <1>2 DEF QueueOrder, Sent, Read, Shown, IsLate
  <2>1. x = q[i + 1].frame /\ i + 1 \in 1..Len(q) /\ Current(i + 1) /\ i \in Nat /\ i >= 1  BY <1>2
  <2>2. /\ ~IsLate(q[i + 1]) => Sent(x)
        /\ x <= encoder.consumed
        /\ \A j \in 1..(i + 1 - 1) : Current(j) => q[j].frame <= x
    BY <2>1 DEF OrderInv, QueueOrder
  <2>3. \A j \in 1..(i - 1) : j + 1 \in 1..(i + 1 - 1) /\ j \in 1..Len(p)  BY <1>2, <2>1
  <2>4. 1 \in 1..(i + 1 - 1) /\ x \in Nat
    BY SMTT(60), <2>1, OrderTypes
  <2>5. h.frame <= x  BY <1>3, <2>2, <2>4
  <2>6. ~IsLate(q[i + 1]) => Sent(x)'  BY <1>8, <2>2, <2>4, <2>5
  <2>7. \A j \in 1..(i - 1) : Current(j)' => p[j].frame <= x  BY <1>2, <2>2, <2>3
  <2> QED  BY <2>2, <2>6, <2>7
<1>12. RepeatOrder'
  <2>1. ASSUME agent.mode = "video", encoder.tried = agent.epoch, NEW x, x = encoder.consumed
        PROVE  Sent(x)'
    <3>1. Sent(x) /\ x \in Nat  BY <2>1, OrderTypes DEF OrderInv, RepeatOrder
    <3> QED  BY <1>4, <1>8, <2>1, <3>1
  <2> QED  BY <1>1, <1>2, <2>1 DEF OrderInv, RepeatOrder, Sent, Read, Shown
<1> QED  BY <1>9, <1>10, <1>11, <1>12 DEF OrderInv

\* The steps of the agent's loop add no frame of the video stream, and they
\* end the video or open an epoch in which nothing is encoded yet.
NoVideoSent ==
  /\ agent'.epoch >= agent.epoch /\ (agent'.mode = "video" => agent'.epoch > agent.epoch)
  /\ encoder'.queue = encoder.queue /\ encoder'.consumed = encoder.consumed
  /\ encoder'.tried = encoder.tried /\ encoder'.late = encoder.late
  /\ \A i \in 1..Len(wire) : wire'[i] = wire[i]
  /\ \A i \in 1..Len(wire') : wire'[i].type = "video" => i \in 1..Len(wire)

\* Such a step cannot break the order.
LEMMA OrderLoop ==
  ASSUME SafetyInv, SafetyInv', OrderInv, NoVideoSent, UNCHANGED <<cmds, slot, compositor>>
  PROVE  OrderInv'
<1>1. /\ agent.epoch \in Nat /\ agent'.epoch \in Nat /\ Len(wire) \in Nat /\ encoder.tried \in Nat
      /\ agent'.epoch >= agent.epoch /\ (agent'.mode = "video" => agent'.epoch > agent.epoch)
      /\ encoder'.queue = encoder.queue /\ encoder'.consumed = encoder.consumed
      /\ encoder'.tried = encoder.tried /\ encoder'.late = encoder.late
  <2>1. agent.epoch \in Nat /\ Len(wire) \in Nat /\ encoder.tried \in Nat  BY OrderTypes
  <2>2. agent' \in AgentState  BY DEF SafetyInv, Shapes
  <2>3. agent'.epoch \in Nat  BY <2>2 DEF AgentState
  <2> QED  BY <2>1, <2>3 DEF NoVideoSent
<1>2. SlotOrder'  BY <1>1 DEF OrderInv, SlotOrder, Shown, IsLate
<1>3. WireOrder'
  <2> SUFFICES ASSUME NEW i \in 1..Len(wire'), wire'[i].type = "video", NEW x, x = wire'[i].frame,
                      ~([frame |-> x, epoch |-> wire'[i].epoch] \in encoder.late)
               PROVE  /\ Read(x)'
                      /\ \A j \in 1..(i - 1) : Carries(wire'[j]) => wire'[j].frame <= x
    BY <1>1 DEF WireOrder, Carries, Read, Shown, IsLate
  <2>1. i \in 1..Len(wire)  BY DEF NoVideoSent
  <2>2. wire'[i] = wire[i]  BY <2>1 DEF NoVideoSent
  <2>3. Read(x) /\ \A j \in 1..(i - 1) : Carries(wire[j]) => wire[j].frame <= x
    BY <2>1, <2>2 DEF OrderInv, WireOrder, IsLate
  <2>4. \A j \in 1..(i - 1) : j \in 1..Len(wire)  BY <1>1, <2>1
  <2>5. \A j \in 1..(i - 1) : wire'[j] = wire[j]  BY <2>4 DEF NoVideoSent
  <2> QED  BY <2>3, <2>5 DEF Read, Shown
<1>4. QueueOrder'
  <2>1. \A i \in 1..Len(encoder'.queue) : ~Current(i)'
    <3> SUFFICES ASSUME NEW i \in 1..Len(encoder'.queue), Current(i)' PROVE FALSE  OBVIOUS
    <3>1. EncoderInv /\ EncoderInv'  BY DEF SafetyInv
    <3>2. agent'.mode = "video"  BY <3>1 DEF EncoderInv
    <3>3. encoder.queue[i].epoch \in 1..agent.epoch  BY <1>1, <3>1 DEF EncoderInv
    <3>4. encoder.queue[i].epoch = agent'.epoch  BY <1>1 DEF Current
    <3> QED  BY <1>1, <3>2, <3>3, <3>4
  <2> QED  BY <2>1 DEF QueueOrder
<1>5. RepeatOrder'
  <2>1. encoder.tried <= agent.epoch  BY DEF OrderInv, RepeatOrder
  <2>2. encoder'.tried <= agent'.epoch  BY <1>1, <2>1
  <2>3. agent'.mode = "video" => encoder'.tried # agent'.epoch  BY <1>1, <2>1
  <2> QED  BY <2>2, <2>3 DEF RepeatOrder
<1> QED  BY <1>2, <1>3, <1>4, <1>5 DEF OrderInv

\* One message, or two, none of them a frame of the video stream.
LEMMA OneSent ==
  ASSUME wire \in Seq(Messages), NEW x \in Messages, x.type # "video", wire' = Append(wire, x)
  PROVE  /\ \A i \in 1..Len(wire) : wire'[i] = wire[i]
         /\ \A i \in 1..Len(wire') : wire'[i].type = "video" => i \in 1..Len(wire)
<1>1. /\ Len(wire') = Len(wire) + 1 /\ wire'[Len(wire) + 1] = x /\ Len(wire) \in Nat
      /\ \A i \in 1..Len(wire) : wire'[i] = wire[i]
  OBVIOUS
<1>2. ASSUME NEW i \in 1..Len(wire'), wire'[i].type = "video" PROVE i \in 1..Len(wire)
  <2>1. i # Len(wire) + 1  BY <1>1, <1>2
  <2> QED  BY <1>1, <2>1
<1> QED  BY <1>1, <1>2

\* Two.
LEMMA TwoSent ==
  ASSUME wire \in Seq(Messages), NEW x \in Messages, NEW y \in Messages,
         x.type # "video", y.type # "video", wire' = wire \o <<x>> \o <<y>>
  PROVE  /\ \A i \in 1..Len(wire) : wire'[i] = wire[i]
         /\ \A i \in 1..Len(wire') : wire'[i].type = "video" => i \in 1..Len(wire)
<1> SUFFICES ASSUME NEW t, t = wire'
             PROVE  /\ \A i \in 1..Len(wire) : t[i] = wire[i]
                    /\ \A i \in 1..Len(t) : t[i].type = "video" => i \in 1..Len(wire)
  OBVIOUS
<1>0. t = wire \o <<x>> \o <<y>>  OBVIOUS
<1>1. /\ Len(t) = Len(wire) + 2 /\ Len(wire) \in Nat
      /\ t[Len(wire) + 1] = x /\ t[Len(wire) + 2] = y
      /\ \A i \in 1..Len(wire) : t[i] = wire[i]
  BY <1>0, TwoMore
<1>2. ASSUME NEW i \in 1..Len(t), t[i].type = "video" PROVE i \in 1..Len(wire)
  <2>1. i # Len(wire) + 1 /\ i # Len(wire) + 2  BY <1>1, <1>2
  <2> QED  BY <1>1, <2>1
<1> QED  BY <1>1, <1>2

\* The forced video opens a new epoch.
LEMMA ResumesOrdered == ASSUME SafetyInv, Resume PROVE NoVideoSent
<1>1. /\ agent' = Resumed(agent) /\ wire' = Append(wire, Reset(agent.epoch + 1))
      /\ encoder' = [encoder EXCEPT !.idr = @ \/ ~ExactOnly]
  BY DEF Resume
<1>2. /\ agent \in AgentState /\ agent.epoch \in Nat /\ wire \in Seq(Messages)
      /\ encoder \in EncoderState
  BY LoopTypes
<1>3. agent'.epoch = agent.epoch + 1  BY <1>1, <1>2 DEF Resumed, AgentState
<1>4. Reset(agent.epoch + 1) \in Messages /\ Reset(agent.epoch + 1).type # "video"
  BY <1>2, ResetType DEF Reset
<1>5. /\ \A i \in 1..Len(wire) : wire'[i] = wire[i]
      /\ \A i \in 1..Len(wire') : wire'[i].type = "video" => i \in 1..Len(wire)
  BY <1>1, <1>2, <1>4, OneSent
<1>6. /\ encoder'.queue = encoder.queue /\ encoder'.consumed = encoder.consumed
      /\ encoder'.tried = encoder.tried /\ encoder'.late = encoder.late
  BY <1>1, <1>2
<1> QED  BY <1>2, <1>3, <1>5, <1>6 DEF NoVideoSent

\* The exact base ends the snapshot and, with rectangles, its epoch.
LEMMA AgreesOrdered ==
  ASSUME SafetyInv, agent.mode = "awaiting_ack", AgreeOnSnapshot
  PROVE  NoVideoSent
<1> DEFINE next == IF RawRect THEN agent.snapEpoch + 1 ELSE agent.snapEpoch
<1>1. /\ agent' = [agent EXCEPT !.mode = "exact", !.epoch = next, !.rectEpoch = next,
                                !.exactFrame = agent.snapFrame, !.exactContent = agent.snapContent,
                                !.digest = SentDigest, !.base = agent.pending, !.pending = 0]
      /\ wire' = (IF RawRect THEN Append(wire, Reset(next)) ELSE wire)
      /\ UNCHANGED encoder
  BY DEF AgreeOnSnapshot
<1>2. /\ agent \in AgentState /\ agent.epoch \in Nat /\ agent.snapEpoch \in Nat /\ wire \in Seq(Messages)
  BY LoopTypes
<1>3. agent.snapEpoch = agent.epoch  BY DEF SafetyInv, Plan
<1>4. next \in Nat /\ next >= agent.epoch  BY <1>2, <1>3
<1> HIDE DEF next
<1>5. agent'.epoch = next /\ agent'.mode = "exact"  BY <1>1, <1>2 DEF AgentState
<1>6. Reset(next) \in Messages /\ Reset(next).type # "video"  BY <1>4, ResetType DEF Reset
<1>7. /\ \A i \in 1..Len(wire) : wire'[i] = wire[i]
      /\ \A i \in 1..Len(wire') : wire'[i].type = "video" => i \in 1..Len(wire)
  <2>1. CASE RawRect  BY <1>1, <1>2, <1>6, <2>1, OneSent
  <2>2. CASE ~RawRect  BY <1>1, <2>2
  <2> QED  BY <2>1, <2>2
<1> QED  BY <1>1, <1>4, <1>5, <1>7 DEF NoVideoSent

\* Video ends with a reset of a new epoch.
LEMMA QuiescesOrdered == ASSUME SafetyInv, AgentQuiesces PROVE NoVideoSent
<1>1. /\ agent' = [agent EXCEPT !.mode = "quiescing", !.epoch = @ + 1, !.snapEpoch = agent.epoch + 1]
      /\ wire' = Append(wire, Reset(agent.epoch + 1)) /\ UNCHANGED encoder
  BY DEF AgentQuiesces
<1>2. agent \in AgentState /\ agent.epoch \in Nat /\ wire \in Seq(Messages)  BY LoopTypes
<1>3. agent'.epoch = agent.epoch + 1  BY <1>1, <1>2 DEF AgentState
<1>4. Reset(agent.epoch + 1) \in Messages /\ Reset(agent.epoch + 1).type # "video"
  BY <1>2, ResetType DEF Reset
<1>5. /\ \A i \in 1..Len(wire) : wire'[i] = wire[i]
      /\ \A i \in 1..Len(wire') : wire'[i].type = "video" => i \in 1..Len(wire)
  BY <1>1, <1>2, <1>4, OneSent
<1> QED  BY <1>1, <1>2, <1>3, <1>5 DEF NoVideoSent

\* The chunks of a snapshot and its commit are no video,
LEMMA SendsOrdered == ASSUME SafetyInv, AgentSends PROVE NoVideoSent
<1> DEFINE last == agent.sent + 1 = Chunks
           x == Chunk(agent.snapEpoch, agent.snapFrame, agent.sent, shot[agent.snapFrame])
           y == Commit(agent.snapEpoch, agent.snapFrame, 0)
<1>1. /\ agent.mode = "sending"
      /\ \/ Resume
         \/ /\ agent' = [agent EXCEPT !.sent = @ + 1, !.mode = IF last THEN "awaiting_ack" ELSE "sending"]
            /\ wire' = wire \o <<x>> \o (IF last THEN <<y>> ELSE <<>>)
            /\ UNCHANGED encoder
  BY DEF AgentSends
<1>2. CASE Resume  BY <1>2, ResumesOrdered
<1>3. CASE /\ agent' = [agent EXCEPT !.sent = @ + 1, !.mode = IF last THEN "awaiting_ack" ELSE "sending"]
           /\ wire' = wire \o <<x>> \o (IF last THEN <<y>> ELSE <<>>)
           /\ UNCHANGED encoder
  <2>1. /\ agent \in AgentState /\ agent.epoch \in Nat /\ wire \in Seq(Messages)
        /\ agent.snapEpoch \in Nat /\ agent.sent \in Nat /\ agent.snapFrame \in Nat
    BY LoopTypes
  <2>2. agent.snapFrame \in 1..Len(shot) /\ shot \in Seq(Contents)
    BY <1>1 DEF SafetyInv, Plan, Shapes
  <2>3. x \in Messages /\ x.type # "video"
    <3>1. shot[agent.snapFrame] \in Contents  BY <2>2
    <3> QED  BY <2>1, <3>1 DEF Chunk, Messages
  <2>4. y \in Messages /\ y.type # "video"
    <3>1. 0 \in Nat  OBVIOUS
    <3> QED  BY <2>1, <3>1 DEF Commit, Messages
  <2> HIDE DEF x, y
  <2>5. agent'.epoch = agent.epoch /\ agent'.mode # "video"
    <3>1. CASE last  BY <1>3, <2>1, <3>1 DEF AgentState
    <3>2. CASE ~last  BY <1>3, <2>1, <3>2 DEF AgentState
    <3> QED  BY <3>1, <3>2
  <2>6. /\ \A i \in 1..Len(wire) : wire'[i] = wire[i]
        /\ \A i \in 1..Len(wire') : wire'[i].type = "video" => i \in 1..Len(wire)
    <3>1. CASE last
      <4>1. wire' = wire \o <<x>> \o <<y>>  BY <1>3, <3>1
      <4> QED  BY <2>1, <2>3, <2>4, <4>1, TwoSent
    <3>2. CASE ~last
      <4>1. wire' = wire \o <<x>> \o <<>>  BY <1>3, <3>2
      <4>2. wire \o <<x>> \o <<>> = Append(wire, x)  BY <2>1, <2>3
      <4> QED  BY <2>1, <2>3, <4>1, <4>2, OneSent
    <3> QED  BY <3>1, <3>2
  <2>7. UNCHANGED encoder /\ agent.epoch \in Nat  BY <1>3, <2>1
  <2> QED  BY <2>5, <2>6, <2>7 DEF NoVideoSent
<1> QED  BY <1>1, <1>2, <1>3

\* nor are a rectangle and its commit.
LEMMA SendsRectOrdered ==
  ASSUME SafetyInv, agent.mode = "exact", RawRect, RectReady(TRUE), SendRect
  PROVE  NoVideoSent
<1> DEFINE f == analyzed.frame
           x == Rect(agent.rectEpoch, f, agent.exactFrame, shot[agent.base], shot[f])
           y == Commit(agent.rectEpoch, f, agent.exactFrame)
<1>1. /\ agent' = [Considered EXCEPT !.mode = "awaiting_rect_ack", !.target = f,
                                     !.targetContent = analyzed.content, !.pending = f,
                                     !.rectDigest = RectDigest(agent.digest, f, shot[agent.base], shot[f])]
      /\ wire' = wire \o <<x, y>> /\ UNCHANGED encoder
  BY DEF SendRect
<1>2. /\ agent \in AgentState /\ agent.epoch \in Nat /\ wire \in Seq(Messages)
      /\ agent.rectEpoch \in Nat /\ agent.exactFrame \in Nat /\ analyzed.frame \in Nat
  BY LoopTypes
<1>3. agent.base = agent.exactFrame /\ shot[f] \in Contents /\ shot[agent.exactFrame] \in Contents
  BY RectFacts
<1>4. x \in Messages /\ x.type # "video" /\ y \in Messages /\ y.type # "video"
  BY <1>2, <1>3 DEF Rect, Commit, Messages
<1>5. agent'.epoch = agent.epoch /\ agent'.mode = "awaiting_rect_ack"
  BY <1>1, <1>2 DEF Considered, AgentState
<1> HIDE DEF x, y
<1>6. wire \o <<x, y>> = wire \o <<x>> \o <<y>>  BY <1>2, <1>4, PairAppended
<1>7. /\ \A i \in 1..Len(wire) : wire'[i] = wire[i]
      /\ \A i \in 1..Len(wire') : wire'[i].type = "video" => i \in 1..Len(wire)
  BY <1>1, <1>2, <1>4, <1>6, TwoSent
<1> QED  BY SMTT(60), <1>1, <1>2, <1>5, <1>7 DEF NoVideoSent

\* An answer, whether it is the one the loop waits for or not.
LEMMA AcksOrdered ==
  ASSUME SafetyInv, AgentAcks
  PROVE  \/ NoVideoSent
         \/ UNCHANGED <<agent, wire, encoder>>
         \/ UNCHANGED <<wire, encoder>> /\ agent'.epoch = agent.epoch /\ agent'.mode # "video"
<1>1. CASE Resume  BY <1>1, ResumesOrdered
<1>2. CASE SnapshotAcked /\ AgreeOnSnapshot
  BY <1>2, AgreesOrdered DEF SnapshotAcked
<1>3. CASE AgreeOnRect
  <2>1. agent \in AgentState  BY LoopTypes
  <2> QED  BY <1>3, <2>1 DEF AgreeOnRect, AgentState
<1>4. \/ Resume \/ (SnapshotAcked /\ AgreeOnSnapshot) \/ AgreeOnRect
      \/ UNCHANGED <<agent, wire, encoder>>
  BY DEF AgentAcks
<1> QED  BY <1>1, <1>2, <1>3, <1>4

\* The remaining steps of the loop that leave the stream alone.
LEMMA QuietStep ==
  ASSUME SafetyInv, UNCHANGED <<wire, encoder>>, agent'.epoch = agent.epoch,
         agent'.mode # "video"
  PROVE  NoVideoSent
<1>1. agent.epoch \in Nat  BY LoopTypes
<1> QED  BY <1>1 DEF NoVideoSent

\* The steps of the agent's loop.
LEMMA OrderAgent ==
  ASSUME SafetyInv, SafetyInv', OrderInv, Agent
  PROVE  OrderInv'
<1>1. UNCHANGED <<cmds, slot, compositor>>
  BY DEF Agent, AgentRecovers, AgentAcks, AgentAckTimesOut, AgentSends, AgentQuiesces, AgentUnquiet,
         AgentSnapshots, AgentRects, AgentSupersedes, ReceivesControl, viewerVars
<1>2. agent \in AgentState  BY LoopTypes
<1>3. CASE AgentRecovers \/ AgentAckTimesOut \/ AgentUnquiet
  <2>1. Resume  BY <1>3 DEF AgentRecovers, AgentAckTimesOut, AgentUnquiet
  <2> QED  BY <1>1, <2>1, ResumesOrdered, OrderLoop
<1>4. CASE AgentAcks
  <2>1. CASE UNCHANGED <<agent, wire, encoder>>  BY <1>1, <2>1, OrderSame
  <2>2. CASE UNCHANGED <<wire, encoder>> /\ agent'.epoch = agent.epoch /\ agent'.mode # "video"
    BY <1>1, <2>2, QuietStep, OrderLoop
  <2>3. CASE NoVideoSent  BY <1>1, <2>3, OrderLoop
  <2> QED  BY <1>4, <2>1, <2>2, <2>3, AcksOrdered
<1>5. CASE AgentSends  BY <1>1, <1>5, SendsOrdered, OrderLoop
<1>6. CASE AgentQuiesces  BY <1>1, <1>6, QuiescesOrdered, OrderLoop
<1>7. CASE AgentSnapshots
  <2>1. UNCHANGED <<wire, encoder>>  BY <1>7 DEF AgentSnapshots
  <2>2. CASE UNCHANGED agent  BY <1>1, <2>1, <2>2, OrderSame
  <2>3. CASE agent' = [agent EXCEPT !.mode = "sending", !.snapFrame = analyzed.frame,
                                    !.snapContent = analyzed.content, !.sent = 0,
                                    !.pending = analyzed.frame]
    <3>1. agent'.epoch = agent.epoch /\ agent'.mode # "video"  BY <1>2, <2>3 DEF AgentState
    <3> QED  BY <1>1, <2>1, <3>1, QuietStep, OrderLoop
  <2> QED  BY <1>7, <2>2, <2>3 DEF AgentSnapshots
<1>8. ASSUME agent' = Considered, UNCHANGED <<wire, encoder>>, agent.mode # "video" PROVE OrderInv'
  <2>1. agent'.epoch = agent.epoch /\ agent'.mode # "video"  BY <1>2, <1>8 DEF Considered, AgentState
  <2> QED  BY <1>1, <1>8, <2>1, QuietStep, OrderLoop
<1>9. CASE AgentRects
  <2>1. agent.mode = "exact"  BY <1>9 DEF AgentRects
  <2>2. \/ Resume
        \/ RawRect /\ RectReady(TRUE) /\ SendRect
        \/ agent' = Considered /\ UNCHANGED <<wire, encoder>>
    <3>1. CASE RawRect
      <4>1. PICK d \in Decisions(TRUE) : CASE d = "selected" -> SendRect
                                           [] d = "exceeded" -> Resume
                                           [] OTHER -> agent' = Considered /\ UNCHANGED <<wire, encoder>>
        BY <1>9, <3>1 DEF AgentRects
      <4>2. d = "selected" => RectReady(TRUE)  BY <4>1 DEF Decisions
      <4> QED  BY <3>1, <4>1, <4>2
    <3> QED  BY <1>9, <3>1 DEF AgentRects
  <2>3. CASE Resume  BY <1>1, <2>3, ResumesOrdered, OrderLoop
  <2>4. CASE RawRect /\ RectReady(TRUE) /\ SendRect
    BY <1>1, <2>1, <2>4, SendsRectOrdered, OrderLoop
  <2>5. CASE agent' = Considered /\ UNCHANGED <<wire, encoder>>  BY <1>8, <2>1, <2>5
  <2> QED  BY <2>2, <2>3, <2>4, <2>5
<1>10. CASE AgentSupersedes
  <2>1. Resume \/ (agent' = Considered /\ UNCHANGED <<wire, encoder>>)  BY <1>10 DEF AgentSupersedes
  <2>2. agent.mode # "video"  BY <1>10 DEF AgentSupersedes
  <2>3. CASE Resume  BY <1>1, <2>3, ResumesOrdered, OrderLoop
  <2> QED  BY <1>8, <2>1, <2>2, <2>3
<1>11. CASE ReceivesControl
  <2>1. UNCHANGED <<agent, wire, encoder>>  BY <1>11 DEF ReceivesControl
  <2> QED  BY <1>1, <2>1, OrderSame
<1> QED  BY <1>3, <1>4, <1>5, <1>6, <1>7, <1>9, <1>10, <1>11 DEF Agent

\* What is captured is newer than everything on its way.
LEMMA OrderSource == ASSUME SafetyInv, OrderInv, Source PROVE OrderInv'
<1>1. UNCHANGED <<encoder, wire, cmds, slot, compositor, agent.mode, agent.epoch>>
  <2>1. CASE (\E c \in Contents : Capture(c)) \/ Analyze \/ BecomesQuiet
    BY <2>1 DEF Capture, Analyze, BecomesQuiet, agentVars, viewerVars
  <2>2. CASE CooldownEnds
    <3>1. agent \in AgentState  BY LoopTypes
    <3>2. agent'.mode = agent.mode /\ agent'.epoch = agent.epoch  BY <2>2, <3>1 DEF CooldownEnds, AgentState
    <3> QED  BY <2>2, <3>2 DEF CooldownEnds, viewerVars
  <2> QED  BY <2>1, <2>2 DEF Source
<1> QED  BY <1>1, OrderSame

\* Every step keeps the order of the frames.
LEMMA OrderStep == SafetyInv /\ OrderInv /\ [Next]_vars => OrderInv'
<1> SUFFICES ASSUME SafetyInv, OrderInv, [Next]_vars PROVE OrderInv'  OBVIOUS
<1>1. SafetyInv'  BY StepInv
<1>2. CASE Source  BY <1>2, OrderSource
<1>3. CASE Encoder
  BY <1>1, <1>3, OrderEncoder, OrderDropsStale, OrderDelivers DEF Encoder
<1>4. CASE Agent  BY <1>1, <1>4, OrderAgent
<1>5. CASE Reader  BY <1>1, <1>5, OrderReaderSteps
<1>6. CASE Compositor  BY <1>6, OrderCompositorSteps
<1>7. CASE UNCHANGED vars  BY <1>7, OrderSame DEF vars
<1> QED  BY <1>2, <1>3, <1>4, <1>5, <1>6, <1>7 DEF Next

\* The order holds in every session.
LEMMA Order == Spec => []OrderInv
<1>1. Init => SafetyInv /\ OrderInv  BY InitInv, OrderInit
<1>2. SafetyInv /\ OrderInv /\ [Next]_vars => SafetyInv' /\ OrderInv'  BY StepInv, OrderStep
<1> QED  BY <1>1, <1>2, PTL DEF Spec

\* A frame the compositor is about to draw is older than the one it committed
\* only if the encoder worker repeated it in a later epoch than the one it
\* decided it in: no reset, snapshot, rectangle or dropped frame, and no other
\* timing of the two visits of the gate, turns the video back.
THEOREM VideoIsForward == Spec => []OnlyLateRepeatsRegress
<1>1. SafetyInv /\ OrderInv => OnlyLateRepeatsRegress
  BY OrderTypes DEF OrderInv, SlotOrder, Shown, OnlyLateRepeatsRegress
<1> QED  BY <1>1, Safety, Order, PTL

-----------------------------------------------------------------------------
(* What the compositor calls exact. *)

\* While every present succeeds, an exact surface is the frame it is said to
\* be, or an older one that a late repeat brought back on top of it.
CoveredBy(r) ==
  /\ r.frame \in 1..Len(shot) /\ r.frame < compositor.frame /\ r.epoch <= compositor.epoch
  /\ compositor.picture.content = shot[r.frame] /\ compositor.picture.lossy
Faithful ==
  compositor.quality = "exact" =>
    /\ compositor.frame \in 1..Len(shot)
    /\ budget.faults = 0 =>
         \/ compositor.picture.content = shot[compositor.frame] /\ ~compositor.picture.lossy
         \/ \E r \in encoder.late : CoveredBy(r)

\* The compositor never goes back to an older epoch.
EpochKept == /\ compositor.epoch \in Nat /\ compositor'.epoch \in Nat
             /\ compositor.epoch <= compositor'.epoch

\* Steps that leave what is shown, and count no failed present.
LEMMA FaithfulKept ==
  ASSUME SafetyInv, Faithful, Len(shot') \in Nat,
         \A i \in 1..Len(shot) : i \in 1..Len(shot') /\ shot'[i] = shot[i],
         compositor'.frame = compositor.frame, compositor'.quality = compositor.quality,
         compositor'.picture = compositor.picture, budget'.faults = budget.faults,
         encoder.late \subseteq encoder'.late, EpochKept
  PROVE  Faithful'
<1>1. ASSUME NEW r \in encoder.late, CoveredBy(r) PROVE r \in encoder'.late /\ CoveredBy(r)'
  <2>1. r.epoch \in Nat /\ r.frame \in Nat  BY DEF SafetyInv, Shapes
  <2>2. r.epoch <= compositor'.epoch  BY <1>1, <2>1 DEF CoveredBy, EpochKept
  <2> QED  BY <1>1, <2>1, <2>2 DEF CoveredBy
<1> QED  BY <1>1 DEF Faithful

\* What the worker counted as late stays counted.
LEMMA LateGrows == ASSUME SafetyInv, [Next]_vars PROVE encoder.late \subseteq encoder'.late
<1>1. encoder \in EncoderState  BY DEF SafetyInv, Shapes
<1>2. CASE UNCHANGED encoder  BY <1>2
<1>3. CASE Resume  BY <1>1, <1>3 DEF Resume
<1>4. CASE Source
  <2>1. UNCHANGED encoder
    BY <1>4 DEF Source, Capture, Analyze, BecomesQuiet, CooldownEnds
  <2> QED  BY <2>1
<1>5. CASE Encoder
  <2>1. CASE EncoderSubmits  BY <1>1, <2>1 DEF EncoderSubmits, Submit
  <2>2. CASE EncoderFindsNothing
    <3>1. encoder' = [encoder EXCEPT !.tried = agent.epoch]  BY <2>2 DEF EncoderFindsNothing
    <3>2. encoder'.late = encoder.late  BY <1>1, <3>1
    <3> QED  BY <3>2
  <2>3. CASE EncoderRepeats
    <3>1. CASE Submit(encoder.consumed, encoder.repeats - 1, LateRepeats)
      <4>1. encoder'.late = LateRepeats  BY <3>1 DEF Submit
      <4> QED  BY <4>1 DEF LateRepeats
    <3>2. CASE encoder' = [encoder EXCEPT !.tried = 0]
      <4>1. encoder'.late = encoder.late  BY <1>1, <3>2
      <4> QED  BY <4>1
    <3> QED  BY <2>3, <3>1, <3>2 DEF EncoderRepeats
  <2>4. CASE EncoderDropsStale \/ AgentDeliversVideo
    BY <1>1, <2>4 DEF EncoderDropsStale, AgentDeliversVideo
  <2> QED  BY <1>5, <2>1, <2>2, <2>3, <2>4 DEF Encoder
<1>6. CASE Agent
  <2>1. CASE AgentRecovers \/ AgentAckTimesOut \/ AgentUnquiet
    BY <1>3, <2>1 DEF AgentRecovers, AgentAckTimesOut, AgentUnquiet
  <2>2. CASE AgentAcks
    BY <1>2, <1>3, <2>2 DEF AgentAcks, AgreeOnSnapshot, AgreeOnRect
  <2>3. CASE AgentSends  BY <1>2, <1>3, <2>3 DEF AgentSends
  <2>4. CASE AgentQuiesces \/ AgentSnapshots \/ ReceivesControl
    BY <1>2, <2>4 DEF AgentQuiesces, AgentSnapshots, ReceivesControl
  <2>5. CASE AgentRects
    <3>1. UNCHANGED encoder \/ Resume
      <4>1. CASE RawRect
        <5>1. PICK d \in Decisions(TRUE) : CASE d = "selected" -> SendRect
                                             [] d = "exceeded" -> Resume
                                             [] OTHER -> agent' = Considered /\ UNCHANGED <<wire, encoder>>
          BY <2>5, <4>1 DEF AgentRects
        <5> QED  BY <5>1 DEF SendRect
      <4> QED  BY <2>5, <4>1 DEF AgentRects
    <3> QED  BY <1>2, <1>3, <3>1
  <2>6. CASE AgentSupersedes  BY <1>2, <1>3, <2>6 DEF AgentSupersedes
  <2> QED  BY <1>6, <2>1, <2>2, <2>3, <2>4, <2>5, <2>6 DEF Agent
<1>7. CASE Reader
  <2>1. UNCHANGED encoder
    BY <1>7 DEF Reader, ReaderResets, ReaderTakesRect, ReaderTakesChunk, ReaderCommits, ReaderDecodes
  <2> QED  BY <2>1
<1>8. CASE Compositor
  <2>1. UNCHANGED encoder
    BY <1>8 DEF Compositor, CompositorBegins, CompositorUploads, CompositorCommits, CompositorPatches,
                CompositorCancels, CompositorExpires, CompositorDraws
  <2> QED  BY <2>1
<1>9. CASE UNCHANGED vars  BY <1>9 DEF vars
<1> QED  BY <1>4, <1>5, <1>6, <1>7, <1>8, <1>9 DEF Next

\* A failed present is counted, and the frame that is said to be shown stays.
LEMMA FaithfulFails ==
  ASSUME SafetyInv, Faithful, PresentFails, UNCHANGED shot,
         compositor'.frame = compositor.frame, compositor'.quality = compositor.quality
  PROVE  Faithful'
<1>1. budget \in [repeats: Nat, timeouts: Nat, faults: Nat]  BY LoopTypes
<1>2. budget'.faults # 0  BY <1>1 DEF PresentFails
<1> QED  BY <1>2 DEF Faithful

\* A commit shows the whole snapshot of the frame it names.
LEMMA FaithfulCommits ==
  ASSUME SafetyInv, Faithful, CompositorCommits
  PROVE  Faithful'
<1>0. /\ cmds # <<>> /\ Head(cmds).kind = "commit" /\ cmds' = Tail(cmds) /\ UNCHANGED <<shot, agent, wire, reader>>
  BY DEF CompositorCommits, Runs, sourceVars, agentVars
<1>1. Shapes /\ UploadInv  BY DEF SafetyInv
<1>2. Head(cmds) = cmds[1] /\ CmdRight(cmds[1])  BY <1>0, Popped
<1> DEFINE m == cmds[1]
           parts == compositor.upload.parts
           idle == [compositor EXCEPT !.upload = Idle]
           swapped == Shows(idle, Whole(parts), FALSE)
<1>3. m.kind = "commit" /\ m.frame \in 1..Len(shot) /\ m.frame \in Nat  BY <1>0, <1>2 DEF CmdRight
<1>4. /\ idle \in CompositorState /\ idle.picture = compositor.picture
      /\ idle.frame = compositor.frame /\ idle.quality = compositor.quality
      /\ idle.epoch = compositor.epoch
  BY <1>1, CompositorType, UploadingType
<1>5. \/ compositor' = idle /\ budget' = budget
      \/ SnapshotAccepted(m) /\ compositor' = Exact(swapped, m.frame) /\ budget' = budget
      \/ SnapshotAccepted(m) /\ compositor' = swapped /\ PresentFails
  BY <1>2 DEF CompositorCommits
<1> HIDE DEF idle, swapped
<1>6. Len(shot) \in Nat /\ compositor.epoch \in Nat /\ UNCHANGED encoder
  BY <1>1, LoopTypes, CompositorType DEF CompositorCommits, CompositorState
<1>7. CASE compositor' = idle /\ budget' = budget
  BY <1>0, <1>4, <1>6, <1>7, FaithfulKept DEF EpochKept
<1>8. ASSUME SnapshotAccepted(m)
      PROVE  /\ swapped.picture.content = shot[m.frame] /\ ~swapped.picture.lossy
             /\ swapped.frame = compositor.frame /\ swapped.quality = compositor.quality
             /\ swapped \in CompositorState
  <2>1. compositor.upload.active /\ Len(parts) = Chunks /\ parts \in Seq(Contents)
    BY <1>1, <1>8, CompositorType DEF SnapshotAccepted
  <2>2. \A i \in 1..Len(parts) : parts[i] = shot[m.frame]
    BY <1>0, <1>1, <1>3, <2>1 DEF UploadInv
  <2>3. Whole(parts) = shot[m.frame] /\ shot[m.frame] \in Contents  BY <2>1, <2>2, WholeOf
  <2>4. Whole(parts) \in Contents \cup {None, Garbled} /\ FALSE \in BOOLEAN  BY <2>3
  <2> QED  BY <1>4, <2>3, <2>4, ShowsType DEF swapped
<1>9. CASE SnapshotAccepted(m) /\ compositor' = Exact(swapped, m.frame) /\ budget' = budget
  <2>1. Exact(swapped, m.frame).picture = swapped.picture /\ Exact(swapped, m.frame).frame = m.frame
    BY <1>3, <1>8, <1>9, ExactType
  <2> QED  BY <1>0, <1>3, <1>8, <1>9, <2>1 DEF Faithful
<1>10. CASE SnapshotAccepted(m) /\ compositor' = swapped /\ PresentFails
  BY <1>0, <1>8, <1>10, FaithfulFails
<1> QED  BY <1>5, <1>7, <1>9, <1>10

\* A rectangle turns its base into the frame it names.
LEMMA FaithfulPatches ==
  ASSUME SafetyInv, Faithful, CompositorPatches
  PROVE  Faithful'
<1>0. /\ cmds # <<>> /\ Head(cmds).kind = "rect" /\ cmds' = Tail(cmds) /\ UNCHANGED <<shot, agent, wire, reader>>
  BY DEF CompositorPatches, Runs, sourceVars, agentVars
<1>1. Shapes /\ RectAhead  BY DEF SafetyInv
<1>2. /\ cmds[1] \in Commands /\ Head(cmds) = cmds[1] /\ CmdRight(cmds[1]) /\ 1 \in 1..Len(cmds)
  <2>1. cmds \in Seq(Commands)  BY <1>1 DEF Shapes
  <2> QED  BY <1>0, <2>1, Popped, TailOf
<1> DEFINE m == cmds[1]
           entered == [Entered("rect", m.epoch) EXCEPT !.upload = IF RectAccepted(m) THEN @ ELSE Idle]
           drawn == Patch(compositor.picture.content, m.from, m.to)
           swapped == Shows(entered, drawn, compositor.picture.lossy)
           refused == [swapped EXCEPT !.upload = Idle]
<1>3. /\ m.kind = "rect" /\ m.epoch \in Nat /\ m.frame \in 1..Len(shot) /\ m.frame \in Nat
      /\ m.from = shot[m.base] /\ m.to = shot[m.frame] /\ m.to \in Contents
  BY <1>0, <1>2, CommandFields DEF CmdRight
<1>4. /\ compositor.picture.content = shot[m.base] /\ ~compositor.picture.lossy
      /\ compositor.frame = m.base
  BY <1>1, <1>2, <1>3 DEF RectAhead, AtBase
<1>5. drawn = shot[m.frame] /\ drawn \in Contents \cup {None, Garbled}
  BY <1>3, <1>4 DEF Patch
<1>6. /\ entered \in CompositorState /\ entered.frame = compositor.frame
      /\ entered.quality = compositor.quality /\ entered.picture = compositor.picture
      /\ entered.epoch \in Nat /\ entered.epoch >= compositor.epoch
  BY <1>1, <1>3, CompositorType, EnteredType, UploadingType
<1> HIDE DEF entered
<1>7. /\ swapped \in CompositorState /\ swapped.frame = compositor.frame
      /\ swapped.quality = compositor.quality
      /\ swapped.picture.content = shot[m.frame] /\ ~swapped.picture.lossy
  <2>1. compositor.picture.lossy \in BOOLEAN  BY <1>1, CompositorType
  <2> QED  BY <1>4, <1>5, <1>6, <2>1, ShowsType
<1> HIDE DEF swapped
<1>8. refused.frame = compositor.frame /\ refused.quality = compositor.quality
  BY <1>1, <1>7, CompositorType, UploadingType
<1>9. \/ compositor' = entered /\ budget' = budget
      \/ compositor' = Exact(swapped, m.frame) /\ budget' = budget
      \/ compositor' = refused /\ PresentFails
  BY <1>2 DEF CompositorPatches, entered, swapped
<1>10. Len(shot) \in Nat /\ compositor.epoch \in Nat /\ UNCHANGED encoder
  BY <1>1, LoopTypes, CompositorType DEF CompositorPatches, CompositorState
<1>11. CASE compositor' = entered /\ budget' = budget
  BY <1>0, <1>6, <1>10, <1>11, FaithfulKept DEF EpochKept
<1>12. CASE compositor' = Exact(swapped, m.frame) /\ budget' = budget
  <2>1. Exact(swapped, m.frame).picture = swapped.picture /\ Exact(swapped, m.frame).frame = m.frame
    BY <1>3, <1>7, ExactType
  <2> QED  BY <1>0, <1>3, <1>7, <1>12, <2>1 DEF Faithful
<1>13. CASE compositor' = refused /\ PresentFails
  BY <1>0, <1>8, <1>13, FaithfulFails
<1> QED  BY <1>9, <1>11, <1>12, <1>13

\* What is drawn is called lossy, unless it is older than what is shown: then
\* it is a late repeat, and covers what is called exact.
LEMMA FaithfulDraws ==
  ASSUME SafetyInv, OrderInv, Faithful, CompositorDraws
  PROVE  Faithful'
<1>0. slot # NoFrame /\ UNCHANGED <<shot, encoder>>  BY DEF CompositorDraws, sourceVars
<1>1. Shapes /\ Len(shot) \in Nat /\ compositor \in CompositorState /\ compositor.epoch \in Nat
  BY LoopTypes DEF SafetyInv, Shapes, CompositorState
<1>2. slot.epoch \in Nat /\ slot.frame \in 1..Len(shot) /\ shot[slot.frame] \in Contents
  <2>1. slot.frame \in 1..Len(shot)  BY <1>0 DEF SafetyInv, SlotInv
  <2>2. slot.epoch \in Nat /\ shot \in Seq(Contents)  BY <1>1 DEF Shapes, Encoded
  <2> QED  BY <2>1, <2>2
<1> DEFINE entered == IF Enters(slot) THEN Entered("video", slot.epoch) ELSE compositor
           swapped == Shows(entered, shot[slot.frame], TRUE)
           drawn == [swapped EXCEPT !.frame = slot.frame, !.quality = "lossy", !.lastVideo = slot.frame]
<1>3. /\ entered \in CompositorState /\ entered.frame = compositor.frame
      /\ entered.quality = compositor.quality /\ entered.picture = compositor.picture
      /\ entered.epoch \in Nat /\ entered.epoch >= compositor.epoch
  BY <1>1, <1>2, CompositorType, EnteredType
<1>d. Draws(slot) => entered.epoch = slot.epoch
  BY <1>1 DEF Draws, Enters, Entered, CompositorState
<1>4. \/ compositor' = entered /\ budget' = budget
      \/ compositor' = drawn
      \/ compositor' = swapped /\ PresentFails
      \/ compositor' = swapped /\ Draws(slot) /\ ~(slot.frame >= compositor.frame)
  BY DEF CompositorDraws
<1> HIDE DEF entered
<1>5. /\ swapped.frame = compositor.frame /\ swapped.quality = compositor.quality
      /\ swapped.epoch = entered.epoch
      /\ swapped.picture.content = shot[slot.frame] /\ swapped.picture.lossy
      /\ drawn.quality = "lossy"
  BY <1>3 DEF Shows, CompositorState, Picture
<1> HIDE DEF swapped, drawn
<1>6. CASE compositor' = entered /\ budget' = budget
  BY <1>0, <1>1, <1>3, <1>6, FaithfulKept DEF EpochKept
<1>7. CASE compositor' = drawn  BY <1>5, <1>7 DEF Faithful
<1>8. CASE compositor' = swapped /\ PresentFails  BY <1>0, <1>5, <1>8, FaithfulFails
<1>9. CASE compositor' = swapped /\ Draws(slot) /\ ~(slot.frame >= compositor.frame)
  <2>1. compositor.frame \in Nat /\ slot.frame \in Nat /\ slot.frame < compositor.frame
    BY <1>0, <1>9, OrderTypes
  <2>2. IsLate(slot)
    <3>1. ~(compositor.frame <= slot.frame)  BY <2>1
    <3> QED  BY <1>0, <3>1 DEF OrderInv, SlotOrder, Shown
  <2>3. PICK r \in encoder.late : r.frame = slot.frame /\ r.epoch = slot.epoch
    BY <2>2 DEF IsLate
  <2>4. /\ shot' = shot /\ compositor'.frame = compositor.frame /\ compositor'.epoch = r.epoch
        /\ compositor'.picture.content = shot[r.frame] /\ compositor'.picture.lossy
    BY <1>0, <1>3, <1>d, <1>5, <1>9, <2>3
  <2>5. r.frame \in 1..Len(shot) /\ r.frame < compositor.frame /\ r.epoch <= r.epoch
    BY <1>2, <2>1, <2>3
  <2>6. CoveredBy(r)'  BY <2>4, <2>5 DEF CoveredBy
  <2>7. compositor'.quality = compositor.quality /\ encoder' = encoder  BY <1>0, <1>3, <1>5, <1>9
  <2> QED  BY <2>3, <2>4, <2>6, <2>7 DEF Faithful
<1> QED  BY <1>4, <1>6, <1>7, <1>8, <1>9

\* An upload is not shown before its commit.
LEMMA FaithfulUploads ==
  ASSUME SafetyInv, Faithful,
         CompositorBegins \/ CompositorUploads \/ CompositorCancels \/ CompositorExpires
  PROVE  Faithful'
<1>1. compositor \in CompositorState /\ cmds \in Seq(Commands) /\ Len(shot) \in Nat
      /\ budget \in [repeats: Nat, timeouts: Nat, faults: Nat] /\ compositor.epoch \in Nat
  BY LoopTypes DEF SafetyInv, Shapes, CompositorState
<1>2. shot' = shot /\ budget'.faults = budget.faults /\ encoder' = encoder
  BY <1>1 DEF CompositorBegins, CompositorUploads, CompositorCancels, CompositorExpires,
              sourceVars, limitVars
<1>3. CASE CompositorBegins
  <2> DEFINE e == Entered("snapshot", Head(cmds).epoch)
             u == IF BeginAccepted(Head(cmds)) THEN [active |-> TRUE, parts |-> <<>>] ELSE Idle
  <2>1. compositor' = [e EXCEPT !.upload = u]  BY <1>3 DEF CompositorBegins
  <2>2. /\ e.frame = compositor.frame /\ e.quality = compositor.quality
        /\ e.picture = compositor.picture /\ DOMAIN e = DOMAIN compositor
        /\ e.epoch \in Nat /\ e.epoch >= compositor.epoch
    <3>1. cmds # <<>> /\ cmds' = Tail(cmds)  BY <1>3 DEF CompositorBegins, Runs
    <3>2. Head(cmds) \in Commands  BY <1>1, <3>1
    <3>3. Head(cmds).epoch \in Nat
      BY <1>3, <3>2, CommandFields DEF CompositorBegins, Runs
    <3>4. DOMAIN e = DOMAIN compositor  BY <1>1 DEF Entered, CompositorState
    <3> QED  BY <1>1, <3>3, <3>4, EnteredType
  <2> HIDE DEF e, u
  <2>3. /\ [e EXCEPT !.upload = u].frame = e.frame /\ [e EXCEPT !.upload = u].quality = e.quality
        /\ [e EXCEPT !.upload = u].picture = e.picture /\ [e EXCEPT !.upload = u].epoch = e.epoch
    BY <1>1, <2>2 DEF CompositorState
  <2> QED  BY <1>1, <1>2, <2>1, <2>2, <2>3, FaithfulKept DEF EpochKept
<1>4. CASE CompositorUploads \/ CompositorCancels \/ CompositorExpires
  <2>1. \E u : compositor' = [compositor EXCEPT !.upload = u]
    BY SMTT(60), <1>4 DEF CompositorUploads, CompositorCancels, CompositorExpires
  <2>2. /\ compositor'.frame = compositor.frame /\ compositor'.quality = compositor.quality
        /\ compositor'.picture = compositor.picture /\ compositor'.epoch = compositor.epoch
    BY <1>1, <2>1 DEF CompositorState
  <2> QED  BY <1>1, <1>2, <2>2, FaithfulKept DEF EpochKept
<1> QED  BY <1>3, <1>4

\* The other threads do not touch the surfaces.
LEMMA FaithfulElsewhere ==
  ASSUME SafetyInv, Faithful, Source \/ Encoder \/ Agent \/ Reader
  PROVE  Faithful'
<1>a. encoder.late \subseteq encoder'.late  BY LateGrows DEF Next
<1>b. compositor' = compositor => EpochKept
  <2>1. compositor.epoch \in Nat  BY DEF SafetyInv, Shapes, CompositorState
  <2> QED  BY <2>1 DEF EpochKept
<1>1. shot \in Seq(Contents) /\ Len(shot) \in Nat /\ budget \in [repeats: Nat, timeouts: Nat, faults: Nat]
  BY LoopTypes
<1>2. CASE \E c \in Contents : Capture(c)
  <2>1. PICK c \in Contents : Capture(c)  BY <1>2
  <2>2. shot' = Append(shot, c) /\ compositor' = compositor /\ budget' = budget
    BY <2>1 DEF Capture, viewerVars, limitVars
  <2>3. /\ Len(shot') \in Nat
        /\ \A i \in 1..Len(shot) : i \in 1..Len(shot') /\ shot'[i] = shot[i]
    BY <1>1, <2>2
  <2> QED  BY <1>a, <1>b, <2>2, <2>3, FaithfulKept
<1>3. CASE Analyze \/ BecomesQuiet \/ CooldownEnds
  <2>1. shot' = shot /\ compositor' = compositor /\ budget' = budget
    BY <1>3 DEF Analyze, BecomesQuiet, CooldownEnds, viewerVars, limitVars, sourceVars
  <2> QED  BY <1>1, <1>a, <1>b, <2>1, FaithfulKept
<1>4. CASE Encoder
  <2>1. shot' = shot /\ compositor' = compositor
    <3>1. CASE EncoderSubmits  BY <3>1 DEF EncoderSubmits, viewerVars, sourceVars
    <3>2. CASE EncoderFindsNothing  BY <3>2 DEF EncoderFindsNothing, viewerVars, sourceVars
    <3>3. CASE EncoderRepeats  BY <3>3 DEF EncoderRepeats, viewerVars, sourceVars
    <3>4. CASE EncoderDropsStale  BY <3>4 DEF EncoderDropsStale, viewerVars, sourceVars
    <3>5. CASE AgentDeliversVideo  BY <3>5 DEF AgentDeliversVideo, viewerVars, sourceVars
    <3> QED  BY Zenon, <1>4, <3>1, <3>2, <3>3, <3>4, <3>5 DEF Encoder
  <2>2. budget'.faults = budget.faults
    <3>1. CASE EncoderSubmits  BY <1>1, <3>1 DEF EncoderSubmits, limitVars
    <3>2. CASE EncoderFindsNothing  BY <1>1, <3>2 DEF EncoderFindsNothing, limitVars
    <3>3. CASE EncoderRepeats  BY <1>1, <3>3 DEF EncoderRepeats, limitVars
    <3>4. CASE EncoderDropsStale  BY <1>1, <3>4 DEF EncoderDropsStale, limitVars
    <3>5. CASE AgentDeliversVideo  BY <1>1, <3>5 DEF AgentDeliversVideo, limitVars
    <3> QED  BY Zenon, <1>4, <3>1, <3>2, <3>3, <3>4, <3>5 DEF Encoder
  <2> QED  BY <1>1, <1>a, <1>b, <2>1, <2>2, FaithfulKept
<1>5. CASE Agent
  <2>1. shot' = shot /\ compositor' = compositor
    <3>1. CASE AgentRecovers  BY <3>1 DEF AgentRecovers, viewerVars, sourceVars
    <3>2. CASE AgentAcks  BY <3>2 DEF AgentAcks, viewerVars, sourceVars
    <3>3. CASE AgentAckTimesOut  BY <3>3 DEF AgentAckTimesOut, viewerVars, sourceVars
    <3>4. CASE AgentSends  BY <3>4 DEF AgentSends, viewerVars, sourceVars
    <3>5. CASE AgentQuiesces  BY <3>5 DEF AgentQuiesces, viewerVars, sourceVars
    <3>6. CASE AgentUnquiet  BY <3>6 DEF AgentUnquiet, viewerVars, sourceVars
    <3>7. CASE AgentSnapshots  BY <3>7 DEF AgentSnapshots, viewerVars, sourceVars
    <3>8. CASE AgentRects  BY <3>8 DEF AgentRects, viewerVars, sourceVars
    <3>9. CASE AgentSupersedes  BY <3>9 DEF AgentSupersedes, viewerVars, sourceVars
    <3>10. CASE ReceivesControl  BY <3>10 DEF ReceivesControl, viewerVars, sourceVars
    <3> QED  BY Zenon, <1>5, <3>1, <3>2, <3>3, <3>4, <3>5, <3>6, <3>7, <3>8, <3>9, <3>10 DEF Agent
  <2>2. budget'.faults = budget.faults
    <3>1. CASE AgentRecovers  BY <1>1, <3>1 DEF AgentRecovers, limitVars
    <3>2. CASE AgentAcks  BY <1>1, <3>2 DEF AgentAcks, limitVars
    <3>3. CASE AgentAckTimesOut  BY <1>1, <3>3 DEF AgentAckTimesOut, limitVars
    <3>4. CASE AgentSends  BY <1>1, <3>4 DEF AgentSends, limitVars
    <3>5. CASE AgentQuiesces  BY <1>1, <3>5 DEF AgentQuiesces, limitVars
    <3>6. CASE AgentUnquiet  BY <1>1, <3>6 DEF AgentUnquiet, limitVars
    <3>7. CASE AgentSnapshots  BY <1>1, <3>7 DEF AgentSnapshots, limitVars
    <3>8. CASE AgentRects  BY <1>1, <3>8 DEF AgentRects, limitVars
    <3>9. CASE AgentSupersedes  BY <1>1, <3>9 DEF AgentSupersedes, limitVars
    <3>10. CASE ReceivesControl  BY <1>1, <3>10 DEF ReceivesControl, limitVars
    <3> QED  BY Zenon, <1>5, <3>1, <3>2, <3>3, <3>4, <3>5, <3>6, <3>7, <3>8, <3>9, <3>10 DEF Agent
  <2> QED  BY <1>1, <1>a, <1>b, <2>1, <2>2, FaithfulKept
<1>6. CASE Reader
  <2>1. shot' = shot /\ compositor' = compositor
    <3>1. CASE ReaderResets  BY <3>1 DEF ReaderResets, viewerVars, sourceVars
    <3>2. CASE ReaderTakesRect  BY <3>2 DEF ReaderTakesRect, viewerVars, sourceVars
    <3>3. CASE ReaderTakesChunk  BY <3>3 DEF ReaderTakesChunk, viewerVars, sourceVars
    <3>4. CASE ReaderCommits  BY <3>4 DEF ReaderCommits, viewerVars, sourceVars
    <3>5. CASE ReaderDecodes  BY <3>5 DEF ReaderDecodes, viewerVars, sourceVars
    <3> QED  BY Zenon, <1>6, <3>1, <3>2, <3>3, <3>4, <3>5 DEF Reader
  <2>2. budget'.faults = budget.faults
    <3>1. CASE ReaderResets  BY <1>1, <3>1 DEF ReaderResets, limitVars
    <3>2. CASE ReaderTakesRect  BY <1>1, <3>2 DEF ReaderTakesRect, limitVars
    <3>3. CASE ReaderTakesChunk  BY <1>1, <3>3 DEF ReaderTakesChunk, limitVars
    <3>4. CASE ReaderCommits  BY <1>1, <3>4 DEF ReaderCommits, limitVars
    <3>5. CASE ReaderDecodes  BY <1>1, <3>5 DEF ReaderDecodes, limitVars
    <3> QED  BY Zenon, <1>6, <3>1, <3>2, <3>3, <3>4, <3>5 DEF Reader
  <2> QED  BY <1>1, <1>a, <1>b, <2>1, <2>2, FaithfulKept
<1> QED  BY <1>2, <1>3, <1>4, <1>5, <1>6 DEF Source

\* Every step keeps exact what is called exact.
LEMMA FaithfulStep == SafetyInv /\ OrderInv /\ Faithful /\ [Next]_vars => Faithful'
<1> SUFFICES ASSUME SafetyInv, OrderInv, Faithful, [Next]_vars PROVE Faithful'  OBVIOUS
<1>1. CASE Source \/ Encoder \/ Agent \/ Reader  BY <1>1, FaithfulElsewhere
<1>2. CASE Compositor
  BY <1>2, FaithfulUploads, FaithfulCommits, FaithfulPatches, FaithfulDraws DEF Compositor
<1>3. CASE UNCHANGED vars  BY <1>3 DEF vars, Faithful, CoveredBy
<1> QED  BY <1>1, <1>2, <1>3 DEF Next

\* While no present has failed, the picture the compositor calls exact is the
\* captured frame it names, and nothing but a late repeat of an older frame is
\* ever on top of it.
THEOREM ExactIsShown == Spec => []ExactIsTheFrame
<1>1. Init => Faithful  BY DEF Init, Faithful
<1>2. SafetyInv /\ Faithful => ExactIsTheFrame
  <2> SUFFICES ASSUME SafetyInv, Faithful, compositor.quality = "exact", budget.faults = 0
               PROVE  \/ compositor.picture = [content |-> shot[compositor.frame], lossy |-> FALSE]
                      \/ \E r \in encoder.late :
                           /\ r.frame < compositor.frame /\ r.epoch <= compositor.epoch
                           /\ compositor.picture = [content |-> shot[r.frame], lossy |-> TRUE]
    BY DEF ExactIsTheFrame
  <2>1. compositor.picture \in Picture /\ compositor.picture.lossy \in BOOLEAN
    <3>1. compositor \in CompositorState  BY DEF SafetyInv, Shapes
    <3> QED  BY <3>1 DEF CompositorState, Picture
  <2>2. ASSUME NEW x, NEW l \in BOOLEAN, compositor.picture.content = x, compositor.picture.lossy = l
        PROVE  compositor.picture = [content |-> x, lossy |-> l]
    BY <2>1, <2>2 DEF Picture
  <2>3. CASE compositor.picture.content = shot[compositor.frame] /\ ~compositor.picture.lossy
    <3>1. compositor.picture.lossy = FALSE  BY <2>1, <2>3
    <3> QED  BY <2>2, <2>3, <3>1
  <2>4. CASE \E r \in encoder.late : CoveredBy(r)
    <3>1. PICK r \in encoder.late : CoveredBy(r)  BY <2>4
    <3>2. compositor.picture.lossy = TRUE  BY <2>1, <3>1 DEF CoveredBy
    <3>3. compositor.picture = [content |-> shot[r.frame], lossy |-> TRUE]
      BY <2>2, <3>1, <3>2 DEF CoveredBy
    <3> QED  BY <3>1, <3>3 DEF CoveredBy
  <2> QED  BY <2>3, <2>4 DEF Faithful
<1>3. SafetyInv /\ OrderInv /\ Faithful /\ [Next]_vars => Faithful'  BY FaithfulStep
<1> QED  BY <1>1, <1>2, <1>3, Safety, Order, PTL DEF Spec
=============================================================================
