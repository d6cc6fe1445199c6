------------------------- MODULE InputChannelProofs -------------------------
(***************************************************************************)
(* Proofs about the reverse control channel, for every set of controls,    *)
(* every queue limit and every bound: type correctness, the fence that     *)
(* keeps the agent's input worker from rejecting the viewer's stream, what *)
(* is held on the Mac once everything has been applied, and where an edge  *)
(* acts.                                                                   *)
(***************************************************************************)
EXTENDS InputChannel, SequenceTheorems, TLAPS

LEMMA LastTwo == \A n \in Nat: \A i \in 1..(n + 2): i \in 1..n \/ i = n + 1 \/ i = n + 2
OBVIOUS

LEMMA MessageType ==
  ASSUME TypeOK, NEW kind \in Kinds, NEW ctl \in Controls \cup {None},
         NEW pos \in Positions \cup {None}, NEW seq \in Nat,
         kind \in EdgeKinds => ctl \in Controls
  PROVE  /\ MakeMessage(kind, ctl, pos, seq) \in Message
         /\ MakeMessage(kind, ctl, pos, seq).epoch = epoch
         /\ MakeMessage(kind, ctl, pos, seq).order = nextOrder + 1
         /\ MakeMessage(kind, ctl, pos, seq).kind = kind
BY DEF MakeMessage, Message, Fields, TypeOK

LEMMA ReleaseAllType ==
  ASSUME TypeOK
  PROVE  /\ ReleaseAllMessage \in Message
         /\ ReleaseAllMessage.epoch = epoch
         /\ ReleaseAllMessage.order = nextOrder + 1
         /\ ReleaseAllMessage.kind = "releaseAll"
<1>1. "releaseAll" \in Kinds \ EdgeKinds  BY DEF Kinds, InputKinds, EdgeKinds
<1>2. motion \in Positions \cup {None}  BY DEF TypeOK
<1>3. QED  BY <1>1, <1>2, MessageType DEF ReleaseAllMessage

LEMMA QueuedType ==
  ASSUME TypeOK
  PROVE  /\ \A i \in DOMAIN reliable: /\ reliable[i] \in Message
                                     /\ reliable[i].epoch \in Nat /\ reliable[i].order \in Nat
         /\ pointer # None => /\ pointer \in Message
                               /\ pointer.epoch \in Nat /\ pointer.order \in Nat
         /\ \A i \in DOMAIN wire: /\ wire[i].num \in Nat /\ wire[i].msg \in Message
                                  /\ wire[i].msg.epoch \in Nat
         /\ LastEpoch \in Nat
<1>1. \A m \in Message: m.epoch \in Nat /\ m.order \in Nat  BY DEF Message, Fields
<1>2. \A i \in DOMAIN wire: wire[i] \in Packet  BY DEF TypeOK
<1>3. \A i \in DOMAIN wire: /\ wire[i].num \in Nat /\ wire[i].msg \in Message
                           /\ wire[i].msg.epoch \in Nat
  BY <1>1, <1>2 DEF Packet
<1>4. wire # <<>> => Len(wire) \in DOMAIN wire  BY DEF TypeOK
<1>5. LastEpoch \in Nat  BY <1>3, <1>4 DEF LastEpoch, TypeOK
<1>6. QED  BY <1>1, <1>3, <1>5 DEF TypeOK

LEMMA FreshType ==
  ASSUME TypeOK, NEW m \in Message
  PROVE  \E n \in Message: /\ FreshQueue(m) = <<n>>
                           /\ n.epoch = epoch + 1 /\ n.order = m.order /\ n.kind = m.kind
<1> DEFINE n == [m EXCEPT !.epoch = epoch + 1]
<1>1. m \in Fields /\ epoch + 1 \in Nat  BY DEF Message, TypeOK
<1>2. n \in Fields  BY <1>1 DEF Fields
<1>3. n.kind = m.kind /\ n.ctl = m.ctl /\ n.order = m.order /\ n.epoch = epoch + 1
  BY <1>1 DEF Fields
<1>4. n \in Message  BY <1>2, <1>3 DEF Message
<1>5. FreshQueue(m) = <<n>>  BY DEF FreshQueue
<1>6. QED  BY <1>3, <1>4, <1>5

LEMMA EnqueueType ==
  ASSUME TypeOK, NEW m \in Message, NEW consumed \in Nat, EnqueueReliable(m, consumed)
  PROVE  /\ reliable' \in Seq(Message) /\ pointer' \in Message \cup {None}
         /\ motion' \in Positions \cup {None}
         /\ nextOrder' \in Nat /\ nextReliable' \in Nat /\ nextPointer' \in Nat
         /\ epoch' \in Nat
<1>1. Barrier(m) \in Seq(Message)  BY DEF Barrier, Freezes, TypeOK
<1>2. reliable \o Barrier(m) \o <<m>> \in Seq(Message)
  <2>1. reliable \o Barrier(m) \in Seq(Message)  BY <1>1, ConcatProperties DEF TypeOK
  <2>2. <<m>> \in Seq(Message)  OBVIOUS
  <2>3. QED  BY <2>1, <2>2, ConcatProperties
<1>3. FreshQueue(m) \in Seq(Message)
  <2>1. PICK n \in Message: FreshQueue(m) = <<n>>  BY FreshType
  <2>2. QED  BY <2>1
<1>4. nextOrder + 1 \in Nat /\ epoch + 1 \in Nat  BY DEF TypeOK
<1>5. CASE Admitted(m)
  <2>1. reliable' = reliable \o Barrier(m) \o <<m>>
    BY <1>5, Zenon DEF EnqueueReliable, Overflows
  <2>2. reliable' \in Seq(Message)  BY <1>2, <2>1, Zenon
  <2>3. /\ pointer' = IF Freezes(m) THEN None ELSE pointer
        /\ nextReliable' = consumed /\ nextOrder' = nextOrder + 1
        /\ UNCHANGED <<nextPointer, epoch, motion>>
    BY <1>5, Zenon DEF EnqueueReliable, Overflows
  <2>4. QED  BY <1>4, <2>2, <2>3 DEF TypeOK
<1>6. CASE ~Admitted(m)
  BY <1>3, <1>4, <1>6 DEF EnqueueReliable, TypeOK
<1>7. QED  BY <1>5, <1>6

(***************************************************************************)
(* Type correctness.                                                       *)
(***************************************************************************)

LEMMA TypeInit == Init => TypeOK
<1> SUFFICES ASSUME Init PROVE TypeOK  OBVIOUS
<1>1. <<"acquired">> \in Seq({"acquired", "lost"})  OBVIOUS
<1>2. focusMsgs \in Seq({"acquired", "lost"})  BY <1>1 DEF Init
<1>3. reliable \in Seq(Message) /\ wire \in Seq(Packet)  BY DEF Init
<1>4. pointer \in Message \cup {None}  BY DEF Init
<1>5. QED  BY <1>2, <1>3, <1>4 DEF Init, TypeOK

LEMMA TypeStep == TypeOK /\ [Next]_vars => TypeOK'
<1> SUFFICES ASSUME TypeOK, [Next]_vars PROVE TypeOK'  OBVIOUS
<1> USE DEF userVars, queueVars, writerVars, agentVars
<1>1. ASSUME NEW c \in Controls, Edge(c) PROVE TypeOK'
  <2> DEFINE kind == IF c \in down THEN "release" ELSE "press"
  <2>1. kind \in Kinds  BY DEF Kinds, InputKinds, EdgeKinds
  <2>2. nextReliable + 1 \in Nat /\ motion \in Positions \cup {None}  BY DEF TypeOK
  <2>3. MakeMessage(kind, c, motion, nextReliable + 1) \in Message
    BY <2>1, <2>2, MessageType
  <2>4. CASE EdgeForwarded(c, kind)
    <3>1. /\ reliable' \in Seq(Message) /\ pointer' \in Message \cup {None}
          /\ motion' \in Positions \cup {None}
          /\ nextOrder' \in Nat /\ nextReliable' \in Nat /\ nextPointer' \in Nat
          /\ epoch' \in Nat
      BY <2>2, <2>3, <2>4, EnqueueType DEF EdgeForwarded
    <3>2. QED  BY <1>1, <3>1 DEF Edge, TypeOK
  <2>5. CASE UNCHANGED queueVars
    BY <1>1, <2>5 DEF Edge, TypeOK
  <2>6. QED  BY <1>1, <2>4, <2>5 DEF Edge
<1>2. ASSUME NEW p \in Positions, Move(p) PROVE TypeOK'
  <2>1. "move" \in Kinds \ EdgeKinds /\ None \in Controls \cup {None} /\ p \in Positions \cup {None}
    BY DEF Kinds, InputKinds, EdgeKinds
  <2>2. nextPointer + 1 \in Nat  BY DEF TypeOK
  <2>3. MakeMessage("move", None, p, nextPointer + 1) \in Message
    BY <2>1, <2>2, MessageType
  <2>4. QED  BY <1>2, <2>3 DEF Move, TypeOK
<1>3. CASE OtherControl
  <2>1. "other" \in Kinds \ EdgeKinds  BY DEF Kinds, InputKinds, EdgeKinds
  <2>2. MakeMessage("other", None, None, 0) \in Message  BY <2>1, MessageType
  <2>3. nextReliable \in Nat  BY DEF TypeOK
  <2>4. QED  BY <1>3, <2>2, <2>3, EnqueueType DEF OtherControl, TypeOK
<1>4. CASE ForegroundChanges  BY <1>4 DEF ForegroundChanges, TypeOK
<1>5. CASE FocusAcquired  BY <1>5 DEF FocusAcquired, TypeOK
<1>6. CASE FocusLost
  <2>1. nextReliable \in Nat  BY DEF TypeOK
  <2>t. focusMsgs' \in Seq({"acquired", "lost"}) /\ focused' \in BOOLEAN
    <3>1. focusMsgs # <<>> /\ focusMsgs' = Tail(focusMsgs) /\ focused' = FALSE
      BY <1>6, Zenon DEF FocusLost
    <3>2. focusMsgs \in Seq({"acquired", "lost"})  BY DEF TypeOK
    <3>3. QED  BY <3>1, <3>2, HeadTailProperties
  <2>2. CASE EnqueueReliable(ReleaseAllMessage, nextReliable)
    <3>1. /\ reliable' \in Seq(Message) /\ pointer' \in Message \cup {None}
          /\ motion' \in Positions \cup {None}
          /\ nextOrder' \in Nat /\ nextReliable' \in Nat /\ nextPointer' \in Nat
          /\ epoch' \in Nat
      BY <2>1, <2>2, ReleaseAllType, EnqueueType
    <3>2. QED  BY <1>6, <2>t, <3>1 DEF FocusLost, TypeOK
  <2>3. CASE UNCHANGED queueVars  BY <1>6, <2>t, <2>3 DEF FocusLost, TypeOK
  <2>4. QED  BY <1>6, <2>2, <2>3 DEF FocusLost
<1>7. CASE Stop  BY <1>7, ReleaseAllType DEF Stop, TypeOK
<1>8. CASE WriterSendsPointer
  <2>1. pointer \in Message  BY <1>8 DEF WriterSendsPointer, PointerFirst, TypeOK
  <2>2. [num |-> nextWire + 1, msg |-> pointer] \in Packet  BY <2>1 DEF Packet, TypeOK
  <2>3. QED  BY <1>8, <2>2 DEF WriterSendsPointer, Send, TypeOK
<1>9. CASE WriterSendsReliable
  <2>1. Head(reliable) \in Message /\ Tail(reliable) \in Seq(Message)
    BY <1>9 DEF WriterSendsReliable, TypeOK
  <2>2. [num |-> nextWire + 1, msg |-> Head(reliable)] \in Packet
    BY <2>1 DEF Packet, TypeOK
  <2>3. QED  BY <1>9, <2>1, <2>2 DEF WriterSendsReliable, Send, TypeOK
<1>10. CASE WriterCloses  BY <1>10 DEF WriterCloses, TypeOK
<1>11. CASE ConnectionFails  BY <1>11 DEF ConnectionFails, TypeOK
<1>12. CASE WorkerReceives
  <2>1. Head(wire) \in Packet /\ Tail(wire) \in Seq(Packet)
    BY <1>12 DEF WorkerReceives, TypeOK
  <2>2. Head(wire).num \in Nat /\ Head(wire).msg \in Message  BY <2>1 DEF Packet
  <2>3. ASSUME NEW why \in {"wireGap", "epochWithoutRelease"}, WorkerEnds(why) PROVE TypeOK'
    BY <1>12, <2>1, <2>3 DEF WorkerReceives, WorkerEnds, TypeOK
  <2>4. ASSUME lastWire' = Head(wire).num, Receive(Head(wire).msg) PROVE TypeOK'
    <3> DEFINE m == Head(wire).msg
    <3>1. /\ m.seq \in Nat /\ m.epoch \in Nat /\ m.pos \in Positions \cup {None}
          /\ m.kind \in EdgeKinds => Applied(m) \subseteq Controls
      BY <2>2 DEF Message, Fields, Applied, TypeOK
    <3>2. /\ inputEpoch' \in Nat /\ lastReliable' \in Nat /\ lastPointer' \in Nat
          /\ held' \subseteq Controls /\ remotePos' \in Positions \cup {None}
          /\ worker' \in {"running", "ended"}
          /\ fault' \in {"none", "inputGap", "wireGap", "epochWithoutRelease"}
      <4>1. CASE m.epoch = inputEpoch
        BY <2>4, <3>1, <4>1, SMTT(60)
           DEF Receive, InjectEdge, InjectMove, InjectReleaseAll, IgnoreOther, TypeOK
      <4>2. CASE m.epoch # inputEpoch
        BY <2>4, <3>1, <4>2 DEF Receive, EnterEpoch, TypeOK
      <4>3. QED  BY <4>1, <4>2
    <3>3. QED  BY <1>12, <2>1, <2>2, <2>4, <3>2 DEF WorkerReceives, TypeOK
  <2>5. QED  BY <1>12, <2>3, <2>4 DEF WorkerReceives
<1>13. CASE WorkerEof  BY <1>13 DEF WorkerEof, WorkerEnds, TypeOK
<1>14. CASE UNCHANGED vars  BY <1>14 DEF vars, TypeOK
<1>15. QED
  BY <1>1, <1>2, <1>3, <1>4, <1>5, <1>6, <1>7, <1>8, <1>9, <1>10, <1>11, <1>12, <1>13, <1>14
     DEF Next

\* Every reachable state is well typed, for every queue limit.
THEOREM TypeCorrect == Spec => []TypeOK
BY TypeInit, TypeStep, PTL DEF Spec

(***************************************************************************)
(* The fence.  FenceInv is inductive relative to TypeOK: what is queued    *)
(* carries the current epoch, the wire carries epochs that rise only at a  *)
(* release-all, and while the wire is behind the queue that release-all is *)
(* still the head of the queue, older than any pending motion.             *)
(***************************************************************************)

\* Any enqueueing thread leaves the fence closed, also when the queue overflows.
LEMMA EnqueueFence ==
  ASSUME TypeOK, QueueEpochs, FenceQueued,
         NEW m \in Message, NEW consumed \in Nat,
         m.epoch = epoch, m.order = nextOrder + 1,
         EnqueueReliable(m, consumed), UNCHANGED <<wire, inputEpoch, worker>>
  PROVE  QueueEpochs' /\ FenceQueued'
<1> USE DEF TypeOK
<1>1. LastEpoch' = LastEpoch  BY DEF LastEpoch
<1>2. nextOrder' = nextOrder + 1  BY DEF EnqueueReliable
<1>t. reliable' \in Seq(Message)  BY EnqueueType
<1>3. CASE Admitted(m)
  <2>1. /\ reliable' = reliable \o Barrier(m) \o <<m>>
        /\ pointer' = (IF Freezes(m) THEN None ELSE pointer)
        /\ epoch' = epoch
    BY <1>3, Zenon DEF EnqueueReliable, Overflows
  <2>2. CASE Freezes(m)
    <3>1. reliable' = (reliable \o <<pointer>>) \o <<m>> /\ pointer' = None /\ pointer # None
      BY <2>1, <2>2, Zenon DEF Barrier, Freezes
    <3>2. /\ Len(reliable') = Len(reliable) + 2
          /\ \A i \in 1..Len(reliable): reliable'[i] = reliable[i]
          /\ reliable'[Len(reliable) + 1] = pointer
          /\ reliable'[Len(reliable) + 2] = m
      BY <3>1
    <3>3. QueueEpochs'
      <4>1. ASSUME NEW i \in DOMAIN reliable'
            PROVE  reliable'[i].epoch = epoch' /\ reliable'[i].order <= nextOrder'
        <5>1. i \in 1..Len(reliable) \/ i = Len(reliable) + 1 \/ i = Len(reliable) + 2
          <6>1. DOMAIN reliable' = 1..(Len(reliable) + 2)  BY <1>t, <3>2
          <6>2. Len(reliable) \in Nat  OBVIOUS
          <6>3. i \in 1..(Len(reliable) + 2)  BY <6>1, <4>1
          <6>4. QED  BY <6>2, <6>3, LastTwo, Zenon
        <5>2. i \in 1..Len(reliable) => /\ reliable'[i].epoch = epoch
                                        /\ reliable'[i].order \in Nat
                                        /\ reliable'[i].order <= nextOrder
          <6>1. i \in 1..Len(reliable) => i \in DOMAIN reliable  OBVIOUS
          <6>2. QED  BY <3>2, <6>1, QueuedType DEF QueueEpochs
        <5>3. pointer.epoch = epoch /\ pointer.order \in Nat /\ pointer.order <= nextOrder
          BY <3>1, QueuedType DEF QueueEpochs
        <5>4. QED  BY <1>2, <2>1, <3>2, <5>1, <5>2, <5>3, SMTT(60)
      <4>2. QED  BY <3>1, <4>1 DEF QueueEpochs
    <3>4. reliable # <<>> => reliable' # <<>> /\ Head(reliable') = Head(reliable)
      BY <3>1, <3>2
    <3>5. QED  BY <1>1, <2>1, <3>1, <3>3, <3>4 DEF FenceQueued
  <2>3. CASE ~Freezes(m)
    <3>1. reliable' = Append(reliable, m) /\ pointer' = pointer
      BY <2>1, <2>3 DEF Barrier
    <3>2. QueueEpochs'
      <4>1. ASSUME NEW i \in DOMAIN reliable'
            PROVE  reliable'[i].epoch = epoch' /\ reliable'[i].order <= nextOrder'
        <5>1. CASE i \in DOMAIN reliable
          <6>1. reliable'[i] = reliable[i]  BY <3>1, <5>1
          <6>2. QED  BY <1>2, <2>1, <5>1, <6>1, QueuedType, SMTT(60) DEF QueueEpochs
        <5>2. CASE i \notin DOMAIN reliable
          <6>1. reliable'[i] = m  BY <3>1, <5>2
          <6>2. QED  BY <1>2, <2>1, <6>1, SMTT(60)
        <5>3. QED  BY <5>1, <5>2
      <4>2. pointer' # None => pointer'.epoch = epoch' /\ pointer'.order <= nextOrder'
        BY <1>2, <2>1, <3>1, QueuedType DEF QueueEpochs
      <4>3. QED  BY <4>1, <4>2 DEF QueueEpochs
    <3>3. reliable # <<>> => reliable' # <<>> /\ Head(reliable') = Head(reliable)
      BY <3>1
    <3>4. QED  BY <1>1, <2>1, <3>1, <3>2, <3>3 DEF FenceQueued
  <2>4. QED  BY <2>2, <2>3
<1>4. CASE Overflows(m)
  <2>1. epoch' = epoch + 1 /\ reliable' = FreshQueue(m) /\ pointer' = None
    BY <1>4, Zenon DEF EnqueueReliable, Overflows
  <2>2. m.kind = "releaseAll"  BY <1>4 DEF Overflows
  <2>3. PICK n \in Message: /\ FreshQueue(m) = <<n>>
                             /\ n.epoch = epoch + 1 /\ n.order = m.order /\ n.kind = m.kind
    BY FreshType
  <2>4. reliable' = <<n>>  BY <2>1, <2>3
  <2>5. /\ reliable' # <<>> /\ Head(reliable') = n
        /\ \A i \in DOMAIN reliable': reliable'[i] = n
    BY <2>4
  <2>6. nextOrder' <= nextOrder'  BY <1>2
  <2>7. QueueEpochs'  BY <1>2, <2>1, <2>3, <2>5, <2>6 DEF QueueEpochs
  <2>8. worker = "running" => LastEpoch <= epoch  BY QueuedType DEF FenceQueued
  <2>9. worker = "running" => LastEpoch' < epoch'  BY <1>1, <2>1, <2>8, QueuedType
  <2>10. QED  BY <2>1, <2>2, <2>3, <2>5, <2>7, <2>9 DEF FenceQueued
<1>5. CASE ~Admitted(m) /\ ~Overflows(m)
  <2>1. UNCHANGED <<reliable, pointer, epoch>>  BY <1>5, Zenon DEF EnqueueReliable
  <2>2. QED  BY <1>1, <1>2, <2>1, SMTT(60) DEF QueueEpochs, FenceQueued, Message, Fields
<1>6. QED  BY <1>3, <1>4, <1>5 DEF Overflows

\* What the writer puts on the wire continues its numbering and its epochs.
LEMMA SendFence ==
  ASSUME TypeOK, WireNumbered, WireEpochs, NEW m \in Message,
         Rises(LastEpoch, m), Send(m), UNCHANGED <<lastWire, inputEpoch, worker>>
  PROVE  /\ WireNumbered' /\ WireEpochs'
         /\ LastEpoch' = m.epoch
<1> DEFINE p == [num |-> nextWire + 1, msg |-> m]
<1> USE DEF TypeOK
<1>1. nextWire' = nextWire + 1 /\ wire' = Append(wire, p)  BY DEF Send
<1>2. p.num = nextWire + 1 /\ p.msg = m  OBVIOUS
<1> HIDE DEF p
<1>3. /\ Len(wire') = Len(wire) + 1 /\ DOMAIN wire' = 1..(Len(wire) + 1) /\ wire' # <<>>
      /\ wire'[Len(wire) + 1] = p
      /\ \A i \in DOMAIN wire: wire'[i] = wire[i]
  BY <1>1, SMTT(60)
<1>4. LastEpoch' = m.epoch  BY <1>2, <1>3 DEF LastEpoch
<1>5. ASSUME worker' = "running" PROVE WireNumbered'
  <2>1. nextWire = lastWire + Len(wire) /\ \A i \in DOMAIN wire: wire[i].num = lastWire + i
    BY <1>5 DEF WireNumbered
  <2>2. nextWire' = lastWire' + Len(wire')  BY <1>1, <1>3, <2>1
  <2>3. ASSUME NEW i \in DOMAIN wire' PROVE wire'[i].num = lastWire' + i
    <3>1. CASE i \in DOMAIN wire  BY <1>3, <2>1, <3>1
    <3>2. CASE i \notin DOMAIN wire
      <4>1. i = Len(wire) + 1  BY <1>3, <3>2
      <4>2. QED  BY <1>2, <1>3, <2>1, <4>1
    <3>3. QED  BY <3>1, <3>2
  <2>4. QED  BY <2>2, <2>3 DEF WireNumbered
<1>6. ASSUME worker' = "running" PROVE WireEpochs'
  <2>1. /\ wire # <<>> => Rises(inputEpoch, wire[1].msg)
        /\ \A i \in DOMAIN wire: i > 1 => Rises(wire[i - 1].msg.epoch, wire[i].msg)
    BY <1>6 DEF WireEpochs
  <2>2. Rises(inputEpoch', wire'[1].msg)
    <3>1. CASE wire = <<>>  BY <1>2, <1>3, <3>1 DEF LastEpoch
    <3>2. CASE wire # <<>>  BY <1>3, <2>1, <3>2
    <3>3. QED  BY <3>1, <3>2
  <2>3. ASSUME NEW i \in DOMAIN wire', i > 1 PROVE Rises(wire'[i - 1].msg.epoch, wire'[i].msg)
    <3>1. CASE i \in DOMAIN wire
      <4>1. i - 1 \in DOMAIN wire  BY <2>3, <3>1
      <4>2. QED  BY <1>3, <2>1, <2>3, <3>1, <4>1
    <3>2. CASE i \notin DOMAIN wire
      <4>1. i = Len(wire) + 1 /\ wire # <<>> /\ i - 1 = Len(wire) /\ i - 1 \in DOMAIN wire
        BY <1>3, <2>3, <3>2
      <4>2. LastEpoch = wire[i - 1].msg.epoch  BY <4>1 DEF LastEpoch
      <4>3. QED  BY <1>2, <1>3, <4>1, <4>2
    <3>3. QED  BY <3>1, <3>2
  <2>4. QED  BY <2>2, <2>3 DEF WireEpochs
<1>7. QED  BY <1>4, <1>5, <1>6 DEF WireNumbered, WireEpochs

LEMMA FenceInit == Init => FenceInv
BY DEF Init, FenceInv, QueueEpochs, WireNumbered, WireEpochs, FenceQueued, EpochFenced, LastEpoch

LEMMA FenceStep == TypeOK /\ FenceInv /\ [Next]_vars => FenceInv'
<1> SUFFICES ASSUME TypeOK, FenceInv, [Next]_vars PROVE FenceInv'  OBVIOUS
<1> USE DEF FenceInv, userVars, queueVars, writerVars, agentVars
<1>q. ASSUME UNCHANGED <<reliable, pointer, nextOrder, epoch>>  PROVE QueueEpochs'
  BY <1>q DEF QueueEpochs
<1>w. ASSUME UNCHANGED <<wire, nextWire, lastWire, inputEpoch, worker, fault>>
      PROVE  WireNumbered' /\ WireEpochs' /\ EpochFenced'
  BY <1>w DEF WireNumbered, WireEpochs, EpochFenced, Rises
<1>f. ASSUME UNCHANGED <<reliable, pointer, epoch, wire, inputEpoch, worker>>
      PROVE  FenceQueued'
  BY <1>f DEF FenceQueued, LastEpoch
<1>1. ASSUME NEW c \in Controls, Edge(c) PROVE FenceInv'
  <2> DEFINE kind == IF c \in down THEN "release" ELSE "press"
             m == MakeMessage(kind, c, motion, nextReliable + 1)
  <2>1. WireNumbered' /\ WireEpochs' /\ EpochFenced'  BY <1>1, <1>w DEF Edge
  <2>2. CASE EdgeForwarded(c, kind)
    <3>1. kind \in Kinds  BY DEF Kinds, InputKinds, EdgeKinds
    <3>2. nextReliable + 1 \in Nat /\ motion \in Positions \cup {None}  BY DEF TypeOK
    <3>3. m \in Message /\ m.epoch = epoch /\ m.order = nextOrder + 1
      BY <3>1, <3>2, MessageType
    <3>4. EnqueueReliable(m, nextReliable + 1)  BY <2>2 DEF EdgeForwarded
    <3>5. UNCHANGED <<wire, inputEpoch, worker>>  BY <1>1 DEF Edge
    <3> HIDE DEF m
    <3>6. QED  BY <2>1, <3>2, <3>3, <3>4, <3>5, EnqueueFence
  <2>3. CASE UNCHANGED queueVars  BY <1>1, <2>1, <2>3, <1>q, <1>f DEF Edge
  <2>4. QED  BY <1>1, <2>2, <2>3 DEF Edge
<1>2. ASSUME NEW p \in Positions, Move(p) PROVE FenceInv'
  <2> DEFINE m == MakeMessage("move", None, p, nextPointer + 1)
  <2>1. "move" \in Kinds \ EdgeKinds /\ nextPointer + 1 \in Nat
    BY DEF Kinds, InputKinds, EdgeKinds, TypeOK
  <2>2. m \in Message /\ m.epoch = epoch /\ m.order = nextOrder + 1  BY <2>1, MessageType
  <2>3. /\ pointer' = m /\ nextOrder' = nextOrder + 1
        /\ UNCHANGED <<reliable, epoch, wire, nextWire, lastWire, inputEpoch, worker, fault>>
    BY <1>2 DEF Move
  <2> HIDE DEF m
  <2>4. WireNumbered' /\ WireEpochs' /\ EpochFenced'  BY <2>3, <1>w
  <2>5. QueueEpochs'
    <3>1. \A i \in DOMAIN reliable: reliable[i].order <= nextOrder + 1
      BY QueuedType DEF QueueEpochs, TypeOK
    <3>2. m.order <= nextOrder'  BY <2>2, <2>3 DEF TypeOK
    <3>3. QED  BY <2>2, <2>3, <3>1, <3>2 DEF QueueEpochs
  <2>6. FenceQueued'
    <3>1. LastEpoch' = LastEpoch  BY <2>3 DEF LastEpoch
    <3>2. reliable # <<>> => Head(reliable).order <= nextOrder /\ Head(reliable).order \in Nat
      <4>1. reliable # <<>> => 1 \in DOMAIN reliable /\ Head(reliable) = reliable[1]
        BY DEF TypeOK
      <4>2. QED  BY <4>1, QueuedType DEF QueueEpochs
    <3>3. reliable # <<>> => Head(reliable).order < m.order  BY <2>2, <3>2 DEF TypeOK
    <3>4. QED  BY <2>3, <3>1, <3>3 DEF FenceQueued
  <2>7. QED  BY <2>4, <2>5, <2>6
<1>3. CASE OtherControl
  <2> DEFINE m == MakeMessage("other", None, None, 0)
  <2>1. "other" \in Kinds \ EdgeKinds /\ nextReliable \in Nat
    BY DEF Kinds, InputKinds, EdgeKinds, TypeOK
  <2>2. m \in Message /\ m.epoch = epoch /\ m.order = nextOrder + 1  BY <2>1, MessageType
  <2>3. WireNumbered' /\ WireEpochs' /\ EpochFenced'  BY <1>3, <1>w DEF OtherControl
  <2>4. EnqueueReliable(m, nextReliable) /\ UNCHANGED <<wire, inputEpoch, worker>>
    BY <1>3 DEF OtherControl
  <2> HIDE DEF m
  <2>5. QED  BY <2>1, <2>2, <2>3, <2>4, EnqueueFence
<1>4. CASE ForegroundChanges  BY <1>4, <1>q, <1>w, <1>f DEF ForegroundChanges
<1>5. CASE FocusAcquired  BY <1>5, <1>q, <1>w, <1>f DEF FocusAcquired
<1>6. CASE FocusLost
  <2>1. WireNumbered' /\ WireEpochs' /\ EpochFenced'  BY <1>6, <1>w DEF FocusLost
  <2>2. CASE EnqueueReliable(ReleaseAllMessage, nextReliable)
    <3>1. UNCHANGED <<wire, inputEpoch, worker>> /\ nextReliable \in Nat
      BY <1>6 DEF FocusLost, TypeOK
    <3>2. QED  BY <2>1, <2>2, <3>1, ReleaseAllType, EnqueueFence
  <2>3. CASE UNCHANGED queueVars  BY <1>6, <2>1, <2>3, <1>q, <1>f DEF FocusLost
  <2>4. QED  BY <1>6, <2>2, <2>3 DEF FocusLost
<1>7. CASE Stop
  <2> DEFINE m == ReleaseAllMessage
  <2>1. m \in Message /\ m.epoch = epoch /\ m.order = nextOrder + 1 /\ m.kind = "releaseAll"
    BY ReleaseAllType
  <2>2. /\ reliable' = Append(reliable, m) /\ nextOrder' = nextOrder + 1
        /\ UNCHANGED <<pointer, epoch, wire, nextWire, lastWire, inputEpoch, worker, fault>>
    BY <1>7 DEF Stop
  <2> HIDE DEF m
  <2>3. WireNumbered' /\ WireEpochs' /\ EpochFenced'  BY <2>2, <1>w
  <2>4. QueueEpochs'
    <3>1. ASSUME NEW i \in DOMAIN reliable'
          PROVE  reliable'[i].epoch = epoch' /\ reliable'[i].order <= nextOrder'
      <4>1. CASE i \in DOMAIN reliable
        <5>1. reliable'[i] = reliable[i]  BY <2>2, <4>1 DEF TypeOK
        <5>2. QED  BY <2>2, <4>1, <5>1, QueuedType DEF QueueEpochs, TypeOK
      <4>2. CASE i \notin DOMAIN reliable
        <5>1. reliable'[i] = m  BY <2>2, <4>2 DEF TypeOK
        <5>2. QED  BY <2>1, <2>2, <5>1 DEF TypeOK
      <4>3. QED  BY <4>1, <4>2
    <3>2. pointer' # None => pointer'.epoch = epoch' /\ pointer'.order <= nextOrder'
      BY <2>2, QueuedType DEF QueueEpochs, TypeOK
    <3>3. QED  BY <3>1, <3>2 DEF QueueEpochs
  <2>5. FenceQueued'
    <3>1. LastEpoch' = LastEpoch  BY <2>2 DEF LastEpoch
    <3>2. reliable # <<>> => reliable' # <<>> /\ Head(reliable') = Head(reliable)
      BY <2>1, <2>2 DEF TypeOK
    <3>3. QED  BY <2>2, <3>1, <3>2 DEF FenceQueued
  <2>6. QED  BY <2>3, <2>4, <2>5
<1>8. CASE WriterSendsPointer
  <2>1. /\ pointer # None
        /\ reliable # <<>> => pointer.order < Head(reliable).order
        /\ Send(pointer) /\ pointer' = None
        /\ UNCHANGED <<reliable, nextOrder, epoch, lastWire, inputEpoch, worker, fault>>
    BY <1>8 DEF WriterSendsPointer, PointerFirst
  <2>2. pointer \in Message /\ pointer.epoch = epoch /\ pointer.order \in Nat
    <3>1. pointer # None  BY <2>1
    <3>2. QED  BY <3>1, QueuedType, Zenon DEF QueueEpochs, FenceInv
  <2>3. ASSUME worker = "running" PROVE LastEpoch = epoch
    <3>1. reliable # <<>> => Head(reliable).order \in Nat
      <4>1. reliable # <<>> => 1 \in DOMAIN reliable /\ Head(reliable) = reliable[1]
        BY DEF TypeOK
      <4>2. QED  BY <4>1, QueuedType
    <3>2. CASE LastEpoch = epoch  BY <3>2
    <3>3. CASE LastEpoch # epoch
      <4>1. reliable # <<>> /\ Head(reliable).order < pointer.order
        BY <2>1, <2>3, <3>3, Zenon DEF FenceQueued, FenceInv
      <4>2. pointer.order < Head(reliable).order  BY <2>1, <4>1
      <4>3. QED  BY <2>2, <3>1, <4>1, <4>2
    <3>4. QED  BY <3>2, <3>3
  <2>4. QueueEpochs'  BY <2>1 DEF QueueEpochs
  <2>5. CASE worker = "running"
    <3>1. Rises(LastEpoch, pointer)  BY <2>2, <2>3, <2>5 DEF Rises
    <3>2. WireNumbered' /\ WireEpochs' /\ LastEpoch' = epoch
      BY <2>1, <2>2, <3>1, SendFence
    <3>3. QED  BY <2>1, <2>4, <3>2 DEF FenceQueued, EpochFenced
  <2>6. CASE worker # "running"
    BY <2>1, <2>4, <2>6 DEF WireNumbered, WireEpochs, FenceQueued, EpochFenced
  <2>7. QED  BY <2>5, <2>6
<1>9. CASE WriterSendsReliable
  <2> DEFINE h == Head(reliable)
  <2>1. /\ reliable # <<>> /\ Send(h) /\ reliable' = Tail(reliable)
        /\ UNCHANGED <<pointer, nextOrder, epoch, lastWire, inputEpoch, worker, fault>>
    BY <1>9 DEF WriterSendsReliable
  <2>2. /\ 1 \in DOMAIN reliable /\ h = reliable[1]
        /\ \A i \in DOMAIN reliable': i + 1 \in DOMAIN reliable /\ reliable'[i] = reliable[i + 1]
    BY <2>1 DEF TypeOK
  <2>3. h \in Message /\ h.epoch = epoch  BY <2>2, QueuedType DEF QueueEpochs
  <2>4. QueueEpochs'  BY <2>1, <2>2 DEF QueueEpochs
  <2>5. CASE worker = "running"
    <3>1. Rises(LastEpoch, h)  BY <2>3, <2>5, QueuedType DEF Rises, FenceQueued, TypeOK
    <3> HIDE DEF h
    <3>2. WireNumbered' /\ WireEpochs' /\ LastEpoch' = epoch
      BY <2>1, <2>3, <3>1, SendFence
    <3>3. QED  BY <2>1, <2>4, <3>2 DEF FenceQueued, EpochFenced
  <2>6. CASE worker # "running"
    BY <2>1, <2>4, <2>6 DEF WireNumbered, WireEpochs, FenceQueued, EpochFenced
  <2>7. QED  BY <2>5, <2>6
<1>10. CASE WriterCloses  BY <1>10, <1>q, <1>w, <1>f DEF WriterCloses
<1>11. CASE ConnectionFails  BY <1>11, <1>q, <1>w, <1>f DEF ConnectionFails
<1>12. CASE WorkerReceives
  <2> DEFINE h == Head(wire)
             m == h.msg
  <2>1. /\ worker = "running" /\ wire # <<>> /\ wire' = Tail(wire)
        /\ UNCHANGED <<reliable, pointer, nextOrder, epoch, nextWire>>
    BY <1>12 DEF WorkerReceives
  <2>2. /\ 1 \in DOMAIN wire /\ h = wire[1] /\ Len(wire) \in Nat \ {0}
        /\ Len(wire') = Len(wire) - 1
        /\ \A i \in DOMAIN wire': i + 1 \in DOMAIN wire /\ wire'[i] = wire[i + 1]
    BY <2>1 DEF TypeOK
  <2>3. h.num = lastWire + 1 /\ Rises(inputEpoch, m)
    BY <2>1, <2>2 DEF WireNumbered, WireEpochs, TypeOK
  <2>4. m.epoch \in Nat /\ inputEpoch \in Nat /\ lastWire \in Nat
    BY <2>2, QueuedType DEF TypeOK
  <2>5. /\ lastWire' = lastWire + 1 /\ Receive(m)
    BY <1>12, <2>3, <2>4 DEF WorkerReceives, Rises
  <2> HIDE DEF m, h
  <2>6. inputEpoch' = m.epoch /\ (fault' = fault \/ fault' = "inputGap")
        /\ (worker' = worker \/ worker' = "ended")
    <3>1. CASE m.epoch = inputEpoch
      BY <2>4, <2>5, <3>1 DEF Receive, InjectEdge, InjectMove, InjectReleaseAll, IgnoreOther
    <3>2. CASE m.epoch > inputEpoch
      BY <2>4, <2>5, <3>2 DEF Receive, EnterEpoch
    <3>3. QED  BY <2>3, <2>4, <3>1, <3>2 DEF Rises
  <2>7. QueueEpochs' /\ EpochFenced'  BY <2>1, <2>6, <1>q DEF EpochFenced
  <2>8. WireNumbered'
    BY <2>1, <2>2, <2>4, <2>5, QueuedType DEF WireNumbered, TypeOK
  <2>9. WireEpochs'
    <3>1. ASSUME NEW i \in DOMAIN wire', i > 1
          PROVE  Rises(wire'[i - 1].msg.epoch, wire'[i].msg)
      <4>1. i \in Nat /\ i - 1 \in DOMAIN wire'  BY <2>1, <3>1 DEF TypeOK
      <4>2. (i - 1) + 1 = i /\ i + 1 > 1 /\ (i + 1) - 1 = i  BY <3>1, <4>1
      <4>3. wire'[i - 1] = wire[i]  BY <2>2, <4>1, <4>2
      <4>4. wire'[i] = wire[i + 1] /\ i + 1 \in DOMAIN wire  BY <2>2
      <4>5. Rises(wire[(i + 1) - 1].msg.epoch, wire[i + 1].msg)
        BY <2>1, <4>2, <4>4 DEF WireEpochs
      <4>6. QED  BY <4>2, <4>3, <4>4, <4>5
    <3>2. ASSUME wire' # <<>> PROVE Rises(inputEpoch', wire'[1].msg)
      <4>1. 1 \in DOMAIN wire'  BY <2>1, <3>2 DEF TypeOK
      <4>2. wire'[1] = wire[2] /\ 2 \in DOMAIN wire  BY <2>2, <4>1
      <4>3. Rises(wire[2 - 1].msg.epoch, wire[2].msg)
        <5>1. 2 > 1  OBVIOUS
        <5>2. QED  BY <2>1, <4>2, <5>1, Zenon DEF WireEpochs
      <4>4. 2 - 1 = 1  OBVIOUS
      <4>5. QED  BY <2>2, <2>6, <4>2, <4>3, <4>4 DEF m
    <3>3. QED  BY <3>1, <3>2 DEF WireEpochs
  <2>10. LastEpoch' = LastEpoch
    <3>1. CASE wire' = <<>>
      <4>1. Len(wire) = 1  BY <2>2, <3>1
      <4>2. LastEpoch = wire[1].msg.epoch  BY <2>1, <4>1 DEF LastEpoch
      <4>3. LastEpoch' = inputEpoch'  BY <3>1 DEF LastEpoch
      <4>4. QED  BY <2>2, <2>6, <4>2, <4>3 DEF m
    <3>2. CASE wire' # <<>>
      <4>1. Len(wire') \in DOMAIN wire' /\ Len(wire') + 1 = Len(wire)
        BY <2>1, <2>2, <3>2 DEF TypeOK
      <4>2. wire'[Len(wire')] = wire[Len(wire)]  BY <2>2, <4>1
      <4>3. LastEpoch' = wire'[Len(wire')].msg.epoch  BY <3>2 DEF LastEpoch
      <4>4. QED  BY <2>1, <4>2, <4>3 DEF LastEpoch
    <3>3. QED  BY <3>1, <3>2
  <2>11. FenceQueued'  BY <2>1, <2>10 DEF FenceQueued
  <2>12. QED  BY <2>7, <2>8, <2>9, <2>11
<1>13. CASE WorkerEof
  <2>1. /\ worker' = "ended" /\ fault' = "none"
        /\ UNCHANGED <<reliable, pointer, nextOrder, epoch>>
    BY <1>13 DEF WorkerEof, WorkerEnds
  <2>2. QED
    BY <2>1, <1>q DEF WireNumbered, WireEpochs, FenceQueued, EpochFenced
<1>14. CASE UNCHANGED vars  BY <1>14, <1>q, <1>w, <1>f DEF vars
<1>15. QED
  BY <1>1, <1>2, <1>3, <1>4, <1>5, <1>6, <1>7, <1>8, <1>9, <1>10, <1>11, <1>12, <1>13, <1>14
     DEF Next

\* The fence holds in every reachable state, whatever the queue limit.
THEOREM FenceHolds == Spec => []FenceInv
BY TypeInit, TypeStep, FenceInit, FenceStep, PTL DEF Spec

\* Queue overflow never makes the input worker reject the wire numbering or an
\* unannounced epoch.
THEOREM FenceCorrect == Spec => []EpochFenced
<1>1. FenceInv => EpochFenced  BY DEF FenceInv
<1>2. QED  BY <1>1, FenceHolds, PTL

(***************************************************************************)
(* Release on end.                                                         *)
(***************************************************************************)

LEMMA EndedStep == EndedReleased /\ [Next]_vars => EndedReleased'
<1> SUFFICES ASSUME EndedReleased, [Next]_vars PROVE EndedReleased'  OBVIOUS
<1>1. ASSUME UNCHANGED <<worker, held>> PROVE EndedReleased'  BY <1>1 DEF EndedReleased
<1>2. CASE WorkerReceives
  <2>1. worker = "running"  BY <1>2 DEF WorkerReceives
  <2>2. ASSUME NEW why, WorkerEnds(why) PROVE EndedReleased'
    BY <2>2 DEF WorkerEnds, EndedReleased
  <2>3. ASSUME NEW m, Receive(m) PROVE worker' = worker \/ held' = {}
    BY <2>3 DEF Receive, InjectEdge, InjectMove, InjectReleaseAll, IgnoreOther, EnterEpoch
  <2>4. QED  BY <1>2, <2>1, <2>2, <2>3 DEF WorkerReceives, EndedReleased
<1>3. CASE WorkerEof  BY <1>3 DEF WorkerEof, WorkerEnds, EndedReleased
<1>4. CASE UNCHANGED vars  BY <1>1, <1>4 DEF vars, agentVars
<1>5. CASE \E c \in Controls: Edge(c)  BY <1>1, <1>5 DEF Edge, agentVars
<1>6. CASE \E p \in Positions: Move(p)  BY <1>1, <1>6 DEF Move, agentVars
<1>7. CASE OtherControl \/ ForegroundChanges \/ FocusAcquired \/ FocusLost \/ Stop
  BY <1>1, <1>7 DEF OtherControl, ForegroundChanges, FocusAcquired, FocusLost, Stop, agentVars
<1>8. CASE WriterSendsPointer \/ WriterSendsReliable \/ WriterCloses \/ ConnectionFails
  BY <1>1, <1>8 DEF WriterSendsPointer, WriterSendsReliable, WriterCloses, ConnectionFails,
                    agentVars
<1>9. QED  BY <1>2, <1>3, <1>4, <1>5, <1>6, <1>7, <1>8 DEF Next

\* However the input worker ends, nothing stays pressed.
THEOREM ReleaseCorrect == Spec => []EndedReleased
<1>1. Init => EndedReleased  BY DEF Init, EndedReleased
<1>2. QED  BY <1>1, EndedStep, PTL DEF Spec

(***************************************************************************)
(* What is held.  Every edge and release-all has an order of its own, so   *)
(* those under way are a set; Holds(c) says that c will be pressed on the  *)
(* Mac when all of them have been applied.                                 *)
(***************************************************************************)

Flying == {wire[i].msg: i \in DOMAIN wire} \cup {reliable[i]: i \in DOMAIN reliable}
Inputs == {m \in Flying: m.kind \in InputKinds}
Edges == {m \in Inputs: m.kind \in EdgeKinds}

Lifts(m, c) == m.kind = "releaseAll" \/ (m.kind = "release" /\ m.ctl = c)
Holds(c) ==
  \/ c \in held /\ \A m \in Inputs: ~Lifts(m, c)
  \/ \E p \in Inputs: /\ p.kind = "press" /\ p.ctl = c
                      /\ \A m \in Inputs: p.order < m.order => ~Lifts(m, c)
NothingHeld == \A c \in Controls: ~Holds(c)

\* A reliable sequence number of the current epoch that was applied or is under
\* way; the numbers are whole when none is missing since the first of them.
Seen(n) ==
  \/ inputEpoch = epoch /\ lastReliable # 0 /\ n <= lastReliable
  \/ \E m \in Edges: m.epoch = epoch /\ m.seq = n
Whole == \A a, n \in 1..nextReliable: Seen(a) /\ a <= n => Seen(n)

InOrder ==
  /\ \A i, j \in DOMAIN wire:
       i < j /\ wire[i].msg.kind \in InputKinds /\ wire[j].msg.kind \in InputKinds
         => wire[i].msg.order < wire[j].msg.order
  /\ \A i, j \in DOMAIN reliable:
       i < j /\ reliable[i].kind \in InputKinds /\ reliable[j].kind \in InputKinds
         => reliable[i].order < reliable[j].order
  /\ \A i \in DOMAIN wire, j \in DOMAIN reliable:
       wire[i].msg.kind \in InputKinds /\ reliable[j].kind \in InputKinds
         => wire[i].msg.order < reliable[j].order
  /\ pointer # None => pointer.kind = "move"

Numbered ==
  /\ \A m \in Inputs: m.order <= nextOrder /\ m.epoch <= epoch
  /\ \A m, n \in Inputs: m.order < n.order => m.epoch <= n.epoch
  /\ \A m \in Edges: m.seq > 0 /\ (m.epoch = epoch => m.seq <= nextReliable)
  /\ \A m, n \in Edges: m.order < n.order /\ m.epoch = n.epoch => m.seq < n.seq

Expected ==
  /\ inputEpoch <= epoch /\ (inputEpoch = epoch => lastReliable <= nextReliable)
  /\ \A m \in Inputs: inputEpoch <= m.epoch
  /\ \A m \in Edges: m.epoch = inputEpoch => lastReliable < m.seq

FocusOrder ==
  /\ focusMsgs # <<>> => /\ focusMsgs[Len(focusMsgs)] = (IF foreground THEN "acquired" ELSE "lost")
                         /\ focusMsgs[1] = "lost" => focused
  /\ focusMsgs = <<>> /\ foreground => focused
  /\ \A i \in DOMAIN focusMsgs: i > 1 => focusMsgs[i - 1] # focusMsgs[i]

LossPending == \E i \in DOMAIN focusMsgs: focusMsgs[i] = "lost"
Held ==
  /\ ~foreground /\ focusMsgs = <<>> => NothingHeld
  /\ closing => NothingHeld
  /\ (\A n \in 1..nextReliable: ~Seen(n)) => NothingHeld
  /\ Whole => \A c \in Controls: Holds(c) => c \in down \/ LossPending

HoldInv ==
  /\ InOrder /\ Numbered /\ FocusOrder
  /\ worker = "running" => Expected /\ Held

LEMMA FlyingType ==
  ASSUME TypeOK
  PROVE  /\ Flying \subseteq Message /\ Inputs \subseteq Message /\ Edges \subseteq Inputs
         /\ \A m \in Message: /\ m.order \in Nat /\ m.epoch \in Nat /\ m.seq \in Nat
                              /\ m.kind \in EdgeKinds => m.ctl \in Controls
         /\ nextOrder \in Nat /\ nextReliable \in Nat /\ epoch \in Nat
         /\ inputEpoch \in Nat /\ lastReliable \in Nat
<1>1. \A i \in DOMAIN wire: wire[i].msg \in Message  BY QueuedType
<1>2. \A i \in DOMAIN reliable: reliable[i] \in Message  BY QueuedType
<1>3. Flying \subseteq Message  BY <1>1, <1>2 DEF Flying
<1>4. \A m \in Message: /\ m.order \in Nat /\ m.epoch \in Nat /\ m.seq \in Nat
                        /\ m.kind \in EdgeKinds => m.ctl \in Controls
  BY DEF Message, Fields
<1>5. QED  BY <1>3, <1>4 DEF Inputs, Edges, TypeOK

(***************************************************************************)
(* How the operations change what is under way.                            *)
(***************************************************************************)

LEMMA AppendSeq ==
  ASSUME NEW S, NEW s \in Seq(S), NEW x \in S
  PROVE  /\ Append(s, x) \in Seq(S) /\ Len(Append(s, x)) = Len(s) + 1
         /\ \A i \in DOMAIN s: i \in DOMAIN Append(s, x) /\ Append(s, x)[i] = s[i]
         /\ Append(s, x)[Len(s) + 1] = x
         /\ Len(s) + 1 \in DOMAIN Append(s, x)
         /\ \A i \in DOMAIN Append(s, x): i \in DOMAIN s \/ i = Len(s) + 1
         /\ \A i \in DOMAIN s: i < Len(s) + 1
OBVIOUS

\* A message that is queued last keeps the order of what is queued.
LEMMA QueueLast ==
  ASSUME TypeOK, NEW old \in Seq(Message), NEW m \in Message,
         \A i, j \in DOMAIN old:
           i < j /\ old[i].kind \in InputKinds /\ old[j].kind \in InputKinds => old[i].order < old[j].order,
         \A i \in DOMAIN wire, j \in DOMAIN old:
           wire[i].msg.kind \in InputKinds /\ old[j].kind \in InputKinds => wire[i].msg.order < old[j].order,
         m.kind \in InputKinds =>
           /\ \A i \in DOMAIN old: old[i].kind \in InputKinds => old[i].order < m.order
           /\ \A i \in DOMAIN wire: wire[i].msg.kind \in InputKinds => wire[i].msg.order < m.order
  PROVE  LET new == Append(old, m)
         IN  /\ \A i, j \in DOMAIN new:
                  i < j /\ new[i].kind \in InputKinds /\ new[j].kind \in InputKinds => new[i].order < new[j].order
             /\ \A i \in DOMAIN wire, j \in DOMAIN new:
                  wire[i].msg.kind \in InputKinds /\ new[j].kind \in InputKinds => wire[i].msg.order < new[j].order
             /\ {new[i]: i \in DOMAIN new} = {old[i]: i \in DOMAIN old} \cup {m}
<1> DEFINE new == Append(old, m)
<1>1. /\ new \in Seq(Message) /\ Len(new) = Len(old) + 1
      /\ \A i \in DOMAIN old: i \in DOMAIN new /\ new[i] = old[i]
      /\ new[Len(old) + 1] = m /\ Len(old) + 1 \in DOMAIN new
      /\ \A i \in DOMAIN new: i \in DOMAIN old \/ i = Len(old) + 1
      /\ \A i \in DOMAIN old: i < Len(old) + 1 /\ i \in Nat
      /\ Len(old) \in Nat
  BY AppendSeq
<1> HIDE DEF new
<1>2. ASSUME NEW i \in DOMAIN new, NEW j \in DOMAIN new, i < j,
             new[i].kind \in InputKinds, new[j].kind \in InputKinds
      PROVE  new[i].order < new[j].order
  <2>1. CASE j \in DOMAIN old
    <3>1. i \in DOMAIN old  BY <1>1, <1>2, <2>1
    <3>2. QED  BY <1>1, <1>2, <2>1, <3>1
  <2>2. CASE j = Len(old) + 1
    <3>1. i \in DOMAIN old  BY <1>1, <1>2, <2>2
    <3>2. QED  BY <1>1, <1>2, <2>2, <3>1
  <2>3. QED  BY <1>1, <2>1, <2>2
<1>3. ASSUME NEW i \in DOMAIN wire, NEW j \in DOMAIN new,
             wire[i].msg.kind \in InputKinds, new[j].kind \in InputKinds
      PROVE  wire[i].msg.order < new[j].order
  BY <1>1, <1>3
<1>4. {new[i]: i \in DOMAIN new} = {old[i]: i \in DOMAIN old} \cup {m}  BY <1>1
<1>5. QED  BY <1>2, <1>3, <1>4 DEF new

\* What enqueue_control makes of a message: it is added, or a release-all takes
\* the place of the whole queue, or nothing is.
Added(m, consumed) ==
  /\ epoch' = epoch /\ nextReliable' = consumed
  /\ Inputs' = Inputs \cup (IF m.kind \in InputKinds THEN {m} ELSE {})
Replaced(m) ==
  /\ m.kind = "releaseAll" /\ epoch' = epoch + 1 /\ nextReliable' = 0
  /\ \E n \in Message: /\ n.kind = "releaseAll" /\ n.order = m.order /\ n.epoch = epoch + 1
                       /\ n \in Inputs' /\ Inputs' \subseteq Inputs \cup {n}
                       /\ \A x \in Inputs': x = n \/ x.epoch <= epoch
Turned(m, consumed) ==
  /\ m.kind # "releaseAll" /\ epoch' = epoch /\ nextReliable' = consumed /\ Inputs' = Inputs

LEMMA EnqueueFlying ==
  ASSUME TypeOK, InOrder, \A x \in Inputs: x.order <= nextOrder /\ x.epoch <= epoch,
         NEW m \in Message, m.order = nextOrder + 1, NEW consumed, EnqueueReliable(m, consumed), wire' = wire
  PROVE  InOrder' /\ (Added(m, consumed) \/ Replaced(m) \/ Turned(m, consumed)) /\ nextOrder' = nextOrder + 1
<1>1. /\ reliable \in Seq(Message) /\ nextOrder \in Nat
      /\ \A x \in Message: x.order \in Nat
  BY FlyingType DEF TypeOK
<1>2. /\ \A i \in DOMAIN wire: wire[i].msg \in Message
      /\ \A i \in DOMAIN wire: wire[i].msg.kind \in InputKinds => wire[i].msg \in Inputs
      /\ \A i \in DOMAIN reliable: reliable[i].kind \in InputKinds => reliable[i] \in Inputs
  BY QueuedType DEF Inputs, Flying
<1>3. /\ \A i \in DOMAIN wire: wire[i].msg.kind \in InputKinds => wire[i].msg.order < nextOrder + 1
      /\ \A i \in DOMAIN reliable: reliable[i].kind \in InputKinds => reliable[i].order < nextOrder + 1
  BY <1>1, <1>2, FlyingType
<1>4. nextOrder' = nextOrder + 1  BY DEF EnqueueReliable
<1>5. "move" \notin InputKinds  BY DEF InputKinds, EdgeKinds
<1>6. CASE Admitted(m)
  <2>1. /\ reliable' = reliable \o Barrier(m) \o <<m>>
        /\ pointer' = IF Freezes(m) THEN None ELSE pointer
        /\ nextReliable' = consumed /\ epoch' = epoch
    BY <1>6, Zenon DEF EnqueueReliable, Overflows
  <2> DEFINE base == reliable \o Barrier(m)
  <2>2. /\ base \in Seq(Message) /\ reliable' = Append(base, m)
        /\ \A i, j \in DOMAIN base:
             i < j /\ base[i].kind \in InputKinds /\ base[j].kind \in InputKinds => base[i].order < base[j].order
        /\ \A i \in DOMAIN wire, j \in DOMAIN base:
             wire[i].msg.kind \in InputKinds /\ base[j].kind \in InputKinds => wire[i].msg.order < base[j].order
        /\ \A i \in DOMAIN base: base[i].kind \in InputKinds => base[i].order < nextOrder + 1
        /\ {x \in {base[i]: i \in DOMAIN base}: x.kind \in InputKinds}
             = {x \in {reliable[i]: i \in DOMAIN reliable}: x.kind \in InputKinds}
    <3>1. CASE Freezes(m)
      <4>1. pointer \in Message /\ pointer.kind = "move" /\ Barrier(m) = <<pointer>>
        BY <3>1 DEF Freezes, Barrier, TypeOK, InOrder
      <4>2. base = Append(reliable, pointer)  BY <1>1, <4>1
      <4>3. base \in Seq(Message)  BY <1>1, <4>1, <4>2
      <4>4. reliable' = Append(base, m)  BY <2>1, <4>3
      <4> HIDE DEF base
      <4>5. /\ \A i, j \in DOMAIN base:
                 i < j /\ base[i].kind \in InputKinds /\ base[j].kind \in InputKinds => base[i].order < base[j].order
            /\ \A i \in DOMAIN wire, j \in DOMAIN base:
                 wire[i].msg.kind \in InputKinds /\ base[j].kind \in InputKinds => wire[i].msg.order < base[j].order
            /\ {base[i]: i \in DOMAIN base} = {reliable[i]: i \in DOMAIN reliable} \cup {pointer}
        <5>1. /\ \A i, j \in DOMAIN reliable:
                   i < j /\ reliable[i].kind \in InputKinds /\ reliable[j].kind \in InputKinds
                     => reliable[i].order < reliable[j].order
              /\ \A i \in DOMAIN wire, j \in DOMAIN reliable:
                   wire[i].msg.kind \in InputKinds /\ reliable[j].kind \in InputKinds
                     => wire[i].msg.order < reliable[j].order
          BY DEF InOrder
        <5>2. pointer \in Message /\ pointer.kind \notin InputKinds  BY <1>5, <4>1
        <5>3. reliable \in Seq(Message) /\ base = Append(reliable, pointer)  BY <1>1, <4>2
        <5>4. QED  BY <5>1, <5>2, <5>3, QueueLast
      <4>6. \A i \in DOMAIN base: base[i].kind \in InputKinds => \E j \in DOMAIN reliable: base[i] = reliable[j]
        BY <1>5, <4>1, <4>5
      <4>7. QED  BY <1>3, <1>5, <4>1, <4>3, <4>4, <4>5, <4>6
    <3>2. CASE ~Freezes(m)
      <4>1. base = reliable /\ reliable' = Append(reliable, m)  BY <1>1, <2>1, <3>2 DEF Barrier
      <4> HIDE DEF base
      <4>2. QED  BY <1>1, <1>3, <4>1 DEF InOrder
    <3>3. QED  BY <3>1, <3>2
  <2> HIDE DEF base
  <2>3. /\ \A i, j \in DOMAIN reliable':
             i < j /\ reliable'[i].kind \in InputKinds /\ reliable'[j].kind \in InputKinds => reliable'[i].order < reliable'[j].order
        /\ \A i \in DOMAIN wire, j \in DOMAIN reliable':
             wire[i].msg.kind \in InputKinds /\ reliable'[j].kind \in InputKinds => wire[i].msg.order < reliable'[j].order
        /\ {reliable'[i]: i \in DOMAIN reliable'} = {base[i]: i \in DOMAIN base} \cup {m}
    BY <1>3, <2>2, QueueLast
  <2>4. InOrder'  BY <2>1, <2>3 DEF InOrder
  <2>5. Inputs' = Inputs \cup (IF m.kind \in InputKinds THEN {m} ELSE {})
    BY <2>2, <2>3 DEF Inputs, Flying
  <2>6. QED  BY <1>4, <2>1, <2>4, <2>5 DEF Added
<1>7. CASE Overflows(m)
  <2>1. /\ epoch' = epoch + 1 /\ reliable' = FreshQueue(m) /\ pointer' = None /\ nextReliable' = 0
        /\ m.kind = "releaseAll"
    BY <1>7, Zenon DEF EnqueueReliable, Overflows
  <2>2. PICK n \in Message: /\ FreshQueue(m) = <<n>>
                             /\ n.epoch = epoch + 1 /\ n.order = m.order /\ n.kind = m.kind
    BY FreshType
  <2>3. reliable' = <<n>> /\ DOMAIN reliable' = {1} /\ reliable'[1] = n  BY <2>1, <2>2
  <2>4. InOrder'
    <3>1. \A i \in DOMAIN wire, j \in DOMAIN reliable':
             wire[i].msg.kind \in InputKinds /\ reliable'[j].kind \in InputKinds => wire[i].msg.order < reliable'[j].order
      BY <1>3, <2>2, <2>3
    <3>2. \A i, j \in DOMAIN reliable': ~(i < j)  BY <2>3
    <3>3. QED  BY <2>1, <3>1, <3>2 DEF InOrder
  <2>5. n \in Inputs' /\ Inputs' \subseteq Inputs \cup {n}
    BY <2>1, <2>2, <2>3 DEF Inputs, Flying, InputKinds
  <2>6. \A x \in Inputs': x = n \/ x.epoch <= epoch  BY <2>5
  <2>7. Replaced(m)  BY <2>1, <2>2, <2>5, <2>6 DEF Replaced
  <2>8. QED  BY <1>4, <2>4, <2>7
<1>8. CASE ~Admitted(m) /\ ~Overflows(m)
  <2>1. UNCHANGED <<reliable, pointer, epoch>> /\ nextReliable' = consumed
    BY <1>8, Zenon DEF EnqueueReliable
  <2>2. InOrder' /\ Inputs' = Inputs  BY <2>1 DEF InOrder, Inputs, Flying
  <2>3. QED  BY <1>4, <1>8, <2>1, <2>2 DEF Turned, Overflows
<1>9. QED  BY <1>6, <1>7, <1>8 DEF Overflows

\* The writer moves a message from the queue to the wire.
LEMMA SendFlying ==
  ASSUME TypeOK, InOrder, WriterSendsReliable \/ WriterSendsPointer
  PROVE  InOrder' /\ Inputs' = Inputs
<1>1. \A i \in DOMAIN wire: wire[i].msg \in Message  BY QueuedType
<1>2. "move" \notin InputKinds  BY DEF InputKinds, EdgeKinds
<1>3. ASSUME NEW m \in Message, Send(m)
      PROVE  /\ wire' \in Seq(Packet) /\ Len(wire) \in Nat
             /\ \A i \in DOMAIN wire: i \in DOMAIN wire' /\ wire'[i] = wire[i] /\ i < Len(wire) + 1 /\ i \in Nat
             /\ Len(wire) + 1 \in DOMAIN wire' /\ wire'[Len(wire) + 1].msg = m
             /\ \A i \in DOMAIN wire': i \in DOMAIN wire \/ i = Len(wire) + 1
  <2> DEFINE packet == [num |-> nextWire + 1, msg |-> m]
  <2>1. packet \in Packet /\ packet.msg = m  BY DEF Packet, TypeOK
  <2>2. wire' = Append(wire, packet) /\ wire \in Seq(Packet)  BY <1>3 DEF Send, TypeOK
  <2> HIDE DEF packet
  <2>3. QED  BY <2>1, <2>2, AppendSeq
<1>4. CASE WriterSendsPointer
  <2>1. /\ pointer \in Message /\ pointer.kind = "move" /\ Send(pointer) /\ pointer' = None /\ reliable' = reliable
    BY <1>4 DEF WriterSendsPointer, PointerFirst, TypeOK, InOrder
  <2>2. Inputs' = Inputs  BY <1>2, <1>3, <2>1 DEF Inputs, Flying
  <2>3. InOrder'  BY <1>2, <1>3, <2>1 DEF InOrder
  <2>4. QED  BY <2>2, <2>3
<1>5. CASE WriterSendsReliable
  <2> DEFINE m == Head(reliable)
  <2>1. /\ reliable \in Seq(Message) /\ reliable # <<>> /\ Send(m) /\ reliable' = Tail(reliable) /\ pointer' = pointer
    BY <1>5 DEF WriterSendsReliable, TypeOK
  <2>2. /\ m \in Message /\ 1 \in DOMAIN reliable /\ m = reliable[1]
        /\ \A i \in DOMAIN reliable': i + 1 \in DOMAIN reliable /\ reliable'[i] = reliable[i + 1] /\ 1 < i + 1 /\ i \in Nat
        /\ \A i \in DOMAIN reliable: i = 1 \/ (i - 1 \in DOMAIN reliable' /\ reliable'[i - 1] = reliable[i])
    BY <2>1
  <2> HIDE DEF m
  <2>3. Inputs' = Inputs
    <3>1. {wire'[i].msg: i \in DOMAIN wire'} = {wire[i].msg: i \in DOMAIN wire} \cup {m}
      <4>1. ASSUME NEW i \in DOMAIN wire'
            PROVE  wire'[i].msg = m \/ \E j \in DOMAIN wire: wire[j].msg = wire'[i].msg
        BY <1>3, <2>1, <2>2
      <4>2. ASSUME NEW i \in DOMAIN wire PROVE \E j \in DOMAIN wire': wire'[j].msg = wire[i].msg
        BY <1>3, <2>1, <2>2
      <4>3. \E j \in DOMAIN wire': wire'[j].msg = m  BY <1>3, <2>1, <2>2
      <4>4. QED  BY <4>1, <4>2, <4>3
    <3>2. {reliable[i]: i \in DOMAIN reliable} = {reliable'[i]: i \in DOMAIN reliable'} \cup {m}
      <4>1. ASSUME NEW i \in DOMAIN reliable
            PROVE  reliable[i] = m \/ \E j \in DOMAIN reliable': reliable'[j] = reliable[i]
        BY <2>2
      <4>2. ASSUME NEW i \in DOMAIN reliable' PROVE \E j \in DOMAIN reliable: reliable[j] = reliable'[i]
        BY <2>2
      <4>3. \E j \in DOMAIN reliable: reliable[j] = m  BY <2>2
      <4>4. QED  BY <4>1, <4>2, <4>3
    <3>3. Flying' = Flying  BY <3>1, <3>2 DEF Flying
    <3>4. QED  BY <3>3 DEF Inputs
  <2>4. ASSUME NEW i \in DOMAIN wire', NEW j \in DOMAIN wire', i < j,
               wire'[i].msg.kind \in InputKinds, wire'[j].msg.kind \in InputKinds
        PROVE  wire'[i].msg.order < wire'[j].msg.order
    <3>1. CASE j \in DOMAIN wire
      <4>1. i \in DOMAIN wire  BY <1>3, <2>1, <2>2, <2>4, <3>1
      <4>2. QED  BY <1>3, <2>1, <2>2, <2>4, <3>1, <4>1 DEF InOrder
    <3>2. CASE j = Len(wire) + 1
      <4>1. i \in DOMAIN wire  BY <1>3, <2>1, <2>2, <2>4, <3>2
      <4>2. wire'[i] = wire[i] /\ wire'[j].msg = m  BY <1>3, <2>1, <2>2, <3>2, <4>1
      <4>3. QED  BY <2>2, <2>4, <4>1, <4>2 DEF InOrder
    <3>3. QED  BY <1>3, <2>1, <2>2, <3>1, <3>2
  <2>5. ASSUME NEW i \in DOMAIN reliable', NEW j \in DOMAIN reliable', i < j,
               reliable'[i].kind \in InputKinds, reliable'[j].kind \in InputKinds
        PROVE  reliable'[i].order < reliable'[j].order
    <3>1. i + 1 < j + 1  BY <2>2, <2>5
    <3>2. QED  BY <2>2, <2>5, <3>1 DEF InOrder
  <2>6. ASSUME NEW i \in DOMAIN wire', NEW j \in DOMAIN reliable',
               wire'[i].msg.kind \in InputKinds, reliable'[j].kind \in InputKinds
        PROVE  wire'[i].msg.order < reliable'[j].order
    <3>1. CASE i \in DOMAIN wire
      BY <1>3, <2>1, <2>2, <2>6, <3>1 DEF InOrder
    <3>2. CASE i = Len(wire) + 1
      <4>1. wire'[i].msg = reliable[1]  BY <1>3, <2>1, <2>2, <3>2
      <4>2. QED  BY <2>2, <2>6, <4>1 DEF InOrder
    <3>3. QED  BY <1>3, <2>1, <2>2, <3>1, <3>2
  <2>7. pointer' # None => pointer'.kind = "move"  BY <2>1 DEF InOrder
  <2>8. InOrder'  BY <2>4, <2>5, <2>6, <2>7 DEF InOrder
  <2>9. QED  BY <2>3, <2>8
<1>6. QED  BY <1>4, <1>5

\* The worker takes the oldest input from the wire.
LEMMA ReceiveFlying ==
  ASSUME TypeOK, InOrder, wire # <<>>, wire' = Tail(wire), UNCHANGED <<reliable, pointer>>
  PROVE  /\ InOrder' /\ Head(wire).msg \in Message
         /\ Head(wire).msg.kind \notin InputKinds => Inputs' = Inputs
         /\ Head(wire).msg.kind \in InputKinds =>
              /\ Head(wire).msg \in Inputs /\ Inputs' = Inputs \ {Head(wire).msg}
              /\ \A m \in Inputs': Head(wire).msg.order < m.order
<1> DEFINE h == Head(wire).msg
<1>1. wire \in Seq(Packet)  BY DEF TypeOK
<1>2. /\ 1 \in DOMAIN wire /\ h = wire[1].msg
      /\ \A i \in DOMAIN wire': i + 1 \in DOMAIN wire /\ wire'[i] = wire[i + 1] /\ 1 < i + 1 /\ i \in Nat
      /\ \A i \in DOMAIN wire: i = 1 \/ (i - 1 \in DOMAIN wire' /\ wire'[i - 1] = wire[i])
  BY <1>1
<1>3. h \in Message  BY <1>2, QueuedType
<1> HIDE DEF h
<1>4. {wire[i].msg: i \in DOMAIN wire} = {wire'[i].msg: i \in DOMAIN wire'} \cup {h}
  <2>1. ASSUME NEW i \in DOMAIN wire
        PROVE  wire[i].msg = h \/ \E j \in DOMAIN wire': wire'[j].msg = wire[i].msg
    BY <1>2
  <2>2. ASSUME NEW i \in DOMAIN wire' PROVE \E j \in DOMAIN wire: wire[j].msg = wire'[i].msg
    BY <1>2
  <2>3. \E j \in DOMAIN wire: wire[j].msg = h  BY <1>2
  <2>4. QED  BY <2>1, <2>2, <2>3
<1>5. Flying = Flying' \cup {h}  BY <1>4 DEF Flying
<1>6. InOrder'
  <2>1. ASSUME NEW i \in DOMAIN wire', NEW j \in DOMAIN wire', i < j,
               wire'[i].msg.kind \in InputKinds, wire'[j].msg.kind \in InputKinds
        PROVE  wire'[i].msg.order < wire'[j].msg.order
    <3>1. i + 1 < j + 1  BY <1>2, <2>1
    <3>2. QED  BY <1>2, <2>1, <3>1 DEF InOrder
  <2>2. ASSUME NEW i \in DOMAIN wire', NEW j \in DOMAIN reliable,
               wire'[i].msg.kind \in InputKinds, reliable[j].kind \in InputKinds
        PROVE  wire'[i].msg.order < reliable[j].order
    BY <1>2, <2>2 DEF InOrder
  <2>3. QED  BY <2>1, <2>2 DEF InOrder
<1>7. ASSUME h.kind \in InputKinds, NEW m \in Inputs' PROVE h.order < m.order
  <2>1. CASE \E i \in DOMAIN wire': m = wire'[i].msg
    <3>1. PICK i \in DOMAIN wire': m = wire'[i].msg  BY <2>1
    <3>2. i + 1 \in DOMAIN wire /\ 1 < i + 1 /\ m = wire[i + 1].msg  BY <1>2, <3>1
    <3>3. m.kind \in InputKinds  BY <1>7 DEF Inputs
    <3>4. QED  BY <1>2, <1>7, <3>2, <3>3 DEF InOrder
  <2>2. CASE \E j \in DOMAIN reliable: m = reliable[j]
    <3>1. m.kind \in InputKinds  BY <1>7 DEF Inputs
    <3>2. QED  BY <1>2, <1>7, <2>2, <3>1 DEF InOrder
  <2>3. QED  BY <1>7, <2>1, <2>2 DEF Inputs, Flying
<1>8. ASSUME h.kind \in InputKinds PROVE h \in Inputs /\ h \notin Inputs'
  <2>1. h.order \in Nat  BY <1>3, FlyingType
  <2>2. ~(h.order < h.order)  BY <2>1
  <2>3. QED  BY <1>5, <1>7, <1>8, <2>2 DEF Inputs
<1>9. ASSUME h.kind \in InputKinds PROVE Inputs' = Inputs \ {h}
  <2>1. Inputs = Inputs' \cup {h}  BY <1>5, <1>9 DEF Inputs
  <2>2. QED  BY <1>8, <1>9, <2>1
<1>10. ASSUME h.kind \notin InputKinds PROVE Inputs' = Inputs  BY <1>5, <1>10 DEF Inputs
<1>11. QED  BY <1>3, <1>6, <1>7, <1>8, <1>9, <1>10 DEF h

(***************************************************************************)
(* How Holds changes with what is under way.                               *)
(***************************************************************************)

\* Whatever was pressed, a release-all behind everything leaves nothing held.
LEMMA AllReleased ==
  ASSUME NEW n \in Inputs', n.kind = "releaseAll", Inputs' \subseteq Inputs \cup {n},
         \A x \in Inputs: x.order < n.order
  PROVE  NothingHeld'
<1>1. SUFFICES ASSUME NEW c \in Controls, Holds(c)' PROVE FALSE  BY DEF NothingHeld
<1>2. Lifts(n, c)  BY DEF Lifts
<1>3. PICK p \in Inputs': p.kind = "press" /\ \A m \in Inputs': p.order < m.order => ~Lifts(m, c)
  BY <1>1, <1>2 DEF Holds, Lifts
<1>4. p \in Inputs  BY <1>3
<1>5. QED  BY <1>2, <1>3, <1>4

\* An edge behind everything adds or removes its own control.
LEMMA EdgeTurns ==
  ASSUME NEW m, m.kind \in EdgeKinds, Inputs' = Inputs \cup {m}, held' = held,
         \A x \in Inputs: x.order < m.order,
         NEW c \in Controls, Holds(c)'
  PROVE  (m.kind = "press" /\ m.ctl = c) \/ (Holds(c) /\ ~Lifts(m, c))
<1>1. CASE c \in held' /\ \A x \in Inputs': ~Lifts(x, c)
  BY <1>1 DEF Holds, Lifts
<1>2. CASE \E p \in Inputs': /\ p.kind = "press" /\ p.ctl = c
                             /\ \A x \in Inputs': p.order < x.order => ~Lifts(x, c)
  <2>1. PICK p \in Inputs': /\ p.kind = "press" /\ p.ctl = c
                            /\ \A x \in Inputs': p.order < x.order => ~Lifts(x, c)
    BY <1>2
  <2>2. CASE p = m  BY <2>1, <2>2
  <2>3. CASE p \in Inputs
    <3>1. ~Lifts(m, c)  BY <2>1, <2>3
    <3>2. Holds(c)  BY <2>1, <2>3 DEF Holds, Lifts
    <3>3. QED  BY <3>1, <3>2
  <2>4. QED  BY <2>2, <2>3
<1>3. QED  BY <1>1, <1>2 DEF Holds, Lifts

\* Applying the oldest input leaves the outcome as it was.
LEMMA AppliedHolds ==
  ASSUME TypeOK, NEW h \in Inputs, Inputs' = Inputs \ {h}, \A m \in Inputs': h.order < m.order,
         h.kind = "releaseAll" => held' = {}, h.kind \in EdgeKinds => held' = Applied(h),
         NEW c \in Controls, Holds(c)'
  PROVE  Holds(c)
<1>1. h.order \in Nat /\ \A m \in Inputs: m.order \in Nat  BY FlyingType
<1>2. h.kind = "releaseAll" \/ h.kind \in EdgeKinds  BY DEF Inputs, InputKinds
<1>3. CASE c \in held' /\ \A m \in Inputs': ~Lifts(m, c)
  <2>1. CASE h.kind = "press" /\ h.ctl = c
    <3>1. \A m \in Inputs: h.order < m.order => m \in Inputs'  BY <1>1
    <3>2. QED  BY <1>3, <2>1, <3>1 DEF Holds, Lifts
  <2>2. CASE ~(h.kind = "press" /\ h.ctl = c)
    <3>1. c \in held /\ ~Lifts(h, c)  BY <1>2, <1>3, <2>2 DEF Applied, Lifts, EdgeKinds
    <3>2. \A m \in Inputs: ~Lifts(m, c)  BY <1>3, <3>1
    <3>3. QED  BY <3>1, <3>2 DEF Holds, Lifts
  <2>3. QED  BY <2>1, <2>2
<1>4. CASE \E p \in Inputs': /\ p.kind = "press" /\ p.ctl = c
                             /\ \A m \in Inputs': p.order < m.order => ~Lifts(m, c)
  <2>1. PICK p \in Inputs': /\ p.kind = "press" /\ p.ctl = c
                            /\ \A m \in Inputs': p.order < m.order => ~Lifts(m, c)
    BY <1>4
  <2>2. p \in Inputs /\ h.order < p.order /\ p.order \in Nat  BY <1>1, <2>1
  <2>3. \A m \in Inputs: p.order < m.order => m \in Inputs'  BY <1>1, <2>2
  <2>4. QED  BY <2>1, <2>2, <2>3 DEF Holds, Lifts
<1>5. QED  BY <1>3, <1>4 DEF Holds, Lifts

\* The promises about what is held survive a step that presses nothing new and
\* hides no number of the current epoch.
LEMMA HeldKept ==
  ASSUME Held, nextReliable' = nextReliable, UNCHANGED <<foreground, focusMsgs, closing, down>>,
         \A c \in Controls: Holds(c)' => Holds(c),
         \A n \in 1..nextReliable: Seen(n) => Seen(n)',
         \A a, n \in 1..nextReliable: Seen(a) /\ a <= n /\ Seen(n)' => Seen(n)
  PROVE  Held'
<1>1. NothingHeld => NothingHeld'  BY DEF NothingHeld
<1>2. Whole' => Whole  BY DEF Whole
<1>3. (\A n \in 1..nextReliable: ~Seen(n)') => \A n \in 1..nextReliable: ~Seen(n)  OBVIOUS
<1>4. LossPending' = LossPending  BY DEF LossPending
<1>5. /\ ~foreground' /\ focusMsgs' = <<>> => NothingHeld'
      /\ closing' => NothingHeld'
  BY <1>1 DEF Held
<1>6. (\A n \in 1..nextReliable': ~Seen(n)') => NothingHeld'  BY <1>1, <1>3 DEF Held
<1>7. Whole' => \A c \in Controls: Holds(c)' => c \in down' \/ LossPending'
  BY <1>2, <1>4 DEF Held
<1>8. QED  BY <1>5, <1>6, <1>7 DEF Held

LEMMA HeldNothing ==
  ASSUME NothingHeld' PROVE Held'
BY DEF Held, NothingHeld

\* When nothing that matters to it changes.
LEMMA SameInputs ==
  ASSUME Inputs' = Inputs, held' = held, epoch' = epoch, inputEpoch' = inputEpoch,
         lastReliable' = lastReliable
  PROVE  /\ \A c \in Controls: Holds(c)' <=> Holds(c)
         /\ NothingHeld' <=> NothingHeld
         /\ \A n: Seen(n)' <=> Seen(n)
<1>1. Edges' = Edges  BY DEF Edges
<1>2. \A c \in Controls: Holds(c)' <=> Holds(c)  BY DEF Holds, Lifts
<1>3. \A n: Seen(n)' <=> Seen(n)  BY <1>1 DEF Seen
<1>4. QED  BY <1>2, <1>3 DEF NothingHeld

(***************************************************************************)
(* Numbering.                                                              *)
(***************************************************************************)

LEMMA FewerNumbered ==
  ASSUME TypeOK, TypeOK', Numbered, Inputs' \subseteq Inputs, epoch' = epoch,
         nextOrder <= nextOrder', nextReliable <= nextReliable'
  PROVE  Numbered'
<1>1. Edges' \subseteq Edges  BY DEF Edges
<1>2. \A m \in Inputs: m.order \in Nat /\ m.epoch \in Nat /\ m.seq \in Nat  BY FlyingType
<1>3. /\ nextOrder \in Nat /\ nextOrder' \in Nat /\ nextReliable \in Nat /\ nextReliable' \in Nat
      /\ Edges \subseteq Inputs
  BY DEF TypeOK, Edges
<1>4. \A m \in Inputs': m.order <= nextOrder' /\ m.epoch <= epoch'  BY <1>2, <1>3 DEF Numbered
<1>5. \A m, n \in Inputs': m.order < n.order => m.epoch <= n.epoch  BY DEF Numbered
<1>6. \A m \in Edges': m.seq > 0 /\ (m.epoch = epoch' => m.seq <= nextReliable')
  <2>1. SUFFICES ASSUME NEW m \in Edges' PROVE m.seq > 0 /\ (m.epoch = epoch' => m.seq <= nextReliable')
    OBVIOUS
  <2>2. m \in Edges /\ m.seq \in Nat  BY <1>1, <1>2, <1>3
  <2>3. QED  BY <1>3, <2>2 DEF Numbered
<1>7. \A m, n \in Edges': m.order < n.order /\ m.epoch = n.epoch => m.seq < n.seq  BY <1>1 DEF Numbered
<1>8. QED  BY <1>4, <1>5, <1>6, <1>7 DEF Numbered

\* A message that is made in the current epoch and queued behind everything.
LEMMA AddedNumbered ==
  ASSUME TypeOK, TypeOK', Numbered, NEW m \in Message, m.kind \in InputKinds, m.epoch = epoch,
         m.order = nextOrder + 1, Inputs' = Inputs \cup {m}, epoch' = epoch, nextOrder' = nextOrder + 1,
         IF m.kind \in EdgeKinds THEN m.seq = nextReliable + 1 /\ nextReliable' = nextReliable + 1
                                 ELSE nextReliable' = nextReliable
  PROVE  /\ Numbered'
         /\ Expected /\ UNCHANGED <<inputEpoch, lastReliable>> => Expected'
         /\ \A x \in Inputs: x.order < m.order
<1>1. /\ \A x \in Message: x.order \in Nat /\ x.epoch \in Nat /\ x.seq \in Nat
      /\ Inputs \subseteq Message /\ Edges \subseteq Inputs
      /\ nextOrder \in Nat /\ nextReliable \in Nat /\ epoch \in Nat /\ inputEpoch \in Nat /\ lastReliable \in Nat
  BY FlyingType
<1>2. Edges' = Edges \cup (IF m.kind \in EdgeKinds THEN {m} ELSE {})  BY DEF Edges
<1>3. \A x \in Inputs: /\ x.order < m.order /\ x.order <= nextOrder /\ x.epoch <= epoch /\ ~(m.order < x.order)
                       /\ x.order \in Nat /\ x.epoch \in Nat
  BY <1>1 DEF Numbered
<1>4. \A x \in Edges: /\ x.epoch = epoch => x.seq <= nextReliable /\ x.seq < nextReliable + 1
                      /\ x.seq \in Nat /\ x.seq > 0
  BY <1>1 DEF Numbered
<1>5. \A x \in Inputs': x.order <= nextOrder' /\ x.epoch <= epoch'  BY <1>1, <1>3
<1>6. \A x, y \in Inputs': x.order < y.order => x.epoch <= y.epoch
  <2>1. SUFFICES ASSUME NEW x \in Inputs', NEW y \in Inputs', x.order < y.order PROVE x.epoch <= y.epoch
    OBVIOUS
  <2>2. CASE x = m  BY <1>1, <1>3, <2>1, <2>2
  <2>3. CASE x \in Inputs /\ y = m  BY <1>3, <2>3
  <2>4. CASE x \in Inputs /\ y \in Inputs  BY <2>1, <2>4 DEF Numbered
  <2>5. QED  BY <2>2, <2>3, <2>4
<1>7. \A x \in Edges': x.seq > 0 /\ (x.epoch = epoch' => x.seq <= nextReliable')
  <2>1. SUFFICES ASSUME NEW x \in Edges' PROVE x.seq > 0 /\ (x.epoch = epoch' => x.seq <= nextReliable')
    OBVIOUS
  <2>2. CASE x = m /\ m.kind \in EdgeKinds  BY <1>1, <2>2
  <2>3. CASE x \in Edges  BY <1>1, <1>4, <2>3
  <2>4. QED  BY <1>2, <2>1, <2>2, <2>3
<1>8. \A x, y \in Edges': x.order < y.order /\ x.epoch = y.epoch => x.seq < y.seq
  <2>1. SUFFICES ASSUME NEW x \in Edges', NEW y \in Edges', x.order < y.order, x.epoch = y.epoch
                 PROVE  x.seq < y.seq
    OBVIOUS
  <2>2. CASE x = m
    <3>1. y = m \/ y \in Inputs  BY <1>1, <1>2
    <3>2. QED  BY <1>1, <1>3, <2>1, <2>2, <3>1
  <2>3. CASE x \in Edges /\ y \in Edges  BY <2>1, <2>3 DEF Numbered
  <2>4. CASE x \in Edges /\ y = m /\ m.kind \in EdgeKinds  BY <1>4, <2>1, <2>4
  <2>5. QED  BY <1>2, <2>1, <2>2, <2>3, <2>4
<1>9. Numbered'  BY <1>5, <1>6, <1>7, <1>8 DEF Numbered
<1>10. ASSUME Expected, UNCHANGED <<inputEpoch, lastReliable>> PROVE Expected'
  <2>1. inputEpoch' <= epoch' /\ (inputEpoch' = epoch' => lastReliable' <= nextReliable')
    BY <1>1, <1>10 DEF Expected
  <2>2. \A x \in Inputs': inputEpoch' <= x.epoch  BY <1>10 DEF Expected
  <2>3. \A x \in Edges': x.epoch = inputEpoch' => lastReliable' < x.seq
    <3>1. SUFFICES ASSUME NEW x \in Edges', x.epoch = inputEpoch' PROVE lastReliable' < x.seq
      OBVIOUS
    <3>2. CASE x \in Edges  BY <1>10, <3>1, <3>2 DEF Expected
    <3>3. CASE x = m /\ m.kind \in EdgeKinds  BY <1>1, <1>10, <3>1, <3>3 DEF Expected
    <3>4. QED  BY <1>2, <3>1, <3>2, <3>3
  <2>4. QED  BY <2>1, <2>2, <2>3 DEF Expected
<1>11. QED  BY <1>3, <1>9, <1>10

\* A release-all that opens a new epoch in place of the queue.
LEMMA ReplacedNumbered ==
  ASSUME TypeOK, TypeOK', Numbered, NEW m \in Message, m.order = nextOrder + 1, Replaced(m),
         nextOrder' = nextOrder + 1
  PROVE  /\ Numbered' /\ NothingHeld'
         /\ Expected /\ UNCHANGED <<inputEpoch, lastReliable>> => Expected'
<1>1. /\ \A x \in Message: x.order \in Nat /\ x.epoch \in Nat /\ x.seq \in Nat
      /\ Inputs \subseteq Message /\ Edges \subseteq Inputs
      /\ nextOrder \in Nat /\ nextReliable \in Nat /\ epoch \in Nat /\ inputEpoch \in Nat /\ lastReliable \in Nat
  BY FlyingType
<1>2. PICK n \in Message: /\ n.kind = "releaseAll" /\ n.order = m.order /\ n.epoch = epoch + 1
                          /\ n \in Inputs' /\ Inputs' \subseteq Inputs \cup {n}
                          /\ \A x \in Inputs': x = n \/ x.epoch <= epoch
  BY DEF Replaced
<1>3. epoch' = epoch + 1 /\ nextReliable' = 0  BY DEF Replaced
<1>4. \A x \in Inputs: /\ x.order < n.order /\ x.order <= nextOrder /\ x.epoch <= epoch
                       /\ x.order \in Nat /\ x.epoch \in Nat /\ ~(n.order < x.order) /\ x.epoch # epoch + 1
  BY <1>1, <1>2 DEF Numbered
<1>5. NothingHeld'  BY <1>2, <1>4, AllReleased
<1>6. Edges' \subseteq Edges  BY <1>2 DEF Edges, EdgeKinds
<1>7. \A x \in Inputs': x.order <= nextOrder' /\ x.epoch <= epoch'
  <2>1. SUFFICES ASSUME NEW x \in Inputs' PROVE x.order <= nextOrder' /\ x.epoch <= epoch'  OBVIOUS
  <2>2. CASE x = n  BY <1>1, <1>2, <1>3, <2>2
  <2>3. CASE x \in Inputs  BY <1>1, <1>3, <1>4, <2>3
  <2>4. QED  BY <1>2, <2>2, <2>3
<1>8. \A x, y \in Inputs': x.order < y.order => x.epoch <= y.epoch
  <2>1. SUFFICES ASSUME NEW x \in Inputs', NEW y \in Inputs', x.order < y.order PROVE x.epoch <= y.epoch
    OBVIOUS
  <2>2. CASE x = n  BY <1>1, <1>2, <1>4, <2>1, <2>2
  <2>3. CASE x \in Inputs /\ y = n  BY <1>1, <1>2, <1>4, <2>3
  <2>4. CASE x \in Inputs /\ y \in Inputs  BY <2>1, <2>4 DEF Numbered
  <2>5. QED  BY <1>2, <2>2, <2>3, <2>4
<1>9. \A x \in Edges': x.seq > 0 /\ (x.epoch = epoch' => x.seq <= nextReliable')
  BY <1>1, <1>3, <1>4, <1>6 DEF Numbered
<1>10. \A x, y \in Edges': x.order < y.order /\ x.epoch = y.epoch => x.seq < y.seq  BY <1>6 DEF Numbered
<1>11. Numbered'  BY <1>7, <1>8, <1>9, <1>10 DEF Numbered
<1>12. ASSUME Expected, UNCHANGED <<inputEpoch, lastReliable>> PROVE Expected'
  <2>1. inputEpoch' <= epoch' /\ inputEpoch' # epoch'  BY <1>1, <1>3, <1>12 DEF Expected
  <2>2. \A x \in Inputs': inputEpoch' <= x.epoch  BY <1>1, <1>2, <1>12 DEF Expected
  <2>3. \A x \in Edges': x.epoch = inputEpoch' => lastReliable' < x.seq  BY <1>6, <1>12 DEF Expected
  <2>4. QED  BY <2>1, <2>2, <2>3 DEF Expected
<1>13. QED  BY <1>5, <1>11, <1>12

\* A user's edge: it was queued behind everything, or refused with its number used up.
LEMMA EdgeHeld ==
  ASSUME TypeOK, Numbered, Expected, Held, ~closing,
         UNCHANGED <<foreground, focusMsgs, closing, held, inputEpoch, lastReliable>>,
         NEW e \in Controls, NEW m \in Message, m.kind = (IF e \in down THEN "release" ELSE "press"),
         foreground \/ m.kind = "release", m.ctl = e, m.seq = nextReliable + 1, m.epoch = epoch,
         \A x \in Inputs: x.order < m.order,
         down' = (IF e \in down THEN down \ {e} ELSE down \cup {e}),
         epoch' = epoch, nextReliable' = nextReliable + 1,
         Inputs' = Inputs \cup {m} \/ Inputs' = Inputs
  PROVE  Held'
<1>1. /\ nextReliable \in Nat /\ lastReliable \in Nat
      /\ \A x \in Inputs: x.seq \in Nat
      /\ Edges \subseteq Inputs
  BY FlyingType
<1>2. /\ nextReliable + 1 \in 1..nextReliable'
      /\ \A n \in 1..nextReliable: n \in 1..nextReliable' /\ n # nextReliable + 1 /\ n \in Nat /\ n <= nextReliable + 1
      /\ \A n \in 1..nextReliable': n \in 1..nextReliable \/ n = nextReliable + 1
  BY <1>1
<1>3. ~Seen(nextReliable + 1)
  <2>1. \A x \in Edges: x.epoch = epoch => x.seq # nextReliable + 1  BY <1>1 DEF Numbered
  <2>2. inputEpoch = epoch => ~(nextReliable + 1 <= lastReliable)  BY <1>1 DEF Expected
  <2>3. QED  BY <2>1, <2>2 DEF Seen
<1>4. LossPending' = LossPending  BY DEF LossPending
<1>5. m.kind \in EdgeKinds  BY DEF EdgeKinds
<1>6. CASE Inputs' = Inputs \cup {m}
  <2>1. Edges' = Edges \cup {m}  BY <1>5, <1>6 DEF Edges
  <2>2. \A n: Seen(n)' <=> Seen(n) \/ n = nextReliable + 1  BY <2>1 DEF Seen
  <2>3. ASSUME Whole', NEW c \in Controls, Holds(c)'
        PROVE  c \in down' \/ LossPending'
    <3>1. Whole  BY <1>2, <2>2, <2>3 DEF Whole
    <3>2. (m.kind = "press" /\ m.ctl = c) \/ (Holds(c) /\ ~Lifts(m, c))
      BY <1>5, <1>6, <2>3, EdgeTurns
    <3>3. CASE m.kind = "press" /\ m.ctl = c  BY <3>3
    <3>4. CASE Holds(c) /\ ~Lifts(m, c)
      <4>1. c \in down \/ LossPending  BY <2>3, <3>1, <3>4 DEF Held
      <4>2. e \in down => c # e  BY <3>4 DEF Lifts
      <4>3. QED  BY <1>4, <4>1, <4>2
    <3>5. QED  BY <3>2, <3>3, <3>4
  <2>4. ~(\A n \in 1..nextReliable': ~Seen(n)')  BY <1>2, <2>2
  <2>5. Whole' => \A c \in Controls: Holds(c)' => c \in down' \/ LossPending'  BY <2>3
  <2>6. ASSUME ~foreground, focusMsgs = <<>>, NEW c \in Controls, Holds(c)' PROVE FALSE
    <3>1. m.kind = "release" /\ NothingHeld  BY <2>6 DEF Held
    <3>2. Holds(c)  BY <1>5, <1>6, <2>6, <3>1, EdgeTurns
    <3>3. QED  BY <3>1, <3>2 DEF NothingHeld
  <2>7. ~foreground' /\ focusMsgs' = <<>> => NothingHeld'  BY <2>6 DEF NothingHeld
  <2>8. QED  BY <2>4, <2>5, <2>7 DEF Held
<1>7. CASE Inputs' = Inputs
  <2>1. /\ NothingHeld' <=> NothingHeld
        /\ \A n: Seen(n)' <=> Seen(n)
    BY <1>7, SameInputs
  <2>2. (\A n \in 1..nextReliable': ~Seen(n)') => NothingHeld'  BY <1>2, <2>1 DEF Held
  <2>3. Whole' => NothingHeld'
    <3>1. ASSUME Whole', NEW a \in 1..nextReliable, Seen(a) PROVE FALSE
      <4>1. PICK k \in Nat: k = nextReliable + 1  BY <1>1
      <4>2. Seen(a)' /\ a \in 1..nextReliable' /\ k \in 1..nextReliable' /\ a <= k
        BY <1>2, <2>1, <3>1, <4>1
      <4>3. Seen(k)'  BY <3>1, <4>2 DEF Whole
      <4>4. Seen(k)  BY <2>1, <4>3
      <4>5. QED  BY <1>3, <4>1, <4>4
    <3>2. QED  BY <2>1, <3>1 DEF Held
  <2>4. Whole' => \A c \in Controls: Holds(c)' => c \in down' \/ LossPending'  BY <2>3 DEF NothingHeld
  <2>5. (~foreground' /\ focusMsgs' = <<>> => NothingHeld') /\ ~closing'  BY <2>1 DEF Held
  <2>6. QED  BY <2>2, <2>4, <2>5 DEF Held
<1>8. QED  BY <1>6, <1>7

\* Nothing that the worker still has to apply is stale: it applies the input,
\* and what is held, numbered and seen stays as promised, or it ends.
LEMMA ReceiveHeld ==
  ASSUME TypeOK, Numbered, Expected, Held,
         UNCHANGED <<down, foreground, focusMsgs, closing, epoch, nextReliable>>,
         NEW h \in Message,
         h.kind \notin InputKinds => Inputs' = Inputs,
         h.kind \in InputKinds => /\ h \in Inputs /\ Inputs' = Inputs \ {h}
                                  /\ \A m \in Inputs': h.order < m.order,
         Receive(h), worker' = "running", fault' = fault
  PROVE  Expected' /\ Held'
<1>1. /\ \A x \in Message: x.order \in Nat /\ x.epoch \in Nat /\ x.seq \in Nat
      /\ Inputs \subseteq Message /\ Edges \subseteq Inputs
      /\ nextReliable \in Nat /\ epoch \in Nat /\ inputEpoch \in Nat /\ lastReliable \in Nat
  BY FlyingType
<1>2. "releaseAll" \in InputKinds /\ EdgeKinds \subseteq InputKinds /\ "releaseAll" \notin EdgeKinds
  BY DEF InputKinds, EdgeKinds
<1>3. CASE h.kind \notin InputKinds
  <2>1. UNCHANGED <<inputEpoch, lastReliable, held>>
    BY <1>1, <1>2, <1>3 DEF Receive, InjectEdge, InjectMove, InjectReleaseAll, IgnoreOther
  <2>2. Inputs' = Inputs /\ Edges' = Edges  BY <1>3 DEF Edges
  <2>3. Expected'  BY <2>1, <2>2 DEF Expected
  <2>4. Held'  BY <2>1, <2>2, SameInputs, HeldKept
  <2>5. QED  BY <2>3, <2>4
<1>4. CASE h.kind \in InputKinds
  <2>1. /\ h \in Inputs /\ Inputs' = Inputs \ {h}
        /\ \A m \in Inputs': h.order < m.order
        /\ inputEpoch <= h.epoch /\ h.epoch <= epoch
        /\ \A m \in Inputs': m \in Inputs /\ h.epoch <= m.epoch
    BY <1>4 DEF Expected, Numbered
  <2>2. Edges' = Edges \ {h}  BY <2>1 DEF Edges
  <2>3. CASE h.kind \in EdgeKinds
    <3>1. h \in Edges /\ h.kind # "releaseAll"  BY <1>2, <2>1, <2>3 DEF Edges
    <3>2. h.epoch = inputEpoch
      BY <1>1, <2>1, <3>1 DEF Receive
    <3>3. InjectEdge(h)
      BY <1>1, <2>3, <3>1, <3>2 DEF Receive, InjectMove, InjectReleaseAll, IgnoreOther, EdgeKinds
    <3>4. lastReliable < h.seq /\ h.seq > 0  BY <3>1, <3>2 DEF Expected, Numbered
    <3>5. ~StaleReliable(h, lastReliable)  BY <1>1, <3>4 DEF StaleReliable
    <3>6. /\ ~GapReliable(h, lastReliable) /\ lastReliable' = h.seq /\ held' = Applied(h) /\ inputEpoch' = inputEpoch
      BY <3>3, <3>5 DEF InjectEdge
    <3>7. \A m \in Edges': m.epoch = h.epoch => h.seq < m.seq  BY <2>1, <2>2, <3>1 DEF Numbered, Edges
    <3>8. Expected'
      <4>1. inputEpoch' = epoch' => lastReliable' <= nextReliable'  BY <3>1, <3>2, <3>6 DEF Numbered
      <4>2. \A m \in Inputs': inputEpoch' <= m.epoch  BY <2>1, <3>2, <3>6
      <4>3. \A m \in Edges': m.epoch = inputEpoch' => lastReliable' < m.seq  BY <3>2, <3>6, <3>7
      <4>4. QED  BY <2>1, <3>2, <3>6, <4>1, <4>2, <4>3 DEF Expected
    <3>9. \A c \in Controls: Holds(c)' => Holds(c)
      BY <2>1, <2>3, <3>1, <3>6, AppliedHolds
    <3>10. \A n \in 1..nextReliable: Seen(n) => Seen(n)'
      <4>1. SUFFICES ASSUME NEW n \in 1..nextReliable, Seen(n) PROVE Seen(n)'  OBVIOUS
      <4>2. CASE inputEpoch = epoch /\ lastReliable # 0 /\ n <= lastReliable
        BY <1>1, <3>2, <3>4, <3>6, <4>2 DEF Seen
      <4>3. CASE \E m \in Edges: m.epoch = epoch /\ m.seq = n
        <5>1. PICK m \in Edges: m.epoch = epoch /\ m.seq = n  BY <4>3
        <5>2. CASE m = h
          BY <1>1, <3>2, <3>4, <3>6, <5>1, <5>2 DEF Seen
        <5>3. CASE m # h  BY <2>2, <5>1, <5>3 DEF Seen
        <5>4. QED  BY <5>2, <5>3
      <4>4. QED  BY <4>1, <4>2, <4>3 DEF Seen
    <3>11. \A a, n \in 1..nextReliable: Seen(a) /\ a <= n /\ Seen(n)' => Seen(n)
      <4>1. SUFFICES ASSUME NEW a \in 1..nextReliable, NEW n \in 1..nextReliable,
                            Seen(a), a <= n, Seen(n)'
                     PROVE  Seen(n)
        OBVIOUS
      <4>2. CASE \E m \in Edges': m.epoch = epoch' /\ m.seq = n
        BY <2>2, <4>2 DEF Seen
      <4>3. CASE inputEpoch' = epoch' /\ lastReliable' # 0 /\ n <= lastReliable'
        <5>1. inputEpoch = epoch /\ n <= h.seq /\ h.epoch = epoch  BY <3>2, <3>6, <4>3
        <5>2. CASE n = h.seq  BY <3>1, <5>1, <5>2 DEF Seen
        <5>3. CASE n < h.seq /\ lastReliable # 0
          <6>1. h.seq <= lastReliable + 1  BY <1>1, <3>6, <5>3 DEF GapReliable
          <6>2. n <= lastReliable  BY <1>1, <5>3, <6>1
          <6>3. QED  BY <5>1, <5>3, <6>2 DEF Seen
        <5>4. CASE n < h.seq /\ lastReliable = 0
          <6>1. PICK m \in Edges: m.epoch = epoch /\ m.seq = a  BY <4>1, <5>4 DEF Seen
          <6>2. a < h.seq  BY <1>1, <4>1, <5>4
          <6>3. m # h  BY <1>1, <6>1, <6>2
          <6>4. h.seq < a  BY <2>2, <3>7, <5>1, <6>1, <6>3
          <6>5. QED  BY <1>1, <6>2, <6>4
        <5>5. QED  BY <1>1, <5>1, <5>2, <5>3, <5>4
      <4>4. QED  BY <4>1, <4>2, <4>3 DEF Seen
    <3>12. Held'  BY <3>9, <3>10, <3>11, HeldKept
    <3>13. QED  BY <3>8, <3>12
  <2>4. CASE h.kind = "releaseAll"
    <3>1. Edges' = Edges  BY <1>2, <2>2, <2>4 DEF Edges
    <3>2. held' = {} /\ \/ UNCHANGED <<inputEpoch, lastReliable>>
                        \/ inputEpoch < h.epoch /\ inputEpoch' = h.epoch /\ lastReliable' = 0
      BY <1>1, <1>2, <2>1, <2>4
      DEF Receive, InjectEdge, InjectMove, InjectReleaseAll, IgnoreOther, EnterEpoch
    <3>3. \A c \in Controls: Holds(c)' => Holds(c)
      BY <1>2, <2>1, <2>4, <3>2, AppliedHolds
    <3>4. CASE UNCHANGED <<inputEpoch, lastReliable>>
      <4>1. Expected'  BY <2>1, <3>1, <3>4 DEF Expected
      <4>2. \A n: Seen(n)' <=> Seen(n)  BY <3>1, <3>4 DEF Seen
      <4>3. QED  BY <3>3, <4>1, <4>2, HeldKept
    <3>5. CASE inputEpoch < h.epoch /\ inputEpoch' = h.epoch /\ lastReliable' = 0
      <4>1. inputEpoch # epoch  BY <1>1, <2>1, <3>5
      <4>2. \A n: Seen(n)' <=> Seen(n)  BY <3>1, <3>5, <4>1 DEF Seen
      <4>3. Expected'
        <5>1. inputEpoch' <= epoch' /\ lastReliable' <= nextReliable'  BY <1>1, <2>1, <3>5
        <5>2. \A m \in Edges': m.epoch = inputEpoch' => lastReliable' < m.seq
          BY <1>1, <3>1, <3>5 DEF Numbered
        <5>3. QED  BY <2>1, <3>5, <5>1, <5>2 DEF Expected
      <4>4. QED  BY <3>3, <4>2, <4>3, HeldKept
    <3>6. QED  BY <3>2, <3>4, <3>5
  <2>5. QED  BY <1>4, <2>3, <2>4 DEF InputKinds
<1>5. QED  BY <1>3, <1>4

\* A message of no interest to the worker, a pending motion or a refused one.
LEMMA QuietHold ==
  ASSUME TypeOK, TypeOK', HoldInv, InOrder', FocusOrder', Inputs' = Inputs, nextOrder <= nextOrder',
         UNCHANGED <<down, foreground, focusMsgs, epoch, nextReliable, closing,
                     held, inputEpoch, lastReliable, worker>>
  PROVE  HoldInv'
<1>1. Numbered'
  <2>1. nextReliable <= nextReliable'  BY DEF TypeOK
  <2>2. QED  BY <2>1, FewerNumbered DEF HoldInv
<1>2. ASSUME Expected PROVE Expected'
  <2>1. Edges' = Edges  BY DEF Edges
  <2>2. QED  BY <1>2, <2>1 DEF Expected
<1>3. ASSUME Held PROVE Held'  BY <1>3, SameInputs, HeldKept
<1>4. QED  BY <1>1, <1>2, <1>3 DEF HoldInv

\* A release-all of the window thread.
LEMMA ReleaseHold ==
  ASSUME TypeOK, TypeOK', HoldInv, NEW m \in Message, m.kind = "releaseAll", m.epoch = epoch,
         m.order = nextOrder + 1, nextOrder' = nextOrder + 1,
         Added(m, nextReliable) \/ Replaced(m),
         UNCHANGED <<held, inputEpoch, lastReliable, worker>>, InOrder', FocusOrder'
  PROVE  HoldInv'
<1>1. m.kind \in InputKinds /\ m.kind \notin EdgeKinds  BY DEF InputKinds, EdgeKinds
<1>2. /\ Numbered' /\ NothingHeld'
      /\ Expected => Expected'
  <2>1. CASE Added(m, nextReliable)
    <3>1. epoch' = epoch /\ nextReliable' = nextReliable /\ Inputs' = Inputs \cup {m}
      BY <1>1, <2>1 DEF Added
    <3>2. /\ Numbered'
          /\ Expected => Expected'
          /\ \A x \in Inputs: x.order < m.order
      BY <1>1, <3>1, AddedNumbered DEF HoldInv
    <3>3. m \in Inputs' /\ Inputs' \subseteq Inputs \cup {m}  BY <3>1
    <3>4. NothingHeld'  BY <3>2, <3>3, AllReleased
    <3>5. QED  BY <3>2, <3>4
  <2>2. CASE Replaced(m)  BY <2>2, ReplacedNumbered DEF HoldInv
  <2>3. QED  BY <2>1, <2>2
<1>3. QED  BY <1>2, HeldNothing DEF HoldInv

\* The order of the focus messages.
LEMMA FocusSeq ==
  ASSUME TypeOK
  PROVE  /\ focusMsgs \in Seq({"acquired", "lost"})
         /\ \A i \in DOMAIN focusMsgs: focusMsgs[i] \in {"acquired", "lost"} /\ i \in 1..Len(focusMsgs)
         /\ Len(focusMsgs) \in Nat /\ (focusMsgs # <<>> => Len(focusMsgs) >= 1 /\ 1 \in DOMAIN focusMsgs)
         /\ DOMAIN focusMsgs = 1..Len(focusMsgs)
BY DEF TypeOK

LEMMA FocusTaken ==
  ASSUME TypeOK, focusMsgs # <<>>, focusMsgs' = Tail(focusMsgs)
  PROVE  /\ focusMsgs' \in Seq({"acquired", "lost"}) /\ Len(focusMsgs') = Len(focusMsgs) - 1
         /\ Head(focusMsgs) = focusMsgs[1]
         /\ \A i \in DOMAIN focusMsgs': i + 1 \in DOMAIN focusMsgs /\ focusMsgs'[i] = focusMsgs[i + 1]
         /\ \A i \in DOMAIN focusMsgs: i = 1 \/ (i - 1 \in DOMAIN focusMsgs' /\ focusMsgs'[i - 1] = focusMsgs[i])
         /\ focusMsgs' # <<>> => /\ Len(focusMsgs') \in DOMAIN focusMsgs'
                                 /\ focusMsgs'[Len(focusMsgs')] = focusMsgs[Len(focusMsgs)]
                                 /\ focusMsgs'[1] = focusMsgs[2] /\ 2 \in DOMAIN focusMsgs
         /\ focusMsgs' = <<>> => Len(focusMsgs) = 1
BY FocusSeq

LEMMA FocusStep ==
  ASSUME TypeOK, FocusOrder, FocusAcquired \/ FocusLost \/ ForegroundChanges
  PROVE  /\ FocusOrder'
         /\ FocusLost => focused
         /\ FocusAcquired => ~(~foreground /\ focusMsgs' = <<>>)
<1>1. CASE ForegroundChanges
  <2> DEFINE word == IF foreground THEN "lost" ELSE "acquired"
  <2>1. /\ focusMsgs' = Append(focusMsgs, word) /\ foreground' = ~foreground /\ focused' = focused
        /\ focusMsgs \in Seq({"acquired", "lost"}) /\ word \in {"acquired", "lost"}
    BY <1>1 DEF ForegroundChanges, TypeOK
  <2> HIDE DEF word
  <2>2. /\ Len(focusMsgs') = Len(focusMsgs) + 1 /\ focusMsgs'[Len(focusMsgs) + 1] = word
        /\ \A i \in DOMAIN focusMsgs: focusMsgs'[i] = focusMsgs[i]
        /\ \A i \in DOMAIN focusMsgs': i \in DOMAIN focusMsgs \/ i = Len(focusMsgs) + 1
        /\ focusMsgs' # <<>>
    BY <2>1
  <2>3. focusMsgs'[Len(focusMsgs')] = (IF foreground' THEN "acquired" ELSE "lost")
    BY <2>1, <2>2 DEF word, TypeOK
  <2>4. focusMsgs'[1] = "lost" => focused'
    <3>1. CASE focusMsgs = <<>>
      <4>1. focusMsgs'[1] = word  BY <2>2, <3>1
      <4>2. QED  BY <2>1, <3>1, <4>1 DEF word, FocusOrder
    <3>2. CASE focusMsgs # <<>>
      <4>1. focusMsgs'[1] = focusMsgs[1]  BY <2>2, <3>2, FocusSeq
      <4>2. QED  BY <2>1, <3>2, <4>1 DEF FocusOrder
    <3>3. QED  BY <3>1, <3>2
  <2>5. ASSUME NEW i \in DOMAIN focusMsgs', i > 1 PROVE focusMsgs'[i - 1] # focusMsgs'[i]
    <3>1. CASE i \in DOMAIN focusMsgs
      <4>1. i - 1 \in DOMAIN focusMsgs  BY <2>5, <3>1, FocusSeq
      <4>2. QED  BY <2>2, <2>5, <3>1, <4>1 DEF FocusOrder
    <3>2. CASE i = Len(focusMsgs) + 1
      <4>1. i - 1 = Len(focusMsgs) /\ focusMsgs # <<>> /\ Len(focusMsgs) \in DOMAIN focusMsgs
        BY <2>5, <3>2, FocusSeq
      <4>2. focusMsgs'[i - 1] = focusMsgs[Len(focusMsgs)] /\ focusMsgs'[i] = word
        BY <2>2, <3>2, <4>1
      <4>3. QED  BY <4>1, <4>2 DEF word, FocusOrder
    <3>3. QED  BY <2>2, <2>5, <3>1, <3>2
  <2>6. FocusOrder'  BY <2>2, <2>3, <2>4, <2>5 DEF FocusOrder
  <2>7. ~FocusAcquired /\ ~FocusLost
    <3>1. Len(focusMsgs') = Len(focusMsgs) + 1 /\ Len(focusMsgs) \in Nat  BY <2>2, FocusSeq
    <3>2. focusMsgs # <<>> /\ focusMsgs' = Tail(focusMsgs) => Len(focusMsgs') = Len(focusMsgs) - 1
      BY FocusTaken
    <3>3. ~(focusMsgs # <<>> /\ focusMsgs' = Tail(focusMsgs))  BY <3>1, <3>2
    <3>4. QED  BY <3>3, Zenon DEF FocusAcquired, FocusLost
  <2>8. QED  BY <2>6, <2>7
<1>2. CASE FocusAcquired \/ FocusLost
  <2>1. /\ focusMsgs # <<>> /\ focusMsgs' = Tail(focusMsgs) /\ foreground' = foreground
        /\ \/ FocusAcquired /\ Head(focusMsgs) = "acquired" /\ focused' = TRUE
           \/ FocusLost /\ Head(focusMsgs) = "lost" /\ focused' = FALSE
    BY <1>2, Zenon DEF FocusAcquired, FocusLost
  <2>2. /\ focusMsgs' \in Seq({"acquired", "lost"}) /\ Len(focusMsgs') = Len(focusMsgs) - 1
        /\ Head(focusMsgs) = focusMsgs[1]
        /\ \A i \in DOMAIN focusMsgs': i + 1 \in DOMAIN focusMsgs /\ focusMsgs'[i] = focusMsgs[i + 1] /\ i \in Nat
        /\ focusMsgs' # <<>> => /\ focusMsgs'[Len(focusMsgs')] = focusMsgs[Len(focusMsgs)]
                                /\ focusMsgs'[1] = focusMsgs[2] /\ 2 \in DOMAIN focusMsgs
        /\ focusMsgs' = <<>> => Len(focusMsgs) = 1
    BY <2>1, FocusTaken
  <2>3. focusMsgs[Len(focusMsgs)] = (IF foreground THEN "acquired" ELSE "lost")
    BY <2>1 DEF FocusOrder
  <2>4. ASSUME focusMsgs' # <<>>, focusMsgs'[1] = "lost" PROVE focused'
    <3>0. 2 \in DOMAIN focusMsgs /\ 2 > 1 /\ 2 - 1 = 1  BY <2>2, <2>4
    <3>1. focusMsgs[2 - 1] # focusMsgs[2]  BY <3>0, Zenon DEF FocusOrder
    <3>2. focusMsgs[1] # "lost"  BY <2>2, <2>4, <3>0, <3>1
    <3>3. QED  BY <2>1, <2>2, <3>2
  <2>5. ASSUME focusMsgs' = <<>> PROVE (IF foreground THEN "acquired" ELSE "lost") = Head(focusMsgs)
    BY <2>2, <2>3, <2>5
  <2>6. ASSUME NEW i \in DOMAIN focusMsgs', i > 1 PROVE focusMsgs'[i - 1] # focusMsgs'[i]
    <3>1. i - 1 \in DOMAIN focusMsgs'  BY <2>2, <2>6
    <3>2. focusMsgs'[i - 1] = focusMsgs[i] /\ focusMsgs'[i] = focusMsgs[i + 1] /\ i + 1 \in DOMAIN focusMsgs
      BY <2>2, <2>6, <3>1
    <3>3. i + 1 > 1 /\ (i + 1) - 1 = i  BY <2>2, <2>6, SMTT(60)
    <3>4. focusMsgs[(i + 1) - 1] # focusMsgs[i + 1]  BY <3>2, <3>3 DEF FocusOrder
    <3>5. QED  BY <3>2, <3>3, <3>4
  <2>7. FocusOrder'
    <3>1. focusMsgs' # <<>> => /\ focusMsgs'[Len(focusMsgs')] = (IF foreground' THEN "acquired" ELSE "lost")
                               /\ focusMsgs'[1] = "lost" => focused'
      BY <2>1, <2>2, <2>3, <2>4
    <3>2. focusMsgs' = <<>> /\ foreground' => focused'  BY <2>1, <2>5
    <3>3. QED  BY <2>6, <3>1, <3>2 DEF FocusOrder
  <2>8. FocusLost => focused
    <3>1. FocusLost => Head(focusMsgs) = "lost"  BY Zenon DEF FocusLost
    <3>2. QED  BY <2>1, <2>2, <3>1 DEF FocusOrder
  <2>9. FocusAcquired => ~(~foreground /\ focusMsgs' = <<>>)
    <3>1. FocusAcquired => Head(focusMsgs) = "acquired"  BY Zenon DEF FocusAcquired
    <3>2. QED  BY <2>5, <3>1
  <2>10. QED  BY <2>7, <2>8, <2>9
<1>3. QED  BY <1>1, <1>2

LEMMA HoldInit == Init => HoldInv
<1> SUFFICES ASSUME Init PROVE HoldInv  OBVIOUS
<1>1. /\ Inputs = {} /\ Edges = {}
      /\ wire = <<>> /\ reliable = <<>> /\ pointer = None /\ held = {}
  BY DEF Init, Inputs, Flying, Edges
<1>2. InOrder  BY <1>1 DEF InOrder
<1>3. Numbered  BY <1>1 DEF Numbered
<1>4. FocusOrder
  <2>1. focusMsgs = <<"acquired">> /\ foreground /\ focused  BY DEF Init
  <2>2. Len(focusMsgs) = 1 /\ focusMsgs[1] = "acquired" /\ DOMAIN focusMsgs = {1} /\ focusMsgs # <<>>  BY <2>1
  <2>3. QED  BY <2>1, <2>2 DEF FocusOrder
<1>5. Expected  BY <1>1 DEF Expected, Init
<1>6. Held
  <2>1. \A c \in Controls: ~Holds(c)  BY <1>1 DEF Holds
  <2>2. QED  BY <2>1 DEF Held, NothingHeld
<1>7. QED  BY <1>2, <1>3, <1>4, <1>5, <1>6 DEF HoldInv

LEMMA HoldStep == TypeOK /\ HoldInv /\ [Next]_vars => HoldInv'
<1> SUFFICES ASSUME TypeOK, HoldInv, [Next]_vars PROVE HoldInv'  OBVIOUS
<1>t. TypeOK'  BY TypeStep
<1> USE DEF userVars, queueVars, writerVars, agentVars
<1>n. nextOrder \in Nat /\ nextReliable \in Nat /\ "releaseAll" \notin EdgeKinds
  BY DEF TypeOK, EdgeKinds
<1>f. ASSUME UNCHANGED <<focusMsgs, foreground, focused>> PROVE FocusOrder'
  BY <1>f DEF HoldInv, FocusOrder
<1>o. /\ InOrder /\ Numbered /\ FocusOrder
      /\ \A x \in Inputs: x.order <= nextOrder /\ x.epoch <= epoch
  BY DEF HoldInv, Numbered
<1>1. ASSUME NEW c \in Controls, Edge(c) PROVE HoldInv'
  <2> DEFINE kind == IF c \in down THEN "release" ELSE "press"
             m == MakeMessage(kind, c, motion, nextReliable + 1)
  <2>1. /\ ~closing /\ wire' = wire
        /\ down' = (IF c \in down THEN down \ {c} ELSE down \cup {c})
        /\ UNCHANGED <<foreground, focusMsgs, focused, closing, held, inputEpoch, lastReliable, worker>>
        /\ \/ (foreground \/ kind = "release") /\ EnqueueReliable(m, nextReliable + 1)
           \/ ~foreground /\ UNCHANGED queueVars
    BY <1>1, Zenon DEF Edge, Queueing, Reaches, EdgeForwarded
  <2>2. FocusOrder'  BY <1>f, <2>1
  <2>3. CASE (foreground \/ kind = "release") /\ EnqueueReliable(m, nextReliable + 1)
    <3>1. kind \in {"press", "release"} /\ kind \in EdgeKinds /\ kind \in Kinds /\ kind # "releaseAll"
      BY DEF EdgeKinds, Kinds, InputKinds
    <3>2. nextReliable + 1 \in Nat /\ motion \in Positions \cup {None}  BY DEF TypeOK
    <3>3. m.ctl = c /\ m.seq = nextReliable + 1  BY DEF MakeMessage
    <3>4. /\ m \in Message /\ m.epoch = epoch /\ m.order = nextOrder + 1 /\ m.kind = kind
      BY <3>1, <3>2, MessageType
    <3> HIDE DEF m
    <3>5. /\ InOrder' /\ nextOrder' = nextOrder + 1
          /\ Added(m, nextReliable + 1) \/ Turned(m, nextReliable + 1)
      <4>1. /\ InOrder' /\ nextOrder' = nextOrder + 1
            /\ Added(m, nextReliable + 1) \/ Replaced(m) \/ Turned(m, nextReliable + 1)
        BY <1>o, <2>1, <2>3, <3>4, EnqueueFlying
      <4>2. ~Replaced(m)  BY <3>1, <3>4 DEF Replaced
      <4>3. QED  BY <4>1, <4>2
    <3>6. epoch' = epoch /\ nextReliable' = nextReliable + 1  BY <3>5 DEF Added, Turned
    <3>7. m.kind \in InputKinds /\ m.kind \in EdgeKinds  BY <3>1, <3>4 DEF InputKinds
    <3>8. \A x \in Inputs: x.order < m.order  BY <1>n, <1>o, <3>4, FlyingType
    <3>9. Inputs' = Inputs \cup {m} \/ Inputs' = Inputs  BY <3>5, <3>7 DEF Added, Turned
    <3>10. Numbered' /\ (Expected => Expected')
      <4>1. CASE Inputs' = Inputs \cup {m}
        BY <1>t, <1>o, <2>1, <3>3, <3>4, <3>5, <3>6, <3>7, <4>1, AddedNumbered
      <4>2. CASE Inputs' = Inputs
        <5>1. nextOrder <= nextOrder' /\ nextReliable <= nextReliable'  BY <1>n, <3>5, <3>6
        <5>2. Numbered'  BY <1>t, <1>o, <3>6, <4>2, <5>1, FewerNumbered
        <5>3. Edges' = Edges  BY <4>2 DEF Edges
        <5>4. ASSUME Expected PROVE Expected'
          <6>1. inputEpoch' = epoch' => lastReliable' <= nextReliable'
            BY <1>n, <2>1, <3>6, <5>4 DEF Expected, TypeOK
          <6>2. QED  BY <2>1, <3>6, <4>2, <5>3, <5>4, <6>1 DEF Expected
        <5>5. QED  BY <5>2, <5>4
      <4>3. QED  BY <3>9, <4>1, <4>2
    <3>11. ASSUME Expected, Held PROVE Held'
      BY <1>o, <2>1, <2>3, <3>3, <3>4, <3>6, <3>8, <3>9, <3>11, EdgeHeld
    <3>12. QED  BY <2>1, <2>2, <3>5, <3>10, <3>11 DEF HoldInv
  <2>4. CASE ~foreground /\ UNCHANGED queueVars
    <3>1. Inputs' = Inputs /\ Edges' = Edges /\ InOrder'
      BY <1>o, <2>1, <2>4 DEF Inputs, Flying, Edges, InOrder
    <3>2. Numbered' /\ (Expected => Expected')  BY <1>o, <2>1, <2>4, <3>1 DEF Numbered, Expected
    <3>3. ASSUME Held PROVE Held'
      <4>1. /\ NothingHeld' <=> NothingHeld
            /\ \A n: Seen(n)' <=> Seen(n)
        BY <2>1, <2>4, <3>1, SameInputs
      <4>2. focusMsgs # <<>> => LossPending'
        <5>1. focusMsgs # <<>> => focusMsgs[Len(focusMsgs)] = "lost" /\ Len(focusMsgs) \in DOMAIN focusMsgs
          BY <1>o, <2>4, FocusSeq DEF FocusOrder
        <5>2. QED  BY <2>1, <5>1 DEF LossPending
      <4>3. (\A n \in 1..nextReliable': ~Seen(n)') => NothingHeld'  BY <2>4, <3>3, <4>1 DEF Held
      <4>4. focusMsgs = <<>> => NothingHeld'  BY <2>4, <3>3, <4>1 DEF Held
      <4>5. \A x \in Controls: Holds(x)' => x \in down' \/ LossPending'  BY <4>2, <4>4 DEF NothingHeld
      <4>6. QED  BY <2>1, <4>3, <4>4, <4>5 DEF Held
    <3>4. QED  BY <2>1, <2>2, <3>1, <3>2, <3>3 DEF HoldInv
  <2>5. QED  BY <2>1, <2>3, <2>4
<1>2. ASSUME NEW p \in Positions, Move(p) PROVE HoldInv'
  <2>1. pointer'.kind = "move"  BY <1>2 DEF Move, MakeMessage
  <2>2. Inputs' = Inputs /\ InOrder'  BY <1>2, <1>o, <2>1 DEF Move, Inputs, Flying, InOrder
  <2>3. nextOrder <= nextOrder'  BY <1>2, <1>n DEF Move
  <2>4. FocusOrder'  BY <1>2, <1>f DEF Move
  <2>5. UNCHANGED <<down, foreground, focusMsgs, epoch, nextReliable, closing,
                    held, inputEpoch, lastReliable, worker>>
    BY <1>2 DEF Move
  <2>6. QED  BY <1>t, <2>2, <2>3, <2>4, <2>5, QuietHold
<1>3. CASE OtherControl
  <2> DEFINE m == MakeMessage("other", None, None, 0)
  <2>1. m \in Message /\ m.order = nextOrder + 1 /\ m.kind = "other"
    <3>1. "other" \in Kinds \ EdgeKinds  BY DEF Kinds, InputKinds, EdgeKinds
    <3>2. QED  BY <3>1, MessageType
  <2>2. EnqueueReliable(m, nextReliable) /\ wire' = wire  BY <1>3, Zenon DEF OtherControl
  <2> HIDE DEF m
  <2>3. InOrder' /\ nextOrder' = nextOrder + 1 /\ (Added(m, nextReliable) \/ Replaced(m) \/ Turned(m, nextReliable))
    BY <1>o, <2>1, <2>2, EnqueueFlying
  <2>4. Inputs' = Inputs /\ epoch' = epoch /\ nextReliable' = nextReliable
    BY <2>1, <2>3 DEF Added, Replaced, Turned, InputKinds, EdgeKinds
  <2>5. nextOrder <= nextOrder'  BY <1>n, <2>3
  <2>6. UNCHANGED <<down, foreground, focusMsgs, focused, closing, held, inputEpoch, lastReliable, worker>>
    BY <1>3, Zenon DEF OtherControl
  <2>7. FocusOrder'  BY <1>f, <2>6
  <2>8. QED  BY <1>t, <2>3, <2>4, <2>5, <2>6, <2>7, QuietHold
<1>4. CASE ForegroundChanges
  <2>1. FocusOrder'  BY <1>4, <1>o, FocusStep
  <2>2. /\ UNCHANGED <<wire, reliable, pointer, nextOrder, down, epoch, nextReliable, closing,
                       held, inputEpoch, lastReliable, worker>>
        /\ focusMsgs' = Append(focusMsgs, IF foreground THEN "lost" ELSE "acquired")
    BY <1>4 DEF ForegroundChanges
  <2>3. Inputs' = Inputs /\ Edges' = Edges /\ InOrder'
    BY <1>o, <2>2 DEF Inputs, Flying, Edges, InOrder
  <2>4. Numbered' /\ (Expected => Expected')  BY <1>o, <2>2, <2>3 DEF Numbered, Expected
  <2>5. /\ focusMsgs' # <<>>
        /\ \A i \in DOMAIN focusMsgs: i \in DOMAIN focusMsgs' /\ focusMsgs'[i] = focusMsgs[i]
    BY <2>2, FocusSeq
  <2>6. LossPending => LossPending'  BY <2>5 DEF LossPending
  <2>7. ASSUME Held PROVE Held'
    <3>1. /\ \A c \in Controls: Holds(c)' <=> Holds(c)
          /\ NothingHeld' <=> NothingHeld
          /\ \A n: Seen(n)' <=> Seen(n)
      BY <2>2, <2>3, SameInputs
    <3>2. Whole' => Whole  BY <2>2, <3>1 DEF Whole
    <3>3. (\A n \in 1..nextReliable': ~Seen(n)') => NothingHeld'  BY <2>2, <2>7, <3>1 DEF Held
    <3>4. Whole' => \A c \in Controls: Holds(c)' => c \in down' \/ LossPending'
      BY <2>2, <2>6, <2>7, <3>1, <3>2 DEF Held
    <3>5. closing' => NothingHeld'  BY <2>2, <2>7, <3>1 DEF Held
    <3>6. QED  BY <2>5, <3>3, <3>4, <3>5 DEF Held
  <2>8. QED  BY <2>1, <2>2, <2>3, <2>4, <2>7 DEF HoldInv
<1>5. CASE FocusAcquired
  <2>1. FocusOrder' /\ ~(~foreground /\ focusMsgs' = <<>>)  BY <1>5, <1>o, FocusStep
  <2>2. /\ UNCHANGED <<wire, reliable, pointer, nextOrder, down, foreground, epoch, nextReliable, closing,
                       held, inputEpoch, lastReliable, worker>>
        /\ focusMsgs # <<>> /\ Head(focusMsgs) = "acquired" /\ focusMsgs' = Tail(focusMsgs)
    BY <1>5 DEF FocusAcquired
  <2>3. Inputs' = Inputs /\ Edges' = Edges /\ InOrder'
    BY <1>o, <2>2 DEF Inputs, Flying, Edges, InOrder
  <2>4. Numbered' /\ (Expected => Expected')  BY <1>o, <2>2, <2>3 DEF Numbered, Expected
  <2>5. LossPending => LossPending'
    <3>1. /\ Head(focusMsgs) = focusMsgs[1]
          /\ \A i \in DOMAIN focusMsgs: i = 1 \/ (i - 1 \in DOMAIN focusMsgs' /\ focusMsgs'[i - 1] = focusMsgs[i])
      BY <2>2, FocusTaken
    <3>2. QED  BY <2>2, <3>1 DEF LossPending
  <2>6. ASSUME Held PROVE Held'
    <3>1. /\ \A c \in Controls: Holds(c)' <=> Holds(c)
          /\ NothingHeld' <=> NothingHeld
          /\ \A n: Seen(n)' <=> Seen(n)
      BY <2>2, <2>3, SameInputs
    <3>2. Whole' => Whole  BY <2>2, <3>1 DEF Whole
    <3>3. (\A n \in 1..nextReliable': ~Seen(n)') => NothingHeld'  BY <2>2, <2>6, <3>1 DEF Held
    <3>4. Whole' => \A c \in Controls: Holds(c)' => c \in down' \/ LossPending'
      BY <2>2, <2>5, <2>6, <3>1, <3>2 DEF Held
    <3>5. closing' => NothingHeld'  BY <2>2, <2>6, <3>1 DEF Held
    <3>6. QED  BY <2>1, <2>2, <3>3, <3>4, <3>5 DEF Held
  <2>7. QED  BY <2>1, <2>2, <2>3, <2>4, <2>6 DEF HoldInv
<1>6. CASE FocusLost
  <2>1. FocusOrder' /\ focused  BY <1>6, <1>o, FocusStep
  <2>2. /\ UNCHANGED <<wire, down, foreground, closing, held, inputEpoch, lastReliable, worker>>
        /\ \/ ReleasesOnLoss /\ EnqueueReliable(ReleaseAllMessage, nextReliable)
           \/ ~ReleasesOnLoss /\ UNCHANGED queueVars
    BY <1>6, Zenon DEF FocusLost
  <2>3. CASE EnqueueReliable(ReleaseAllMessage, nextReliable)
    <3> DEFINE m == ReleaseAllMessage
    <3>1. m \in Message /\ m.epoch = epoch /\ m.order = nextOrder + 1 /\ m.kind = "releaseAll"
      BY ReleaseAllType
    <3>2. EnqueueReliable(m, nextReliable)  BY <2>3
    <3> HIDE DEF m
    <3>3. InOrder' /\ nextOrder' = nextOrder + 1 /\ (Added(m, nextReliable) \/ Replaced(m) \/ Turned(m, nextReliable))
      BY <1>o, <2>2, <3>1, <3>2, EnqueueFlying
    <3>4. Added(m, nextReliable) \/ Replaced(m)  BY <3>1, <3>3 DEF Turned
    <3>5. QED  BY <1>t, <2>1, <2>2, <3>1, <3>3, <3>4, ReleaseHold
  <2>4. CASE ~ReleasesOnLoss /\ UNCHANGED queueVars
    <3>1. closing  BY <2>1, <2>4, Zenon DEF ReleasesOnLoss
    <3>2. Inputs' = Inputs /\ Edges' = Edges /\ InOrder'
      BY <1>o, <2>2, <2>4 DEF Inputs, Flying, Edges, InOrder
    <3>3. Numbered' /\ (Expected => Expected')  BY <1>o, <2>2, <2>4, <3>2 DEF Numbered, Expected
    <3>4. ASSUME Held PROVE Held'
      <4>1. NothingHeld' <=> NothingHeld  BY <2>2, <2>4, <3>2, SameInputs
      <4>2. NothingHeld'  BY <3>1, <3>4, <4>1 DEF Held
      <4>3. QED  BY <4>2, HeldNothing
    <3>5. QED  BY <2>1, <2>2, <3>2, <3>3, <3>4 DEF HoldInv
  <2>5. QED  BY <2>2, <2>3, <2>4
<1>7. CASE Stop
  <2> DEFINE m == ReleaseAllMessage
  <2>1. m \in Message /\ m.epoch = epoch /\ m.order = nextOrder + 1 /\ m.kind = "releaseAll"
    BY ReleaseAllType
  <2>2. /\ reliable' = Append(reliable, m) /\ nextOrder' = nextOrder + 1
        /\ UNCHANGED <<wire, pointer, epoch, nextReliable, foreground, focusMsgs, focused,
                       held, inputEpoch, lastReliable, worker>>
    BY <1>7 DEF Stop
  <2> HIDE DEF m
  <2>3. /\ \A i \in DOMAIN reliable: reliable[i].kind \in InputKinds => reliable[i].order < m.order
        /\ \A i \in DOMAIN wire: wire[i].msg.kind \in InputKinds => wire[i].msg.order < m.order
    <3>1. \A x \in Inputs: x.order < m.order  BY <1>n, <1>o, <2>1, FlyingType
    <3>2. QED  BY <3>1 DEF Inputs, Flying
  <2>4. reliable \in Seq(Message)  BY DEF TypeOK
  <2>5. /\ \A i, j \in DOMAIN reliable':
             i < j /\ reliable'[i].kind \in InputKinds /\ reliable'[j].kind \in InputKinds
               => reliable'[i].order < reliable'[j].order
        /\ \A i \in DOMAIN wire, j \in DOMAIN reliable':
             wire[i].msg.kind \in InputKinds /\ reliable'[j].kind \in InputKinds
               => wire[i].msg.order < reliable'[j].order
        /\ {reliable'[i]: i \in DOMAIN reliable'} = {reliable[i]: i \in DOMAIN reliable} \cup {m}
    BY <1>o, <2>1, <2>2, <2>3, <2>4, QueueLast DEF InOrder
  <2>6. InOrder'  BY <1>o, <2>2, <2>5 DEF InOrder
  <2>7. Inputs' = Inputs \cup {m}
    <3>1. Flying' = Flying \cup {m}  BY <2>2, <2>5 DEF Flying
    <3>2. QED  BY <2>1, <3>1 DEF Inputs, InputKinds
  <2>8. Added(m, nextReliable)  BY <2>1, <2>2, <2>7 DEF Added, InputKinds
  <2>9. FocusOrder'  BY <1>f, <2>2
  <2>10. QED  BY <1>t, <2>1, <2>2, <2>6, <2>8, <2>9, ReleaseHold
<1>8. CASE WriterSendsPointer \/ WriterSendsReliable
  <2>1. InOrder' /\ Inputs' = Inputs  BY <1>8, <1>o, SendFlying
  <2>2. /\ UNCHANGED <<down, foreground, focusMsgs, focused, epoch, nextReliable, nextOrder, closing,
                       held, inputEpoch, lastReliable, worker>>
        /\ nextOrder <= nextOrder'
    BY <1>8, <1>n DEF WriterSendsPointer, WriterSendsReliable
  <2>3. FocusOrder'  BY <1>f, <2>2
  <2>4. QED  BY <1>t, <2>1, <2>2, <2>3, QuietHold
<1>9. CASE WriterCloses \/ ConnectionFails \/ UNCHANGED vars
  <2>1. /\ UNCHANGED <<down, foreground, focusMsgs, focused, epoch, nextReliable, nextOrder, closing,
                       held, inputEpoch, lastReliable, worker, wire, reliable, pointer>>
        /\ nextOrder <= nextOrder'
    BY <1>9, <1>n DEF WriterCloses, ConnectionFails, vars
  <2>2. InOrder' /\ Inputs' = Inputs  BY <1>o, <2>1 DEF InOrder, Inputs, Flying
  <2>3. FocusOrder'  BY <1>f, <2>1
  <2>4. QED  BY <1>t, <2>1, <2>2, <2>3, QuietHold
<1>10. CASE WorkerReceives
  <2> DEFINE h == Head(wire).msg
  <2>1. /\ worker = "running" /\ wire # <<>> /\ wire' = Tail(wire)
        /\ UNCHANGED <<down, foreground, focusMsgs, focused, epoch, nextReliable, nextOrder, closing,
                       reliable, pointer>>
        /\ worker' = "ended" \/ Receive(h)
    BY <1>10 DEF WorkerReceives, WorkerEnds
  <2>2. /\ InOrder' /\ h \in Message
        /\ h.kind \notin InputKinds => Inputs' = Inputs
        /\ h.kind \in InputKinds => /\ h \in Inputs /\ Inputs' = Inputs \ {h}
                                    /\ \A m \in Inputs': h.order < m.order
    BY <1>o, <2>1, ReceiveFlying
  <2> HIDE DEF h
  <2>3. Inputs' \subseteq Inputs  BY <2>2
  <2>4. nextOrder <= nextOrder' /\ nextReliable <= nextReliable'  BY <1>n, <2>1
  <2>5. Numbered'  BY <1>t, <1>o, <2>1, <2>3, <2>4, FewerNumbered
  <2>6. FocusOrder'  BY <1>f, <2>1
  <2>7. Expected /\ Held  BY <2>1 DEF HoldInv
  <2>8. ASSUME worker' = "running" PROVE Expected' /\ Held'
    <3>1. Receive(h)  BY <2>1, <2>8
    <3>2. fault' = fault
      BY <2>8, <3>1 DEF Receive, InjectEdge, InjectMove, InjectReleaseAll, IgnoreOther, EnterEpoch
    <3>3. QED  BY <1>o, <2>1, <2>2, <2>7, <2>8, <3>1, <3>2, ReceiveHeld
  <2>9. QED  BY <2>2, <2>5, <2>6, <2>8 DEF HoldInv
<1>11. CASE WorkerEof
  <2>1. /\ worker' = "ended" /\ wire' = <<>>
        /\ UNCHANGED <<foreground, focusMsgs, focused, epoch, nextReliable, nextOrder, reliable, pointer>>
    BY <1>11 DEF WorkerEof, WorkerEnds
  <2>2. Inputs' \subseteq Inputs /\ InOrder'  BY <1>o, <2>1 DEF Inputs, Flying, InOrder
  <2>3. nextOrder <= nextOrder' /\ nextReliable <= nextReliable'  BY <1>n, <2>1
  <2>4. Numbered'  BY <1>t, <1>o, <2>1, <2>2, <2>3, FewerNumbered
  <2>5. FocusOrder'  BY <1>f, <2>1
  <2>6. QED  BY <2>1, <2>2, <2>4, <2>5 DEF HoldInv
<1>12. QED
  BY <1>1, <1>2, <1>3, <1>4, <1>5, <1>6, <1>7, <1>8, <1>9, <1>10, <1>11 DEF Next

LEMMA HoldSettles == TypeOK /\ HoldInv => NoStuckControl
<1> SUFFICES ASSUME TypeOK, HoldInv, Settled
             PROVE  /\ ~foreground => held = {}
                    /\ lastReliable = nextReliable => held \subseteq down
  BY DEF NoStuckControl
<1>1. /\ Held /\ Expected /\ focusMsgs = <<>> /\ held \subseteq Controls
      /\ nextReliable \in Nat /\ lastReliable \in Nat
  BY DEF HoldInv, Settled, TypeOK
<1>2. Inputs = {} /\ Edges = {}  BY DEF Settled, Inputs, Flying, Edges
<1>3. \A c \in Controls: Holds(c) <=> c \in held  BY <1>2 DEF Holds
<1>4. ~foreground => held = {}  BY <1>1, <1>3 DEF Held, NothingHeld
<1>5. ASSUME lastReliable = nextReliable PROVE held \subseteq down
  <2>1. \A n \in 1..nextReliable: Seen(n) <=> inputEpoch = epoch
    BY <1>1, <1>2, <1>5 DEF Seen
  <2>2. Whole  BY <2>1 DEF Whole
  <2>3. ~LossPending  BY <1>1 DEF LossPending
  <2>4. QED  BY <1>1, <1>3, <2>2, <2>3 DEF Held
<1>6. QED  BY <1>4, <1>5

\* When nothing is in flight the Mac holds nothing for a viewer in the background,
\* and nothing its user has let go if every numbered input was applied: for every
\* number of controls, every queue limit, every overflow and every way the focus
\* messages lag behind the foreground window.
THEOREM ControlCorrect == Spec => []NoStuckControl
<1>1. Spec => []HoldInv  BY TypeInit, TypeStep, HoldInit, HoldStep, PTL DEF Spec
<1>2. QED  BY <1>1, TypeCorrect, HoldSettles, PTL

(***************************************************************************)
(* Where an edge acts.  Edges and moves leave the viewer in the order they *)
(* were made; At(e, o, pos) says that what the user makes next after order *)
(* o in epoch e will find the pointer at pos.                              *)
(***************************************************************************)

ActKinds == EdgeKinds \cup {"move"}
Moves == {m \in Flying: m.kind = "move"} \cup (IF pointer = None THEN {} ELSE {pointer})

Before(e, o) == {v \in Moves: v.epoch = e /\ v.order < o}
At(e, o, pos) ==
  \/ Before(e, o) = {} /\ inputEpoch = e /\ remotePos = pos
  \/ \E v \in Before(e, o): v.pos = pos /\ \A w \in Before(e, o): w.order <= v.order

ActOrder ==
  /\ \A i, j \in DOMAIN wire:
       i < j /\ wire[i].msg.kind \in ActKinds /\ wire[j].msg.kind \in ActKinds
         => wire[i].msg.order < wire[j].msg.order
  /\ \A i, j \in DOMAIN reliable:
       i < j /\ reliable[i].kind \in ActKinds /\ reliable[j].kind \in ActKinds
         => reliable[i].order < reliable[j].order
  /\ \A i \in DOMAIN wire, j \in DOMAIN reliable:
       wire[i].msg.kind \in ActKinds /\ reliable[j].kind \in ActKinds
         => wire[i].msg.order < reliable[j].order

\* The pending motion is the newest act, and goes out before what is newer.
PendingLast ==
  /\ \A i \in DOMAIN wire: wire[i].msg.kind \in ActKinds => wire[i].msg.order <= nextOrder
  /\ \A i \in DOMAIN reliable: reliable[i].order <= nextOrder
  /\ pointer # None =>
       /\ pointer.kind = "move"
       /\ \A i \in DOMAIN wire: wire[i].msg.kind \in ActKinds => wire[i].msg.order < pointer.order
       /\ \A i, j \in DOMAIN reliable:
            j <= i /\ reliable[i].kind \in ActKinds => reliable[j].order < pointer.order

Steps ==
  /\ \A v \in Moves: /\ v.order <= nextOrder /\ v.epoch <= epoch /\ v.seq > 0
                     /\ v.epoch = epoch => v.seq <= nextPointer
  /\ \A v, w \in Moves: v.order < w.order /\ v.epoch = w.epoch => v.seq < w.seq

Pointed ==
  /\ inputEpoch = epoch => lastPointer <= nextPointer
  /\ \A v \in Moves: v.epoch = inputEpoch => lastPointer < v.seq
  /\ \A m \in Edges: m.pos # None => At(m.epoch, m.order, m.pos)
  /\ motion # None => At(epoch, nextOrder + 1, motion)

PositionInv == ActOrder /\ PendingLast /\ Steps /\ (worker = "running" => Pointed)

LEMMA MovesType ==
  ASSUME TypeOK
  PROVE  /\ Moves \subseteq Message
         /\ \A m \in Message: m.order \in Nat /\ m.epoch \in Nat /\ m.seq \in Nat
         /\ nextOrder \in Nat /\ nextPointer \in Nat /\ epoch \in Nat
         /\ inputEpoch \in Nat /\ lastPointer \in Nat
         /\ EdgeKinds \subseteq ActKinds /\ "move" \in ActKinds /\ "move" \notin InputKinds
         /\ Edges = {m \in Flying: m.kind \in EdgeKinds}
<1>1. Flying \subseteq Message /\ (pointer # None => pointer \in Message)
  BY FlyingType DEF TypeOK
<1>2. Edges = {m \in Flying: m.kind \in EdgeKinds}  BY DEF Edges, Inputs, InputKinds
<1>3. QED  BY <1>1, <1>2, FlyingType DEF Moves, TypeOK, ActKinds, InputKinds, EdgeKinds

\* A message that is queued last, behind every act before it.
LEMMA ActLast ==
  ASSUME TypeOK, NEW old \in Seq(Message), NEW m \in Message,
         \A i, j \in DOMAIN old:
           i < j /\ old[i].kind \in ActKinds /\ old[j].kind \in ActKinds => old[i].order < old[j].order,
         \A i \in DOMAIN wire, j \in DOMAIN old:
           wire[i].msg.kind \in ActKinds /\ old[j].kind \in ActKinds => wire[i].msg.order < old[j].order,
         m.kind \in ActKinds =>
           /\ \A i \in DOMAIN old: old[i].kind \in ActKinds => old[i].order < m.order
           /\ \A i \in DOMAIN wire: wire[i].msg.kind \in ActKinds => wire[i].msg.order < m.order
  PROVE  LET new == Append(old, m)
         IN  /\ new \in Seq(Message)
             /\ \A i, j \in DOMAIN new:
                  i < j /\ new[i].kind \in ActKinds /\ new[j].kind \in ActKinds => new[i].order < new[j].order
             /\ \A i \in DOMAIN wire, j \in DOMAIN new:
                  wire[i].msg.kind \in ActKinds /\ new[j].kind \in ActKinds => wire[i].msg.order < new[j].order
             /\ {new[i]: i \in DOMAIN new} = {old[i]: i \in DOMAIN old} \cup {m}
<1> DEFINE new == Append(old, m)
<1>1. /\ new \in Seq(Message) /\ Len(new) = Len(old) + 1
      /\ \A i \in DOMAIN old: i \in DOMAIN new /\ new[i] = old[i]
      /\ new[Len(old) + 1] = m /\ Len(old) + 1 \in DOMAIN new
      /\ \A i \in DOMAIN new: i \in DOMAIN old \/ i = Len(old) + 1
      /\ \A i \in DOMAIN old: i < Len(old) + 1 /\ i \in Nat
      /\ Len(old) \in Nat
  BY AppendSeq
<1> HIDE DEF new
<1>2. ASSUME NEW i \in DOMAIN new, NEW j \in DOMAIN new, i < j,
             new[i].kind \in ActKinds, new[j].kind \in ActKinds
      PROVE  new[i].order < new[j].order
  <2>1. CASE j \in DOMAIN old
    <3>1. i \in DOMAIN old  BY <1>1, <1>2, <2>1
    <3>2. QED  BY <1>1, <1>2, <2>1, <3>1
  <2>2. CASE j = Len(old) + 1
    <3>1. i \in DOMAIN old  BY <1>1, <1>2, <2>2
    <3>2. QED  BY <1>1, <1>2, <2>2, <3>1
  <2>3. QED  BY <1>1, <2>1, <2>2
<1>3. ASSUME NEW i \in DOMAIN wire, NEW j \in DOMAIN new,
             wire[i].msg.kind \in ActKinds, new[j].kind \in ActKinds
      PROVE  wire[i].msg.order < new[j].order
  BY <1>1, <1>3
<1>4. {new[i]: i \in DOMAIN new} = {old[i]: i \in DOMAIN old} \cup {m}  BY <1>1
<1>5. QED  BY <1>1, <1>2, <1>3, <1>4 DEF new

\* What is queued last, with the pending motion left where it is.
LEMMA AppendedActs ==
  ASSUME TypeOK, ActOrder, PendingLast,
         NEW m \in Message, m.order = nextOrder + 1, m.kind # "move",
         pointer # None => m.kind \notin ActKinds,
         reliable' = Append(reliable, m), nextOrder' = nextOrder + 1, UNCHANGED <<pointer, wire>>
  PROVE  ActOrder' /\ PendingLast' /\ Moves' = Moves
<1>1. /\ reliable \in Seq(Message) /\ nextOrder \in Nat
      /\ \A x \in Message: x.order \in Nat
      /\ \A i \in DOMAIN wire: wire[i].msg \in Message
      /\ \A i \in DOMAIN reliable: reliable[i] \in Message /\ i \in Nat
  BY FlyingType, QueuedType DEF TypeOK
<1>2. \A i \in DOMAIN reliable: reliable[i].order < nextOrder + 1
  BY <1>1 DEF PendingLast
<1>3. \A i \in DOMAIN wire: wire[i].msg.kind \in ActKinds => wire[i].msg.order < nextOrder + 1
  BY <1>1 DEF PendingLast
<1>4. /\ \A i, j \in DOMAIN reliable':
           i < j /\ reliable'[i].kind \in ActKinds /\ reliable'[j].kind \in ActKinds => reliable'[i].order < reliable'[j].order
      /\ \A i \in DOMAIN wire, j \in DOMAIN reliable':
           wire[i].msg.kind \in ActKinds /\ reliable'[j].kind \in ActKinds => wire[i].msg.order < reliable'[j].order
      /\ {reliable'[i]: i \in DOMAIN reliable'} = {reliable[i]: i \in DOMAIN reliable} \cup {m}
  BY <1>1, <1>2, <1>3, ActLast, SMTT(60) DEF ActOrder
<1>5. ActOrder'  BY <1>4 DEF ActOrder
<1>6. /\ \A i \in DOMAIN reliable: i \in DOMAIN reliable' /\ reliable'[i] = reliable[i]
      /\ \A i \in DOMAIN reliable': i \in DOMAIN reliable \/ i = Len(reliable) + 1
      /\ reliable'[Len(reliable) + 1] = m
      /\ \A i \in DOMAIN reliable: i < Len(reliable) + 1 /\ i \in Nat
      /\ Len(reliable) \in Nat
  BY <1>1, AppendSeq
<1>7. \A i \in DOMAIN reliable': reliable'[i].order <= nextOrder + 1
  <2>1. ASSUME NEW i \in DOMAIN reliable' PROVE reliable'[i].order <= nextOrder + 1
    <3>1. CASE i \in DOMAIN reliable
      <4>1. reliable'[i] = reliable[i] /\ reliable[i].order \in Nat  BY <1>1, <1>6, <3>1
      <4>2. QED  BY <1>1, <1>2, <3>1, <4>1
    <3>2. CASE i = Len(reliable) + 1  BY <1>1, <1>6, <3>2
    <3>3. QED  BY <1>6, <3>1, <3>2
  <2>2. QED  BY <2>1
<1>8. ASSUME pointer # None, NEW i \in DOMAIN reliable', NEW j \in DOMAIN reliable', j <= i,
             reliable'[i].kind \in ActKinds
      PROVE  reliable'[j].order < pointer.order
  <2>1. i \in DOMAIN reliable  BY <1>6, <1>8
  <2>2. j \in DOMAIN reliable  BY <1>6, <1>8, <2>1
  <2>3. QED  BY <1>6, <1>8, <2>1, <2>2 DEF PendingLast
<1>9. PendingLast'
  <2>1. \A i \in DOMAIN wire: wire[i].msg.kind \in ActKinds => wire[i].msg.order <= nextOrder + 1
    BY <1>1 DEF PendingLast
  <2>2. pointer # None => /\ pointer.kind = "move"
                          /\ \A i \in DOMAIN wire: wire[i].msg.kind \in ActKinds => wire[i].msg.order < pointer.order
    BY DEF PendingLast
  <2>3. QED  BY <1>7, <1>8, <2>1, <2>2 DEF PendingLast
<1>10. Moves' = Moves  BY <1>4 DEF Moves, Flying
<1>11. QED  BY <1>5, <1>9, <1>10

\* What enqueue_control does to the moves under way: freezing one does not change
\* them, and an overflow only leaves those on the wire.
LEMMA EnqueueActs ==
  ASSUME TypeOK, ActOrder, PendingLast, \A v \in Moves: v.order <= nextOrder,
         NEW m \in Message, m.order = nextOrder + 1, m.kind # "move",
         NEW consumed, EnqueueReliable(m, consumed), wire' = wire
  PROVE  /\ ActOrder' /\ PendingLast'
         /\ \/ Moves' = Moves /\ UNCHANGED <<epoch, nextPointer, motion>>
            \/ /\ epoch' = epoch + 1 /\ nextPointer' = 0 /\ motion' = None
               /\ Moves' \subseteq Moves /\ Edges' \subseteq Edges
               /\ \A x \in Edges', v \in Moves: v.order < x.order => v \in Moves'
<1>1. /\ reliable \in Seq(Message) /\ nextOrder \in Nat /\ epoch \in Nat
      /\ \A x \in Message: x.order \in Nat
      /\ \A i \in DOMAIN wire: wire[i].msg \in Message
      /\ \A i \in DOMAIN reliable: reliable[i] \in Message /\ i \in Nat
      /\ pointer # None => pointer \in Message
  BY FlyingType, QueuedType DEF TypeOK
<1>2. nextOrder' = nextOrder + 1  BY DEF EnqueueReliable
<1>3. EdgeKinds \subseteq ActKinds /\ "move" \in ActKinds /\ "move" \notin InputKinds /\ "move" \notin EdgeKinds
      /\ EdgeKinds \subseteq InputKinds /\ ActKinds \subseteq EdgeKinds \cup {"move"}
  BY DEF ActKinds, EdgeKinds, InputKinds
<1>4. \A i \in DOMAIN wire: wire[i].msg.kind \in ActKinds => wire[i].msg.order < nextOrder + 1
  BY <1>1 DEF PendingLast
<1>5. CASE Admitted(m) /\ Freezes(m)
  <2>1. /\ pointer \in Message /\ pointer.kind = "move" /\ pointer # None /\ Barrier(m) = <<pointer>>
        /\ reliable' = reliable \o <<pointer>> \o <<m>> /\ pointer' = None
        /\ UNCHANGED <<nextPointer, epoch, motion>>
    BY <1>1, <1>5 DEF EnqueueReliable, Overflows, Freezes, Barrier, PendingLast
  <2> DEFINE base == Append(reliable, pointer)
  <2>2. base \in Seq(Message) /\ reliable' = Append(base, m)  BY <1>1, <2>1
  <2> HIDE DEF base
  <2>3. /\ \A i \in DOMAIN reliable: reliable[i].kind \in ActKinds => reliable[i].order < pointer.order
        /\ \A i \in DOMAIN wire: wire[i].msg.kind \in ActKinds => wire[i].msg.order < pointer.order
        /\ \A i \in DOMAIN reliable: reliable[i].order <= nextOrder
    BY <1>1, <2>1 DEF PendingLast
  <2>4. /\ \A i, j \in DOMAIN reliable:
             i < j /\ reliable[i].kind \in ActKinds /\ reliable[j].kind \in ActKinds
               => reliable[i].order < reliable[j].order
        /\ \A i \in DOMAIN wire, j \in DOMAIN reliable:
             wire[i].msg.kind \in ActKinds /\ reliable[j].kind \in ActKinds
               => wire[i].msg.order < reliable[j].order
    BY DEF ActOrder
  <2>5. /\ \A i, j \in DOMAIN base:
             i < j /\ base[i].kind \in ActKinds /\ base[j].kind \in ActKinds => base[i].order < base[j].order
        /\ \A i \in DOMAIN wire, j \in DOMAIN base:
             wire[i].msg.kind \in ActKinds /\ base[j].kind \in ActKinds => wire[i].msg.order < base[j].order
        /\ {base[i]: i \in DOMAIN base} = {reliable[i]: i \in DOMAIN reliable} \cup {pointer}
    BY <1>1, <2>1, <2>3, <2>4, ActLast DEF base
  <2>6. pointer.order <= nextOrder  BY <2>1 DEF Moves
  <2>7. \A i \in DOMAIN base: base[i].order <= nextOrder
    BY <2>3, <2>5, <2>6
  <2>8. base \in [DOMAIN base -> Message] /\ \A i \in DOMAIN base: base[i].order < nextOrder + 1
    BY <1>1, <2>2, <2>7
  <2>9. /\ \A i, j \in DOMAIN reliable':
             i < j /\ reliable'[i].kind \in ActKinds /\ reliable'[j].kind \in ActKinds => reliable'[i].order < reliable'[j].order
        /\ \A i \in DOMAIN wire, j \in DOMAIN reliable':
             wire[i].msg.kind \in ActKinds /\ reliable'[j].kind \in ActKinds => wire[i].msg.order < reliable'[j].order
        /\ {reliable'[i]: i \in DOMAIN reliable'} = {base[i]: i \in DOMAIN base} \cup {m}
    BY <1>4, <2>2, <2>5, <2>8, ActLast
  <2>10. ActOrder'  BY <2>9 DEF ActOrder
  <2>11. \A i \in DOMAIN reliable': reliable'[i].order <= nextOrder + 1
    BY <1>1, <2>2, <2>7, <2>9
  <2>12. PendingLast'
    BY <1>1, <1>2, <1>4, <2>1, <2>11 DEF PendingLast
  <2>13. {reliable'[i]: i \in DOMAIN reliable'} = {reliable[i]: i \in DOMAIN reliable} \cup {pointer, m}
    BY <2>5, <2>9
  <2>14. Moves' = Moves
    BY <2>1, <2>13 DEF Moves, Flying
  <2>15. QED  BY <2>1, <2>10, <2>12, <2>14
<1>6. CASE Admitted(m) /\ ~Freezes(m)
  <2>1. /\ reliable' = Append(reliable, m) /\ pointer' = pointer
        /\ UNCHANGED <<nextPointer, epoch, motion>>
    BY <1>1, <1>6 DEF EnqueueReliable, Overflows, Barrier
  <2>2. pointer # None => m.kind \notin ActKinds
    BY <1>3, <1>6 DEF Freezes
  <2>3. ActOrder' /\ PendingLast' /\ Moves' = Moves  BY <1>2, <2>1, <2>2, AppendedActs
  <2>4. QED  BY <2>1, <2>3
<1>7. CASE Overflows(m)
  <2>1. /\ epoch' = epoch + 1 /\ reliable' = FreshQueue(m) /\ pointer' = None
        /\ nextPointer' = 0 /\ motion' = None /\ m.kind = "releaseAll"
    BY <1>7, Zenon DEF EnqueueReliable, Overflows
  <2>2. PICK n \in Message: /\ FreshQueue(m) = <<n>>
                             /\ n.epoch = epoch + 1 /\ n.order = m.order /\ n.kind = m.kind
    BY FreshType
  <2>3. /\ reliable' = <<n>> /\ DOMAIN reliable' = {1} /\ reliable'[1] = n
        /\ n.kind \notin ActKinds
    BY <2>1, <2>2 DEF ActKinds, EdgeKinds
  <2>4. ActOrder'  BY <2>3 DEF ActOrder
  <2>5. PendingLast'
    BY <1>1, <1>2, <1>4, <2>1, <2>2, <2>3 DEF PendingLast
  <2>6. /\ Moves' \subseteq {x \in {wire[i].msg: i \in DOMAIN wire}: x.kind = "move"}
        /\ Edges' \subseteq {x \in {wire[i].msg: i \in DOMAIN wire}: x.kind \in EdgeKinds}
    BY <1>3, <2>1, <2>3 DEF Moves, Edges, Inputs, Flying
  <2>7. /\ {x \in {wire[i].msg: i \in DOMAIN wire}: x.kind = "move"} \subseteq Moves
        /\ {x \in {wire[i].msg: i \in DOMAIN wire}: x.kind = "move"} \subseteq Moves'
        /\ {x \in {wire[i].msg: i \in DOMAIN wire}: x.kind \in EdgeKinds} \subseteq Edges
    BY <1>3 DEF Moves, Edges, Inputs, Flying
  <2>8. ASSUME NEW x \in Edges', NEW v \in Moves, v.order < x.order PROVE v \in Moves'
    <3>1. PICK i \in DOMAIN wire: x = wire[i].msg /\ wire[i].msg.kind \in ActKinds  BY <1>3, <2>6
    <3>2. v.kind = "move" /\ v \in Message
      BY <1>1, MovesType DEF Moves, PendingLast
    <3>3. CASE \E j \in DOMAIN wire: v = wire[j].msg
      BY <2>7, <3>2, <3>3
    <3>4. CASE \E j \in DOMAIN reliable: v = reliable[j]
      <4>1. x.order < v.order  BY <1>3, <3>1, <3>2, <3>4 DEF ActOrder
      <4>2. QED  BY <1>1, <2>8, <3>1, <3>2, <4>1
    <3>5. CASE pointer # None /\ v = pointer
      <4>1. x.order < v.order  BY <3>1, <3>5 DEF PendingLast
      <4>2. QED  BY <1>1, <2>8, <3>1, <3>2, <4>1
    <3>6. QED  BY <3>3, <3>4, <3>5 DEF Moves, Flying
  <2>9. QED  BY <2>1, <2>4, <2>5, <2>6, <2>7, <2>8
<1>8. CASE ~Admitted(m) /\ ~Overflows(m)
  <2>1. UNCHANGED <<reliable, pointer, epoch, nextPointer, motion>>
    BY <1>8, Zenon DEF EnqueueReliable
  <2>2. ActOrder' /\ Moves' = Moves  BY <2>1 DEF ActOrder, Moves, Flying
  <2>3. PendingLast'
    <3>1. /\ \A i \in DOMAIN wire: wire[i].msg.kind \in ActKinds => wire[i].msg.order <= nextOrder + 1
          /\ \A i \in DOMAIN reliable: reliable[i].order <= nextOrder + 1
      BY <1>1 DEF PendingLast
    <3>2. QED  BY <1>2, <2>1, <3>1 DEF PendingLast
  <2>4. QED  BY <2>1, <2>2, <2>3
<1>9. QED  BY <1>5, <1>6, <1>7, <1>8 DEF Overflows

\* The writer sends the acts in their order: the pending motion only before newer ones.
LEMMA SendActs ==
  ASSUME TypeOK, ActOrder, PendingLast, \A v \in Moves: v.order <= nextOrder,
         WriterSendsReliable \/ WriterSendsPointer
  PROVE  ActOrder' /\ PendingLast' /\ Moves' = Moves
<1>1. /\ \A i \in DOMAIN wire: wire[i].msg \in Message
      /\ reliable \in Seq(Message) /\ nextOrder \in Nat /\ \A x \in Message: x.order \in Nat
      /\ \A i \in DOMAIN reliable: reliable[i] \in Message
      /\ "move" \in ActKinds
  BY QueuedType, MovesType DEF TypeOK
<1>2. ASSUME NEW m \in Message, Send(m)
      PROVE  /\ wire' \in Seq(Packet) /\ Len(wire) \in Nat
             /\ \A i \in DOMAIN wire: i \in DOMAIN wire' /\ wire'[i] = wire[i] /\ i < Len(wire) + 1 /\ i \in Nat
             /\ Len(wire) + 1 \in DOMAIN wire' /\ wire'[Len(wire) + 1].msg = m
             /\ \A i \in DOMAIN wire': i \in DOMAIN wire \/ i = Len(wire) + 1
  <2> DEFINE packet == [num |-> nextWire + 1, msg |-> m]
  <2>1. packet \in Packet /\ packet.msg = m  BY DEF Packet, TypeOK
  <2>2. wire' = Append(wire, packet) /\ wire \in Seq(Packet)  BY <1>2 DEF Send, TypeOK
  <2> HIDE DEF packet
  <2>3. QED  BY <2>1, <2>2, AppendSeq
<1>3. ASSUME NEW m \in Message, Send(m),
             m.kind \in ActKinds => \A i \in DOMAIN wire: wire[i].msg.kind \in ActKinds => wire[i].msg.order < m.order
      PROVE  \A i, j \in DOMAIN wire':
               i < j /\ wire'[i].msg.kind \in ActKinds /\ wire'[j].msg.kind \in ActKinds
                 => wire'[i].msg.order < wire'[j].msg.order
  <2>1. /\ Len(wire) \in Nat
        /\ \A i \in DOMAIN wire: wire'[i] = wire[i] /\ i < Len(wire) + 1 /\ i \in Nat
        /\ wire'[Len(wire) + 1].msg = m
        /\ \A i \in DOMAIN wire': i \in DOMAIN wire \/ i = Len(wire) + 1
    BY <1>2, <1>3
  <2>2. ASSUME NEW i \in DOMAIN wire', NEW j \in DOMAIN wire', i < j,
               wire'[i].msg.kind \in ActKinds, wire'[j].msg.kind \in ActKinds
        PROVE  wire'[i].msg.order < wire'[j].msg.order
    <3>1. i \in DOMAIN wire  BY <2>1, <2>2
    <3>2. CASE j \in DOMAIN wire
      <4>1. wire'[i] = wire[i] /\ wire'[j] = wire[j]  BY <2>1, <3>1, <3>2
      <4>2. QED  BY <2>2, <3>1, <3>2, <4>1 DEF ActOrder
    <3>3. CASE j = Len(wire) + 1
      <4>1. wire'[i] = wire[i] /\ wire'[j].msg = m  BY <2>1, <3>1, <3>3
      <4>2. QED  BY <1>3, <2>2, <3>1, <4>1
    <3>4. QED  BY <2>1, <3>2, <3>3
  <2>3. QED  BY <2>2
<1>4. CASE WriterSendsPointer
  <2>1. /\ pointer \in Message /\ pointer # None /\ pointer.kind = "move" /\ Send(pointer)
        /\ pointer' = None /\ reliable' = reliable /\ nextOrder' = nextOrder
        /\ reliable # <<>> => pointer.order < Head(reliable).order
        /\ pointer.order <= nextOrder
    BY <1>4 DEF WriterSendsPointer, PointerFirst, TypeOK, PendingLast, Moves
  <2>2. \A i \in DOMAIN reliable: reliable[i].kind \notin ActKinds
    <3>1. SUFFICES ASSUME NEW i \in DOMAIN reliable, reliable[i].kind \in ActKinds PROVE FALSE
      OBVIOUS
    <3>2. 1 \in DOMAIN reliable /\ 1 <= i /\ reliable # <<>> /\ Head(reliable) = reliable[1]
      BY <1>1
    <3>3. reliable[1].order < pointer.order  BY <2>1, <3>1, <3>2 DEF PendingLast
    <3>4. QED  BY <1>1, <2>1, <3>2, <3>3
  <2>3. \A i \in DOMAIN wire: wire[i].msg.kind \in ActKinds => wire[i].msg.order < pointer.order
    BY <2>1 DEF PendingLast
  <2>4. ActOrder'
    <3>1. \A i, j \in DOMAIN wire':
            i < j /\ wire'[i].msg.kind \in ActKinds /\ wire'[j].msg.kind \in ActKinds
              => wire'[i].msg.order < wire'[j].msg.order
      BY <1>3, <2>1, <2>3
    <3>2. QED  BY <2>1, <2>2, <3>1 DEF ActOrder
  <2>5. \A i \in DOMAIN wire': wire'[i].msg.kind \in ActKinds => wire'[i].msg.order <= nextOrder
    BY <1>2, <2>1 DEF PendingLast
  <2>6. PendingLast'  BY <2>1, <2>5 DEF PendingLast
  <2>7. {wire'[i].msg: i \in DOMAIN wire'} = {wire[i].msg: i \in DOMAIN wire} \cup {pointer}
    <3>1. ASSUME NEW i \in DOMAIN wire'
          PROVE  wire'[i].msg = pointer \/ \E j \in DOMAIN wire: wire[j].msg = wire'[i].msg
      BY <1>2, <2>1
    <3>2. ASSUME NEW i \in DOMAIN wire PROVE \E j \in DOMAIN wire': wire'[j].msg = wire[i].msg
      BY <1>2, <2>1
    <3>3. \E j \in DOMAIN wire': wire'[j].msg = pointer  BY <1>2, <2>1
    <3>4. QED  BY <3>1, <3>2, <3>3
  <2>8. Moves' = Moves  BY <2>1, <2>7 DEF Moves, Flying
  <2>9. QED  BY <2>4, <2>6, <2>8
<1>5. CASE WriterSendsReliable
  <2> DEFINE m == Head(reliable)
  <2>1. /\ reliable # <<>> /\ Send(m) /\ reliable' = Tail(reliable) /\ pointer' = pointer
        /\ nextOrder' = nextOrder
    BY <1>5 DEF WriterSendsReliable
  <2>2. /\ m \in Message /\ 1 \in DOMAIN reliable /\ m = reliable[1]
        /\ \A i \in DOMAIN reliable': i + 1 \in DOMAIN reliable /\ reliable'[i] = reliable[i + 1] /\ 1 < i + 1 /\ i \in Nat
        /\ \A i \in DOMAIN reliable: i = 1 \/ (i - 1 \in DOMAIN reliable' /\ reliable'[i - 1] = reliable[i])
    BY <1>1, <2>1
  <2> HIDE DEF m
  <2>3. Moves' = Moves
    <3>1. {wire'[i].msg: i \in DOMAIN wire'} = {wire[i].msg: i \in DOMAIN wire} \cup {m}
      <4>1. ASSUME NEW i \in DOMAIN wire'
            PROVE  wire'[i].msg = m \/ \E j \in DOMAIN wire: wire[j].msg = wire'[i].msg
        BY <1>2, <2>1, <2>2
      <4>2. ASSUME NEW i \in DOMAIN wire PROVE \E j \in DOMAIN wire': wire'[j].msg = wire[i].msg
        BY <1>2, <2>1, <2>2
      <4>3. \E j \in DOMAIN wire': wire'[j].msg = m  BY <1>2, <2>1, <2>2
      <4>4. QED  BY <4>1, <4>2, <4>3
    <3>2. {reliable[i]: i \in DOMAIN reliable} = {reliable'[i]: i \in DOMAIN reliable'} \cup {m}
      <4>1. ASSUME NEW i \in DOMAIN reliable
            PROVE  reliable[i] = m \/ \E j \in DOMAIN reliable': reliable'[j] = reliable[i]
        BY <2>2
      <4>2. ASSUME NEW i \in DOMAIN reliable' PROVE \E j \in DOMAIN reliable: reliable[j] = reliable'[i]
        BY <2>2
      <4>3. \E j \in DOMAIN reliable: reliable[j] = m  BY <2>2
      <4>4. QED  BY <4>1, <4>2, <4>3
    <3>3. Flying' = Flying  BY <3>1, <3>2 DEF Flying
    <3>4. QED  BY <2>1, <3>3 DEF Moves
  <2>4. \A i, j \in DOMAIN wire':
          i < j /\ wire'[i].msg.kind \in ActKinds /\ wire'[j].msg.kind \in ActKinds
            => wire'[i].msg.order < wire'[j].msg.order
    <3>1. m.kind \in ActKinds => \A i \in DOMAIN wire: wire[i].msg.kind \in ActKinds => wire[i].msg.order < m.order
      BY <2>2 DEF ActOrder
    <3>2. QED  BY <1>3, <2>1, <2>2, <3>1
  <2>5. ASSUME NEW i \in DOMAIN reliable', NEW j \in DOMAIN reliable', i < j,
               reliable'[i].kind \in ActKinds, reliable'[j].kind \in ActKinds
        PROVE  reliable'[i].order < reliable'[j].order
    <3>1. i + 1 < j + 1  BY <2>2, <2>5
    <3>2. QED  BY <2>2, <2>5, <3>1 DEF ActOrder
  <2>6. ASSUME NEW i \in DOMAIN wire', NEW j \in DOMAIN reliable',
               wire'[i].msg.kind \in ActKinds, reliable'[j].kind \in ActKinds
        PROVE  wire'[i].msg.order < reliable'[j].order
    <3>1. CASE i \in DOMAIN wire
      <4>1. wire'[i] = wire[i]  BY <1>2, <2>1, <2>2, <3>1
      <4>2. QED  BY <2>2, <2>6, <3>1, <4>1 DEF ActOrder
    <3>2. CASE i = Len(wire) + 1
      <4>1. wire'[i].msg = reliable[1]  BY <1>2, <2>1, <2>2, <3>2
      <4>2. QED  BY <2>2, <2>6, <4>1 DEF ActOrder
    <3>3. QED  BY <1>2, <2>1, <2>2, <3>1, <3>2
  <2>7. ActOrder'  BY <2>4, <2>5, <2>6 DEF ActOrder
  <2>8. PendingLast'
    <3>1. \A i \in DOMAIN wire': wire'[i].msg.kind \in ActKinds =>
            /\ wire'[i].msg.order <= nextOrder
            /\ pointer # None => wire'[i].msg.order < pointer.order
      <4>1. /\ reliable[1].order <= nextOrder
            /\ pointer # None /\ reliable[1].kind \in ActKinds => reliable[1].order < pointer.order
        BY <1>1, <2>2 DEF PendingLast
      <4>2. \A i \in DOMAIN wire': (i \in DOMAIN wire /\ wire'[i] = wire[i]) \/ wire'[i].msg = reliable[1]
        BY <1>2, <2>1, <2>2
      <4>3. QED  BY <4>1, <4>2 DEF PendingLast
    <3>2. \A i \in DOMAIN reliable': reliable'[i].order <= nextOrder
      BY <2>2 DEF PendingLast
    <3>3. ASSUME pointer # None, NEW i \in DOMAIN reliable', NEW j \in DOMAIN reliable', j <= i,
                 reliable'[i].kind \in ActKinds
          PROVE  reliable'[j].order < pointer.order
      <4>1. j + 1 <= i + 1  BY <2>2, <3>3
      <4>2. QED  BY <2>2, <3>3, <4>1 DEF PendingLast
    <3>4. pointer # None => pointer.kind = "move"  BY DEF PendingLast
    <3>5. QED  BY <2>1, <3>1, <3>2, <3>3, <3>4 DEF PendingLast
  <2>9. QED  BY <2>3, <2>7, <2>8
<1>6. QED  BY <1>4, <1>5

\* The worker takes the oldest act.
LEMMA ReceiveActs ==
  ASSUME TypeOK, ActOrder, PendingLast, wire # <<>>, wire' = Tail(wire),
         UNCHANGED <<reliable, pointer, nextOrder>>
  PROVE  /\ ActOrder' /\ PendingLast' /\ Head(wire).msg \in Message
         /\ Head(wire).msg.kind \in ActKinds =>
              \A m \in Moves' \cup Edges': Head(wire).msg.order < m.order
         /\ Head(wire).msg.kind = "move" => Head(wire).msg \in Moves /\ Moves = Moves' \cup {Head(wire).msg}
         /\ Head(wire).msg.kind # "move" => Moves' = Moves
         /\ Edges' \subseteq Edges
         /\ Head(wire).msg.kind \in EdgeKinds => Head(wire).msg \in Edges
<1> DEFINE h == Head(wire).msg
<1>1. /\ wire \in Seq(Packet) /\ \A x \in Message: x.order \in Nat
      /\ "move" \in ActKinds /\ EdgeKinds \subseteq ActKinds
  BY MovesType DEF TypeOK
<1>2. /\ 1 \in DOMAIN wire /\ h = wire[1].msg
      /\ \A i \in DOMAIN wire': i + 1 \in DOMAIN wire /\ wire'[i] = wire[i + 1] /\ 1 < i + 1 /\ i \in Nat
      /\ \A i \in DOMAIN wire: i = 1 \/ (i - 1 \in DOMAIN wire' /\ wire'[i - 1] = wire[i])
  BY <1>1
<1>3. h \in Message  BY <1>2, QueuedType
<1> HIDE DEF h
<1>4. {wire[i].msg: i \in DOMAIN wire} = {wire'[i].msg: i \in DOMAIN wire'} \cup {h}
  <2>1. ASSUME NEW i \in DOMAIN wire
        PROVE  wire[i].msg = h \/ \E j \in DOMAIN wire': wire'[j].msg = wire[i].msg
    BY <1>2
  <2>2. ASSUME NEW i \in DOMAIN wire' PROVE \E j \in DOMAIN wire: wire[j].msg = wire'[i].msg
    BY <1>2
  <2>3. \E j \in DOMAIN wire: wire[j].msg = h  BY <1>2
  <2>4. QED  BY <2>1, <2>2, <2>3
<1>5. Flying = Flying' \cup {h}  BY <1>4 DEF Flying
<1>6. ActOrder'
  <2>1. ASSUME NEW i \in DOMAIN wire', NEW j \in DOMAIN wire', i < j,
               wire'[i].msg.kind \in ActKinds, wire'[j].msg.kind \in ActKinds
        PROVE  wire'[i].msg.order < wire'[j].msg.order
    <3>1. i + 1 < j + 1  BY <1>2, <2>1
    <3>2. QED  BY <1>2, <2>1, <3>1 DEF ActOrder
  <2>2. ASSUME NEW i \in DOMAIN wire', NEW j \in DOMAIN reliable,
               wire'[i].msg.kind \in ActKinds, reliable[j].kind \in ActKinds
        PROVE  wire'[i].msg.order < reliable[j].order
    BY <1>2, <2>2 DEF ActOrder
  <2>3. QED  BY <2>1, <2>2 DEF ActOrder
<1>7. PendingLast'
  <2>1. \A i \in DOMAIN wire': i + 1 \in DOMAIN wire /\ wire'[i] = wire[i + 1]  BY <1>2
  <2>2. /\ \A i \in DOMAIN wire': wire'[i].msg.kind \in ActKinds => wire'[i].msg.order <= nextOrder
        /\ pointer # None =>
             \A i \in DOMAIN wire': wire'[i].msg.kind \in ActKinds => wire'[i].msg.order < pointer.order
    BY <2>1 DEF PendingLast
  <2>3. QED  BY <2>2 DEF PendingLast
<1>8. ASSUME h.kind \in ActKinds, NEW m \in Moves' \cup Edges' PROVE h.order < m.order
  <2>1. CASE pointer # None /\ m = pointer
    BY <1>2, <1>8, <2>1 DEF PendingLast
  <2>2. CASE m \in Flying' /\ m.kind \in ActKinds
    <3>1. CASE \E i \in DOMAIN wire': m = wire'[i].msg
      <4>1. PICK i \in DOMAIN wire': m = wire'[i].msg  BY <3>1
      <4>2. i + 1 \in DOMAIN wire /\ 1 < i + 1 /\ m = wire[i + 1].msg  BY <1>2, <4>1
      <4>3. QED  BY <1>2, <1>8, <2>2, <4>2 DEF ActOrder
    <3>2. CASE \E j \in DOMAIN reliable: m = reliable[j]
      BY <1>2, <1>8, <2>2, <3>2 DEF ActOrder
    <3>3. QED  BY <2>2, <3>1, <3>2 DEF Flying
  <2>3. QED  BY <1>1, <1>8, <2>1, <2>2 DEF Moves, Edges, Inputs
<1>9. h.kind = "move" => h \in Moves /\ Moves = Moves' \cup {h}  BY <1>5 DEF Moves
<1>10. h.kind # "move" => Moves' = Moves  BY <1>5 DEF Moves
<1>11. Edges' \subseteq Edges  BY <1>5 DEF Edges, Inputs
<1>12. h.kind \in EdgeKinds => h \in Edges  BY <1>5 DEF Edges, Inputs, InputKinds
<1>13. QED  BY <1>3, <1>6, <1>7, <1>8, <1>9, <1>10, <1>11, <1>12 DEF h

(***************************************************************************)
(* How At changes.                                                         *)
(***************************************************************************)

LEMMA AtKept ==
  ASSUME NEW e, NEW o, NEW pos, At(e, o, pos), Before(e, o)' = Before(e, o),
         UNCHANGED <<inputEpoch, remotePos>> \/ inputEpoch # e
  PROVE  At(e, o, pos)'
BY DEF At

\* Applying the oldest move of the epoch leaves what follows it where it acts.
LEMMA AtApplied ==
  ASSUME TypeOK, NEW h \in Moves, Moves = Moves' \cup {h}, \A v \in Moves': h.order < v.order,
         h.epoch = inputEpoch, inputEpoch' = inputEpoch, remotePos' = h.pos,
         NEW e, NEW o, NEW pos, h.order < o, At(e, o, pos)
  PROVE  At(e, o, pos)'
<1>1. h.order \in Nat /\ \A v \in Moves: v.order \in Nat  BY MovesType
<1>2. CASE e # inputEpoch
  <2>1. Before(e, o)' = Before(e, o)  BY <1>2 DEF Before
  <2>2. QED  BY <1>2, <2>1, AtKept
<1>3. CASE e = inputEpoch
  <2>1. h \in Before(e, o)  BY <1>3 DEF Before
  <2>2. PICK v \in Before(e, o): v.pos = pos /\ \A w \in Before(e, o): w.order <= v.order
    BY <2>1 DEF At
  <2>3. Before(e, o)' \subseteq Before(e, o)  BY DEF Before
  <2>4. CASE v = h
    <3>1. \A w \in Before(e, o)': h.order < w.order /\ w.order <= h.order /\ w.order \in Nat
      BY <1>1, <2>2, <2>3, <2>4 DEF Before
    <3>2. Before(e, o)' = {}  BY <1>1, <3>1
    <3>3. QED  BY <1>3, <2>2, <2>4, <3>2 DEF At
  <2>5. CASE v # h
    <3>1. v \in Before(e, o)'  BY <2>2, <2>5 DEF Before
    <3>2. QED  BY <2>2, <2>3, <3>1 DEF At
  <2>6. QED  BY <2>4, <2>5
<1>4. QED  BY <1>2, <1>3

\* The pointer moves: what was made before it acts where it did, what comes next
\* acts at the new position.
LEMMA MoveActs ==
  ASSUME TypeOK, ActOrder, PendingLast, Steps, NEW p \in Positions, Move(p)
  PROVE  /\ ActOrder' /\ PendingLast' /\ Steps' /\ Edges' = Edges
         /\ Pointed /\ (\A m \in Edges: m.order <= nextOrder) => Pointed'
<1> DEFINE n == MakeMessage("move", None, p, nextPointer + 1)
<1>1. /\ n \in Message /\ n.epoch = epoch /\ n.order = nextOrder + 1 /\ n.kind = "move"
      /\ n.seq = nextPointer + 1 /\ n.pos = p
  <2>1. "move" \in Kinds \ EdgeKinds /\ None \in Controls \cup {None} /\ p \in Positions \cup {None}
    BY DEF Kinds, InputKinds, EdgeKinds
  <2>2. nextPointer + 1 \in Nat  BY DEF TypeOK
  <2>3. QED  BY <2>1, <2>2, MessageType DEF MakeMessage
<1>2. /\ pointer' = n /\ nextOrder' = nextOrder + 1 /\ nextPointer' = nextPointer + 1 /\ motion' = p
      /\ UNCHANGED <<reliable, epoch, wire, inputEpoch, lastPointer, remotePos>>
  BY DEF Move, agentVars
<1> HIDE DEF n
<1>3. /\ nextOrder \in Nat /\ nextPointer \in Nat /\ epoch \in Nat /\ inputEpoch \in Nat /\ lastPointer \in Nat
      /\ \A x \in Message: x.order \in Nat /\ x.epoch \in Nat /\ x.seq \in Nat
      /\ Moves \subseteq Message /\ Edges \subseteq Message
      /\ EdgeKinds \subseteq ActKinds
      /\ \A i \in DOMAIN wire: wire[i].msg \in Message
      /\ \A i \in DOMAIN reliable: reliable[i] \in Message /\ i \in Nat
  BY MovesType, FlyingType, QueuedType DEF TypeOK
<1>4. n # None  BY <1>1, NoneAssumption
<1>5. Flying' = Flying  BY <1>2 DEF Flying
<1>6. Moves' = {m \in Flying: m.kind = "move"} \cup {n}  BY <1>2, <1>4, <1>5 DEF Moves
<1>7. ActOrder'  BY <1>2 DEF ActOrder
<1>8. Edges' = Edges  BY <1>5 DEF Edges, Inputs
<1>9. PendingLast'
  <2>1. \A i \in DOMAIN wire: wire[i].msg.kind \in ActKinds =>
          wire[i].msg.order <= nextOrder + 1 /\ wire[i].msg.order < nextOrder + 1
    BY <1>3 DEF PendingLast
  <2>2. \A i \in DOMAIN reliable: reliable[i].order <= nextOrder + 1 /\ reliable[i].order < nextOrder + 1
    BY <1>3 DEF PendingLast
  <2>3. QED  BY <1>1, <1>2, <2>1, <2>2 DEF PendingLast
<1>10. ASSUME NEW v \in Moves'
       PROVE  v = n \/ (v \in Moves /\ v \in Message /\ v.order <= nextOrder /\ v.epoch <= epoch /\ v.seq > 0
                          /\ (v.epoch = epoch => v.seq <= nextPointer))
  <2>1. v = n \/ v \in Moves  BY <1>6 DEF Moves
  <2>2. QED  BY <1>3, <2>1 DEF Steps
<1>11. Steps'
  <2>1. ASSUME NEW v \in Moves'
        PROVE  /\ v.order <= nextOrder + 1 /\ v.epoch <= epoch /\ v.seq > 0
               /\ v.epoch = epoch => v.seq <= nextPointer + 1
    BY <1>1, <1>3, <1>10
  <2>2. ASSUME NEW v \in Moves', NEW w \in Moves', v.order < w.order, v.epoch = w.epoch PROVE v.seq < w.seq
    <3>1. CASE w = n
      <4>1. v # n  BY <1>1, <1>3, <2>2, <3>1
      <4>2. QED  BY <1>1, <1>3, <1>10, <2>2, <3>1, <4>1
    <3>2. CASE w # n
      <4>1. w.order <= nextOrder /\ w \in Moves /\ w \in Message  BY <1>10, <3>2
      <4>2. v # n  BY <1>1, <1>3, <2>2, <4>1
      <4>3. v \in Moves  BY <1>10, <4>2
      <4>4. QED  BY <2>2, <4>1, <4>3 DEF Steps
    <3>3. QED  BY <3>1, <3>2
  <2>3. QED  BY <1>2, <2>1, <2>2 DEF Steps
<1>12. ASSUME Pointed, \A m \in Edges: m.order <= nextOrder PROVE Pointed'
  <2>1. inputEpoch' = epoch' => lastPointer' <= nextPointer'  BY <1>2, <1>3, <1>12 DEF Pointed
  <2>2. ASSUME NEW v \in Moves', v.epoch = inputEpoch PROVE lastPointer < v.seq
    <3>1. CASE v = n
      <4>1. inputEpoch = epoch  BY <1>1, <2>2, <3>1
      <4>2. lastPointer <= nextPointer  BY <1>12, <4>1 DEF Pointed
      <4>3. QED  BY <1>1, <1>3, <3>1, <4>2
    <3>2. CASE v # n  BY <1>10, <1>12, <2>2, <3>2 DEF Pointed
    <3>3. QED  BY <3>1, <3>2
  <2>3. ASSUME NEW m \in Edges, m.pos # None PROVE At(m.epoch, m.order, m.pos)'
    <3>1. At(m.epoch, m.order, m.pos)  BY <1>12, <2>3 DEF Pointed
    <3>2. m.order \in Nat /\ m.order <= nextOrder  BY <1>3, <1>12
    <3>3. ~(n.order < m.order)  BY <1>1, <1>3, <3>2
    <3>4. pointer # None => ~(pointer.order < m.order)
      <4>1. ASSUME pointer # None PROVE m.order < pointer.order /\ pointer \in Message
        <5>1. m.kind \in ActKinds /\ m \in Flying  BY <1>3 DEF Edges, Inputs
        <5>2. CASE \E i \in DOMAIN wire: m = wire[i].msg  BY <4>1, <5>1, <5>2 DEF PendingLast, TypeOK
        <5>3. CASE \E i \in DOMAIN reliable: m = reliable[i]
          <6>1. PICK i \in DOMAIN reliable: m = reliable[i]  BY <5>3
          <6>2. i <= i  BY <1>3
          <6>3. QED  BY <4>1, <5>1, <6>1, <6>2 DEF PendingLast, TypeOK
        <5>4. QED  BY <5>1, <5>2, <5>3 DEF Flying
      <4>2. QED  BY <1>3, <3>2, <4>1
    <3>5. Before(m.epoch, m.order)' = Before(m.epoch, m.order)
      <4>1. \A v: (v \in Moves' /\ v.order < m.order) <=> (v \in Moves /\ v.order < m.order)
        BY <1>6, <3>3, <3>4 DEF Moves
      <4>2. QED  BY <4>1 DEF Before
    <3>6. QED  BY <1>2, <3>1, <3>5, AtKept
  <2>4. At(epoch, nextOrder + 1, motion)'
    <3>1. n \in Before(epoch, nextOrder + 1)'  BY <1>1, <1>2, <1>3, <1>6 DEF Before
    <3>2. \A w \in Before(epoch, nextOrder + 1)': w.order <= n.order
      BY <1>1, <1>3, <1>10 DEF Before
    <3>3. QED  BY <1>1, <1>2, <3>1, <3>2 DEF At
  <2>5. QED  BY <1>2, <1>8, <2>1, <2>2, <2>3, <2>4 DEF Pointed
<1>13. QED  BY <1>7, <1>8, <1>9, <1>11, <1>12

\* A message of the other kinds is queued, or turned away, or its release-all opens
\* a new epoch: edges queued before act where they did, and a new edge, like
\* what the user makes next, acts at the last motion.
LEMMA EnqueuePosition ==
  ASSUME TypeOK, PositionInv, HoldInv,
         NEW m \in Message, m.order = nextOrder + 1, m.epoch = epoch, m.kind # "move",
         m.kind \in EdgeKinds => m.pos = motion,
         NEW consumed, EnqueueReliable(m, consumed),
         UNCHANGED <<wire, worker, inputEpoch, lastPointer, remotePos>>
  PROVE  PositionInv'
<1>1. /\ nextOrder \in Nat /\ nextPointer \in Nat /\ epoch \in Nat /\ inputEpoch \in Nat /\ lastPointer \in Nat
      /\ \A x \in Message: x.order \in Nat /\ x.epoch \in Nat /\ x.seq \in Nat
      /\ Moves \subseteq Message /\ Edges \subseteq Message /\ Edges \subseteq Inputs
      /\ \A v \in Moves: v.order <= nextOrder
      /\ \A x \in Edges: x.order <= nextOrder
  BY MovesType, FlyingType DEF PositionInv, Steps, HoldInv, Numbered
<1>2. /\ ActOrder' /\ PendingLast'
      /\ \/ Moves' = Moves /\ UNCHANGED <<epoch, nextPointer, motion>>
         \/ /\ epoch' = epoch + 1 /\ nextPointer' = 0 /\ motion' = None
            /\ Moves' \subseteq Moves /\ Edges' \subseteq Edges
            /\ \A x \in Edges', v \in Moves: v.order < x.order => v \in Moves'
  BY <1>1, EnqueueActs DEF PositionInv
<1>3. nextOrder' = nextOrder + 1  BY DEF EnqueueReliable
<1>4. CASE Moves' = Moves /\ UNCHANGED <<epoch, nextPointer, motion>>
  <2>1. Edges' \subseteq Edges \cup (IF m.kind \in EdgeKinds THEN {m} ELSE {})
    <3>1. /\ InOrder /\ \A x \in Inputs: x.order <= nextOrder /\ x.epoch <= epoch
      BY DEF HoldInv, Numbered
    <3>2. Added(m, consumed) \/ Replaced(m) \/ Turned(m, consumed)  BY <3>1, EnqueueFlying
    <3>3. ~Replaced(m)
      <4>1. epoch' # epoch + 1  BY <1>1, <1>4
      <4>2. QED  BY <4>1 DEF Replaced
    <3>4. Inputs' \subseteq Inputs \cup {m}  BY <3>2, <3>3 DEF Added, Turned
    <3>5. QED  BY <3>4 DEF Edges
  <2>2. Steps'
    <3>1. \A v \in Moves: v.order <= nextOrder + 1  BY <1>1
    <3>2. QED  BY <1>3, <1>4, <3>1 DEF PositionInv, Steps
  <2>3. ASSUME Pointed PROVE Pointed'
    <3>2. motion # None => At(epoch, nextOrder + 1, motion)'
      <4>1. \A v \in Moves: v.order < nextOrder + 1 + 1 /\ v.order < nextOrder + 1  BY <1>1
      <4>2. Before(epoch, nextOrder + 1)' = Before(epoch, nextOrder + 1)
        BY <1>3, <1>4, <4>1 DEF Before
      <4>3. motion # None => At(epoch, nextOrder + 1, motion)  BY <2>3 DEF Pointed
      <4>4. QED  BY <1>3, <1>4, <4>2, <4>3 DEF At
    <3>3. \A e, o, pos: At(e, o, pos) => At(e, o, pos)'
      <4>1. ASSUME NEW e, NEW o, NEW pos, At(e, o, pos) PROVE At(e, o, pos)'
        <5>1. Before(e, o)' = Before(e, o)  BY <1>4 DEF Before
        <5>2. QED  BY <4>1, <5>1, AtKept
      <4>2. QED  BY <4>1
    <3>4. ASSUME NEW x \in Edges', x.pos # None PROVE At(x.epoch, x.order, x.pos)'
      <4>1. CASE x \in Edges
        <5>1. At(x.epoch, x.order, x.pos)  BY <2>3, <3>4, <4>1 DEF Pointed
        <5>2. QED  BY <3>3, <5>1
      <4>2. CASE x = m /\ m.kind \in EdgeKinds
        <5>1. At(x.epoch, x.order, x.pos)  BY <2>3, <3>4, <4>2 DEF Pointed
        <5>2. QED  BY <3>3, <5>1
      <4>3. QED  BY <2>1, <4>1, <4>2
    <3>5. /\ inputEpoch' = epoch' => lastPointer' <= nextPointer'
          /\ \A v \in Moves': v.epoch = inputEpoch' => lastPointer' < v.seq
      BY <1>4, <2>3 DEF Pointed
    <3>6. QED  BY <1>4, <3>2, <3>4, <3>5 DEF Pointed
  <2>4. QED  BY <1>2, <2>2, <2>3 DEF PositionInv
<1>5. CASE /\ epoch' = epoch + 1 /\ nextPointer' = 0 /\ motion' = None
           /\ Moves' \subseteq Moves /\ Edges' \subseteq Edges
           /\ \A x \in Edges', v \in Moves: v.order < x.order => v \in Moves'
  <2>1. Steps'
    <3>1. ASSUME NEW v \in Moves'
          PROVE  v.order <= nextOrder + 1 /\ v.epoch <= epoch + 1 /\ v.seq > 0 /\ v.epoch # epoch + 1
      <4>1. v \in Moves /\ v \in Message /\ v.epoch <= epoch /\ v.seq > 0 /\ v.order <= nextOrder
        BY <1>1, <1>5 DEF PositionInv, Steps
      <4>2. QED  BY <1>1, <4>1
    <3>2. QED  BY <1>3, <1>5, <3>1 DEF PositionInv, Steps
  <2>2. ASSUME worker = "running" PROVE Pointed'
    <3>1. Pointed /\ inputEpoch <= epoch  BY <2>2 DEF PositionInv, HoldInv, Expected
    <3>2. inputEpoch' # epoch'  BY <1>1, <1>5, <3>1
    <3>3. ASSUME NEW x \in Edges', x.pos # None PROVE At(x.epoch, x.order, x.pos)'
      <4>1. At(x.epoch, x.order, x.pos)  BY <1>5, <3>1, <3>3 DEF Pointed
      <4>2. Before(x.epoch, x.order)' = Before(x.epoch, x.order)  BY <1>5 DEF Before
      <4>3. QED  BY <4>1, <4>2, AtKept
    <3>4. \A v \in Moves': v.epoch = inputEpoch' => lastPointer' < v.seq
      BY <1>5, <3>1 DEF Pointed
    <3>5. QED  BY <1>5, <3>2, <3>3, <3>4 DEF Pointed
  <2>3. QED  BY <1>2, <2>1, <2>2 DEF PositionInv
<1>6. QED  BY <1>2, <1>4, <1>5

\* A step that changes none of what the promise speaks of.
LEMMA QuietPosition ==
  ASSUME TypeOK, PositionInv, ActOrder', PendingLast', Moves' = Moves, Edges' = Edges,
         nextOrder' = nextOrder \/ (nextOrder' = nextOrder + 1),
         UNCHANGED <<epoch, nextPointer, motion, worker, inputEpoch, lastPointer, remotePos>>
  PROVE  PositionInv'
<1>1. /\ nextOrder \in Nat /\ \A v \in Moves: v.order \in Nat /\ v.order <= nextOrder
  BY MovesType DEF PositionInv, Steps
<1>2. \A v \in Moves: v.order <= nextOrder' /\ v.order < nextOrder' + 1 /\ v.order < nextOrder + 1
  BY <1>1
<1>3. Steps'  BY <1>2 DEF PositionInv, Steps
<1>4. ASSUME Pointed PROVE Pointed'
  <2>1. ASSUME NEW x \in Edges', x.pos # None PROVE At(x.epoch, x.order, x.pos)'
    <3>1. At(x.epoch, x.order, x.pos)  BY <1>4, <2>1 DEF Pointed
    <3>2. Before(x.epoch, x.order)' = Before(x.epoch, x.order)  BY DEF Before
    <3>3. QED  BY <3>1, <3>2, AtKept
  <2>2. motion # None => At(epoch, nextOrder + 1, motion)'
    <3>1. Before(epoch, nextOrder + 1)' = Before(epoch, nextOrder + 1)  BY <1>2 DEF Before
    <3>2. motion # None => At(epoch, nextOrder + 1, motion)  BY <1>4 DEF Pointed
    <3>3. QED  BY <3>1, <3>2 DEF At
  <2>3. QED  BY <1>4, <2>1, <2>2 DEF Pointed
<1>5. QED  BY <1>3, <1>4 DEF PositionInv

\* What the worker does with the oldest message keeps the promise to the others.
LEMMA ReceivePointed ==
  ASSUME TypeOK, Steps, Pointed, Expected, Expected',
         UNCHANGED <<epoch, nextPointer, nextOrder, motion>>,
         NEW h \in Message,
         h.kind \in ActKinds => \A m \in Moves' \cup Edges': h.order < m.order,
         h.kind = "move" => h \in Moves /\ Moves = Moves' \cup {h},
         h.kind # "move" => Moves' = Moves,
         Edges' \subseteq Edges, Receive(h)
  PROVE  Pointed'
<1>1. /\ nextOrder \in Nat /\ nextPointer \in Nat /\ epoch \in Nat /\ inputEpoch \in Nat /\ lastPointer \in Nat
      /\ \A x \in Message: x.order \in Nat /\ x.epoch \in Nat /\ x.seq \in Nat
      /\ Moves \subseteq Message /\ Edges \subseteq Message /\ Edges \subseteq Inputs
      /\ "move" \in ActKinds /\ "move" \notin EdgeKinds
  BY MovesType, FlyingType DEF EdgeKinds
<1>2. inputEpoch <= epoch /\ \A x \in Edges: inputEpoch <= x.epoch
  BY <1>1 DEF Expected
<1>3. Moves' \subseteq Moves  OBVIOUS
<1>4. CASE h.epoch < inputEpoch
  <2>1. UNCHANGED <<inputEpoch, lastPointer, remotePos>>  BY <1>1, <1>4 DEF Receive
  <2>2. ASSUME NEW e \in Nat, NEW o, NEW pos, inputEpoch <= e, At(e, o, pos) PROVE At(e, o, pos)'
    <3>1. e # h.epoch  BY <1>1, <1>4, <2>2
    <3>2. Before(e, o)' = Before(e, o)  BY <3>1 DEF Before
    <3>3. QED  BY <2>1, <2>2, <3>2, AtKept
  <2>3. ASSUME NEW x \in Edges', x.pos # None PROVE At(x.epoch, x.order, x.pos)'
    <3>1. At(x.epoch, x.order, x.pos) /\ inputEpoch <= x.epoch /\ x.epoch \in Nat
      BY <1>1, <1>2, <2>3 DEF Pointed
    <3>2. QED  BY <2>2, <3>1
  <2>4. motion # None => At(epoch, nextOrder + 1, motion)'
    <3>1. motion # None => At(epoch, nextOrder + 1, motion)  BY DEF Pointed
    <3>2. \A e, o, pos: e = epoch /\ o = nextOrder + 1 /\ pos = motion /\ At(e, o, pos) => At(e, o, pos)'
      BY <1>1, <1>2, <2>2
    <3>3. QED  BY <3>1, <3>2 DEF At, Before
  <2>5. QED  BY <1>3, <2>1, <2>3, <2>4 DEF Pointed
<1>5. CASE h.epoch = inputEpoch /\ h.kind # "move"
  <2>1. UNCHANGED <<inputEpoch, lastPointer, remotePos>> /\ Moves' = Moves
    BY <1>1, <1>5 DEF Receive, InjectEdge, InjectMove, InjectReleaseAll, IgnoreOther
  <2>2. ASSUME NEW x \in Edges', x.pos # None PROVE At(x.epoch, x.order, x.pos)'
    <3>1. At(x.epoch, x.order, x.pos)  BY <2>2 DEF Pointed
    <3>2. Before(x.epoch, x.order)' = Before(x.epoch, x.order)  BY <2>1 DEF Before
    <3>3. QED  BY <2>1, <3>1, <3>2, AtKept
  <2>3. motion # None => At(epoch, nextOrder + 1, motion)'
    BY <2>1 DEF Pointed, At, Before
  <2>4. QED  BY <2>1, <2>2, <2>3 DEF Pointed
<1>6. CASE h.epoch = inputEpoch /\ h.kind = "move"
  <2>1. /\ h \in Moves /\ Moves = Moves' \cup {h} /\ \A v \in Moves' \cup Edges': h.order < v.order
        /\ lastPointer < h.seq
    BY <1>1, <1>6 DEF Pointed
  <2>2. inputEpoch' = inputEpoch /\ lastPointer' = h.seq /\ remotePos' = h.pos
    <3>1. ~(h.seq <= lastPointer)  BY <1>1, <2>1
    <3>2. InjectMove(h)
      BY <1>1, <1>6 DEF Receive, InjectEdge, InjectReleaseAll, IgnoreOther
    <3>3. QED  BY <3>1, <3>2 DEF InjectMove
  <2>3. ASSUME NEW x \in Edges', x.pos # None PROVE At(x.epoch, x.order, x.pos)'
    <3>1. At(x.epoch, x.order, x.pos) /\ h.order < x.order  BY <2>1, <2>3 DEF Pointed
    <3>2. QED  BY <1>6, <2>1, <2>2, <3>1, AtApplied
  <2>4. motion # None => At(epoch, nextOrder + 1, motion)'
    <3>1. ASSUME NEW e, NEW o, NEW pos, h.order < o, At(e, o, pos) PROVE At(e, o, pos)'
      BY <1>6, <2>1, <2>2, <3>1, AtApplied
    <3>2. h.order < nextOrder + 1  BY <1>1, <2>1 DEF Steps
    <3>3. motion # None => At(epoch, nextOrder + 1, motion)  BY DEF Pointed
    <3>4. \A e, o, pos: e = epoch /\ o = nextOrder + 1 /\ pos = motion /\ At(e, o, pos) => At(e, o, pos)'
      BY <3>1, <3>2
    <3>5. QED  BY <3>3, <3>4 DEF At, Before
  <2>5. inputEpoch' = epoch' => lastPointer' <= nextPointer'
    BY <1>6, <2>1, <2>2 DEF Steps
  <2>6. ASSUME NEW v \in Moves', v.epoch = inputEpoch' PROVE lastPointer' < v.seq
    BY <1>3, <1>6, <2>1, <2>2, <2>6 DEF Steps
  <2>7. QED  BY <2>3, <2>4, <2>5, <2>6 DEF Pointed
<1>7. CASE h.epoch > inputEpoch
  <2>1. /\ h.kind = "releaseAll" /\ inputEpoch' = h.epoch /\ lastPointer' = 0 /\ remotePos' = remotePos
        /\ Moves' = Moves
    <3>1. ~(h.epoch < inputEpoch) /\ h.epoch # inputEpoch  BY <1>1, <1>7
    <3>2. h.kind = "releaseAll" /\ EnterEpoch(h)  BY <3>1 DEF Receive
    <3>3. QED  BY <3>2 DEF EnterEpoch
  <2>2. inputEpoch' <= epoch /\ \A x \in Inputs': inputEpoch' <= x.epoch  BY DEF Expected
  <2>3. ASSUME NEW x \in Edges', x.pos # None PROVE At(x.epoch, x.order, x.pos)'
    <3>1. At(x.epoch, x.order, x.pos)  BY <2>3 DEF Pointed
    <3>2. inputEpoch # x.epoch
      <4>1. x \in Inputs' /\ x.epoch \in Nat  BY <1>1, <2>3 DEF Edges
      <4>2. QED  BY <1>1, <1>7, <2>1, <2>2, <4>1
    <3>3. Before(x.epoch, x.order)' = Before(x.epoch, x.order)  BY <2>1 DEF Before
    <3>4. QED  BY <3>1, <3>2, <3>3, AtKept
  <2>4. motion # None => At(epoch, nextOrder + 1, motion)'
    <3>1. inputEpoch # epoch  BY <1>1, <1>7, <2>1, <2>2
    <3>2. motion # None => At(epoch, nextOrder + 1, motion)  BY DEF Pointed
    <3>3. Before(epoch, nextOrder + 1)' = Before(epoch, nextOrder + 1)  BY <2>1 DEF Before
    <3>4. QED  BY <3>1, <3>2, <3>3 DEF At
  <2>5. \A v \in Moves': lastPointer' < v.seq  BY <1>1, <2>1 DEF Steps
  <2>6. lastPointer' <= nextPointer'  BY <1>1, <2>1
  <2>7. QED  BY <2>3, <2>4, <2>5, <2>6 DEF Pointed
<1>8. QED  BY <1>1, <1>4, <1>5, <1>6, <1>7

LEMMA PositionInit == Init => PositionInv
<1> SUFFICES ASSUME Init PROVE PositionInv  OBVIOUS
<1>1. wire = <<>> /\ reliable = <<>> /\ pointer = None /\ motion = None /\ lastPointer = 0 /\ nextPointer = 0
  BY DEF Init
<1>2. Moves = {} /\ Edges = {}  BY <1>1 DEF Moves, Edges, Inputs, Flying
<1>3. ActOrder /\ PendingLast  BY <1>1 DEF ActOrder, PendingLast
<1>4. Steps /\ Pointed  BY <1>1, <1>2 DEF Steps, Pointed
<1>5. QED  BY <1>3, <1>4 DEF PositionInv

LEMMA PositionStep == TypeOK /\ HoldInv /\ PositionInv /\ [Next]_vars => PositionInv'
<1> SUFFICES ASSUME TypeOK, HoldInv, PositionInv, [Next]_vars PROVE PositionInv'  OBVIOUS
<1>t. HoldInv'  BY HoldStep
<1> USE DEF userVars, queueVars, writerVars, agentVars
<1>n. /\ motion \in Positions \cup {None} /\ nextReliable + 1 \in Nat
      /\ "move" \notin EdgeKinds /\ "releaseAll" \notin EdgeKinds /\ "other" \notin EdgeKinds
      /\ {"press", "release"} \subseteq Kinds /\ {"other", "move", "releaseAll"} \subseteq Kinds
      /\ "press" # "move" /\ "release" # "move"
  BY DEF TypeOK, Kinds, InputKinds, EdgeKinds
<1>a. /\ ActOrder /\ PendingLast /\ Steps
      /\ \A v \in Moves: v.order <= nextOrder
      /\ \A x \in Edges: x.order <= nextOrder
  BY FlyingType DEF PositionInv, Steps, HoldInv, Numbered
<1>q. ASSUME UNCHANGED <<wire, reliable, pointer, nextOrder, epoch, nextPointer, motion, worker,
                         inputEpoch, lastPointer, remotePos>>
      PROVE  PositionInv'
  <2>1. Moves' = Moves /\ Edges' = Edges /\ ActOrder' /\ PendingLast'
    BY <1>a, <1>q DEF Moves, Edges, Inputs, Flying, ActOrder, PendingLast
  <2>2. QED  BY <1>q, <2>1, QuietPosition
<1>1. ASSUME NEW c \in Controls, Edge(c) PROVE PositionInv'
  <2> DEFINE kind == IF c \in down THEN "release" ELSE "press"
             m == MakeMessage(kind, c, motion, nextReliable + 1)
  <2>1. UNCHANGED <<wire, worker, inputEpoch, lastPointer, remotePos>>
    BY <1>1 DEF Edge
  <2>2. CASE EdgeForwarded(c, kind)
    <3>1. kind \in Kinds /\ kind # "move"  BY <1>n
    <3>2. m \in Message /\ m.order = nextOrder + 1 /\ m.epoch = epoch /\ m.kind = kind
      BY <1>n, <3>1, MessageType
    <3>3. m.pos = motion  BY DEF MakeMessage
    <3>4. EnqueueReliable(m, nextReliable + 1)  BY <2>2 DEF EdgeForwarded
    <3> HIDE DEF m, kind
    <3>5. QED  BY <2>1, <3>1, <3>2, <3>3, <3>4, EnqueuePosition
  <2>3. CASE UNCHANGED queueVars  BY <1>q, <2>1, <2>3
  <2>4. QED  BY <1>1, <2>2, <2>3 DEF Edge
<1>2. ASSUME NEW p \in Positions, Move(p) PROVE PositionInv'
  <2>1. ActOrder' /\ PendingLast' /\ Steps' /\ (Pointed => Pointed') /\ worker' = worker
    BY <1>2, <1>a, MoveActs DEF Move
  <2>2. QED  BY <2>1 DEF PositionInv
<1>3. CASE OtherControl
  <2> DEFINE m == MakeMessage("other", None, None, 0)
  <2>1. m \in Message /\ m.order = nextOrder + 1 /\ m.epoch = epoch /\ m.kind = "other"
    BY <1>n, MessageType
  <2>2. EnqueueReliable(m, nextReliable) /\ UNCHANGED <<wire, worker, inputEpoch, lastPointer, remotePos>>
    BY <1>3, Zenon DEF OtherControl
  <2> HIDE DEF m
  <2>3. QED  BY <1>n, <2>1, <2>2, EnqueuePosition
<1>4. CASE FocusLost
  <2>1. UNCHANGED <<wire, worker, inputEpoch, lastPointer, remotePos>>  BY <1>4, Zenon DEF FocusLost
  <2>2. CASE EnqueueReliable(ReleaseAllMessage, nextReliable)
    <3> DEFINE m == ReleaseAllMessage
    <3>1. m \in Message /\ m.epoch = epoch /\ m.order = nextOrder + 1 /\ m.kind = "releaseAll"
      BY ReleaseAllType
    <3>2. EnqueueReliable(m, nextReliable)  BY <2>2
    <3> HIDE DEF m
    <3>3. QED  BY <1>n, <2>1, <3>1, <3>2, EnqueuePosition
  <2>3. CASE UNCHANGED queueVars  BY <1>q, <2>1, <2>3
  <2>4. QED  BY <1>4, <2>2, <2>3, Zenon DEF FocusLost
<1>5. CASE Stop
  <2> DEFINE m == ReleaseAllMessage
  <2>1. m \in Message /\ m.epoch = epoch /\ m.order = nextOrder + 1 /\ m.kind = "releaseAll"
    BY ReleaseAllType
  <2>2. /\ reliable' = Append(reliable, m) /\ nextOrder' = nextOrder + 1
        /\ UNCHANGED <<wire, pointer, epoch, nextPointer, motion, worker, inputEpoch, lastPointer, remotePos>>
    BY <1>5 DEF Stop
  <2> HIDE DEF m
  <2>3. m.kind \notin ActKinds  BY <1>n, <2>1 DEF ActKinds
  <2>4. ActOrder' /\ PendingLast' /\ Moves' = Moves  BY <1>a, <2>1, <2>2, <2>3, AppendedActs
  <2>5. Edges' = Edges
    <3>1. reliable \in Seq(Message)  BY DEF TypeOK
    <3>2. /\ \A i \in DOMAIN reliable: i \in DOMAIN reliable' /\ reliable'[i] = reliable[i]
          /\ \A i \in DOMAIN reliable': i \in DOMAIN reliable \/ i = Len(reliable) + 1
          /\ reliable'[Len(reliable) + 1] = m /\ Len(reliable) + 1 \in DOMAIN reliable'
      BY <2>1, <2>2, <3>1, AppendSeq
    <3>3. {reliable'[i]: i \in DOMAIN reliable'} = {reliable[i]: i \in DOMAIN reliable} \cup {m}  BY <3>2
    <3>4. Flying' = Flying \cup {m}  BY <2>2, <3>3 DEF Flying
    <3>5. QED  BY <1>n, <2>1, <3>4 DEF Edges, Inputs
  <2>6. QED  BY <2>2, <2>4, <2>5, QuietPosition
<1>6. CASE WriterSendsPointer \/ WriterSendsReliable
  <2>1. ActOrder' /\ PendingLast' /\ Moves' = Moves  BY <1>6, <1>a, SendActs
  <2>2. InOrder  BY DEF HoldInv
  <2>3. Inputs' = Inputs  BY <1>6, <2>2, SendFlying
  <2>4. Edges' = Edges  BY <2>3 DEF Edges
  <2>5. UNCHANGED <<nextOrder, epoch, nextPointer, motion, worker, inputEpoch, lastPointer, remotePos>>
    BY <1>6 DEF WriterSendsPointer, WriterSendsReliable
  <2>6. QED  BY <2>1, <2>4, <2>5, QuietPosition
<1>7. CASE WorkerReceives
  <2> DEFINE h == Head(wire).msg
  <2>1. /\ worker = "running" /\ wire # <<>> /\ wire' = Tail(wire)
        /\ UNCHANGED <<reliable, pointer, nextOrder, nextPointer, epoch, motion>>
        /\ worker' = "ended" \/ Receive(h)
    BY <1>7 DEF WorkerReceives, WorkerEnds
  <2>2. /\ ActOrder' /\ PendingLast' /\ h \in Message
        /\ h.kind \in ActKinds => \A m \in Moves' \cup Edges': h.order < m.order
        /\ h.kind = "move" => h \in Moves /\ Moves = Moves' \cup {h}
        /\ h.kind # "move" => Moves' = Moves
        /\ Edges' \subseteq Edges
    BY <1>a, <2>1, ReceiveActs
  <2> HIDE DEF h
  <2>3. Moves' \subseteq Moves  BY <2>2
  <2>4. Steps'  BY <1>a, <2>1, <2>3 DEF Steps
  <2>5. ASSUME worker' = "running" PROVE Pointed'
    <3>1. Receive(h)  BY <2>1, <2>5
    <3>2. Pointed /\ Expected /\ Expected'  BY <1>t, <2>1, <2>5 DEF PositionInv, HoldInv
    <3>3. QED  BY <1>a, <2>1, <2>2, <3>1, <3>2, ReceivePointed
  <2>6. QED  BY <2>2, <2>4, <2>5 DEF PositionInv
<1>8. CASE WorkerEof
  <2>1. /\ worker' = "ended" /\ wire' = <<>>
        /\ UNCHANGED <<reliable, pointer, nextOrder, nextPointer, epoch>>
    BY <1>8 DEF WorkerEof, WorkerEnds
  <2>2. Moves' \subseteq Moves /\ ActOrder' /\ PendingLast'
    BY <1>a, <2>1 DEF Moves, Flying, ActOrder, PendingLast
  <2>3. Steps'  BY <1>a, <2>1, <2>2 DEF Steps
  <2>4. QED  BY <2>1, <2>2, <2>3 DEF PositionInv
<1>9. CASE ForegroundChanges \/ FocusAcquired \/ WriterCloses \/ ConnectionFails \/ UNCHANGED vars
  BY <1>9, <1>q DEF ForegroundChanges, FocusAcquired, WriterCloses, ConnectionFails, vars
<1>10. QED
  BY <1>1, <1>2, <1>3, <1>4, <1>5, <1>6, <1>7, <1>8, <1>9 DEF Next

\* The edge the worker applies has no move before it any more, so the pointer is
\* where the user pressed.
LEMMA PositionHolds ==
  ASSUME TypeOK, PositionInv, [Next]_vars,
         NEW m \in {p.msg: p \in {wire[i]: i \in DOMAIN wire}},
         wire' = Tail(wire), Head(wire).msg = m, m.kind \in EdgeKinds,
         lastReliable' # lastReliable, worker' = "running"
  PROVE  m.pos = None \/ remotePos = m.pos
<1> USE DEF userVars, queueVars, writerVars, agentVars
<1>1. WorkerReceives
  BY DEF Next, Edge, EdgeForwarded, Move, OtherControl, ForegroundChanges, FocusAcquired, FocusLost, Stop,
         WriterSendsPointer, WriterSendsReliable, WriterCloses, ConnectionFails, WorkerEof, WorkerEnds, vars
<1>2. /\ worker = "running" /\ wire # <<>> /\ Receive(m)
      /\ UNCHANGED <<reliable, pointer, nextOrder>>
  BY <1>1 DEF WorkerReceives, WorkerEnds
<1>3. /\ m \in Message /\ m \in Edges /\ m.kind \in ActKinds /\ m.kind # "move" /\ m.kind # "releaseAll"
      /\ Moves' = Moves /\ \A v \in Moves': m.order < v.order
  BY <1>2, ReceiveActs DEF PositionInv, ActKinds, EdgeKinds
<1>4. m.epoch \in Nat /\ inputEpoch \in Nat /\ m.order \in Nat /\ \A v \in Moves: v.order \in Nat
  BY <1>3, MovesType
<1>5. m.epoch = inputEpoch
  BY <1>3, <1>4, <1>2 DEF Receive
<1>6. Before(m.epoch, m.order) = {}  BY <1>3, <1>4 DEF Before
<1>7. Pointed  BY <1>2 DEF PositionInv
<1>8. m.pos # None => At(m.epoch, m.order, m.pos)  BY <1>3, <1>7 DEF Pointed
<1>9. QED  BY <1>6, <1>8 DEF At

\* A key or button edge acts where the user pressed: for every queue limit, every
\* coalescing of motion, every overflow and every order of the two threads, no
\* motion overtakes an edge and no edge overtakes a motion.
THEOREM PositionCorrect == Spec => EdgeAtItsPosition
<1>1. Spec => []HoldInv  BY TypeInit, TypeStep, HoldInit, HoldStep, PTL DEF Spec
<1>2. Spec => []PositionInv  BY <1>1, TypeCorrect, PositionInit, PositionStep, PTL DEF Spec
<1>3. TypeOK /\ PositionInv /\ [Next]_vars =>
        [\A m \in {p.msg : p \in {wire[i] : i \in DOMAIN wire}} :
           (/\ wire' = Tail(wire) /\ Head(wire).msg = m
            /\ m.kind \in EdgeKinds /\ lastReliable' # lastReliable /\ worker' = "running")
           => (m.pos = None \/ remotePos = m.pos)]_vars
  BY PositionHolds
<1>4. QED  BY <1>2, <1>3, TypeCorrect, PTL DEF Spec, EdgeAtItsPosition
=============================================================================
