---------------------------- MODULE FrameReassembly ----------------------------
(* Encoded frames cut into datagrams, and the receiver that puts them together *)
(* again. A network of datagrams loses, repeats and reorders them: whatever    *)
(* was sent may arrive at any later time, or never, or again. The fragments of *)
(* a frame agree, because one sender makes them.                               *)
EXTENDS Naturals, Sequences, SequencesExt

CONSTANTS
    MaxFrames,    \* bound: frames that are sent
    MaxFragments  \* bound: fragments of a frame

FrameReassemblyConstants == MaxFrames \in Nat \ {0} /\ MaxFragments \in Nat \ {0}

VARIABLES
    frames,           \* the frames sent; a frame's id is its place
    current,          \* the frame being put together, or 0
    fragments,        \* the fragments of it that are there
    keyframeRequired, \* keyframe_required_
    completed,        \* last_completed_frame_id_
    heard             \* history: the first newer frame since a frame was completed

vars == <<frames, current, fragments, keyframeRequired, completed, heard>>

Frames == [key : BOOLEAN, count : 1 .. MaxFragments]
Nobody == 0
Lost == MaxFrames + 1    \* in heard: a loss was reported

TypeOK ==
    /\ frames \in BoundedSeq(Frames, MaxFrames)
    /\ current \in 0 .. Len(frames) /\ completed \in 0 .. Len(frames)
    /\ fragments \subseteq 1 .. MaxFragments
    /\ keyframeRequired \in BOOLEAN
    /\ heard \in 0 .. Lost

Init ==
    /\ frames = <<>>
    /\ current = 0 /\ fragments = {} /\ keyframeRequired = TRUE /\ completed = 0
    /\ heard = Lost

\* send_frame: a fragment per datagram.
SendsFrame(key, count) ==
    /\ Len(frames) < MaxFrames
    /\ frames' = Append(frames, [key |-> key, count |-> count])
    /\ UNCHANGED <<current, fragments, keyframeRequired, completed, heard>>

Stale(f) == f <= completed \/ (current /= 0 /\ f < current)

\* A newer frame abandons the one that is incomplete, and a keyframe is needed.
AbandonsQuietly(f) == keyframeRequired
Abandons(f) == keyframeRequired \/ (current /= 0 /\ f > current)
Refused(f) == f /= current /\ Abandons(f) /\ ~frames[f].key
Hears(f) == IF heard = Nobody THEN f ELSE heard

\* receive: the fragment is dropped,
Ignores(f) ==
    /\ Stale(f)
    /\ UNCHANGED vars

\* or belongs to a frame that cannot be shown,
Refuses(f) ==
    /\ ~Stale(f) /\ Refused(f)
    /\ current' = 0 /\ fragments' = {}
    /\ keyframeRequired' = Abandons(f) /\ heard' = Hears(f)
    /\ UNCHANGED <<frames, completed>>

\* or is kept: the first one of a frame, or one more,
With(f, index) == (IF f = current THEN fragments ELSE {}) \cup {index}
Keeps(f, index) ==
    /\ ~Stale(f) /\ ~Refused(f)
    /\ With(f, index) /= 1 .. frames[f].count
    /\ current' = f /\ fragments' = With(f, index)
    /\ keyframeRequired' = Abandons(f) /\ heard' = Hears(f)
    /\ UNCHANGED <<frames, completed>>

\* or completes its frame.
Completes(f, index) ==
    /\ ~Stale(f) /\ ~Refused(f)
    /\ With(f, index) = 1 .. frames[f].count
    /\ current' = 0 /\ fragments' = {} /\ completed' = f
    /\ keyframeRequired' = (Abandons(f) /\ ~frames[f].key)
    /\ heard' = Nobody
    /\ UNCHANGED frames

NotifiesLoss ==
    /\ current' = 0 /\ fragments' = {} /\ keyframeRequired' = TRUE /\ heard' = Lost
    /\ UNCHANGED <<frames, completed>>

Next ==
    \/ \E key \in BOOLEAN, count \in 1 .. MaxFragments : SendsFrame(key, count)
    \/ \E f \in DOMAIN frames :
          \/ Ignores(f) \/ Refuses(f)
          \/ \E index \in 1 .. frames[f].count : Keeps(f, index) \/ Completes(f, index)
    \/ NotifiesLoss

Spec == Init /\ [][Next]_vars

-----------------------------------------------------------------------------
\* Frames come out in the order of their ids, and one that is not a keyframe
\* only if it is the first of which anything arrived since the one before it
\* came out: a frame that was begun and given up, or a loss that was reported,
\* is followed by a keyframe, in whatever order the fragments arrive.
DeltasFollow ==
    [][completed' /= completed =>
           /\ completed' > completed
           /\ frames[completed'].key \/ heard \in {Nobody, completed'}]_vars

=============================================================================
