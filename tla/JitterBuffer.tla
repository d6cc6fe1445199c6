------------------------------ MODULE JitterBuffer ------------------------------
(* The audio of a session: numbered packets sent as datagrams, which are lost, *)
(* repeated and reordered, and the buffer from which one packet is played, or  *)
(* concealed, per tick of the player.                                          *)
EXTENDS Naturals, FiniteSets, FiniteSetsExt

CONSTANTS
    Target,      \* packets before the playing begins
    Capacity,    \* maximum_packets
    MaxPackets,  \* bound: packets that are sent
    MaxPlayed    \* bound: the position of the player

JitterBufferConstants ==
    /\ Target \in Nat \ {0} /\ Capacity \in Nat /\ Capacity >= Target
    /\ MaxPackets \in Nat /\ MaxPlayed \in Nat

VARIABLES
    sent,      \* packets 1 .. sent were sent
    packets,   \* packets_: the sequences of what is held
    expected,  \* expected_sequence_, or 0
    accepted,  \* history, since the last reset: what push returned TRUE for,
    played,    \* what was played
    concealed  \* and what was concealed

vars == <<sent, packets, expected, accepted, played, concealed>>

Init ==
    /\ sent = 0 /\ packets = {} /\ expected = 0
    /\ accepted = {} /\ played = {} /\ concealed = {}

\* AudioSender::send.
Sends ==
    /\ sent < MaxPackets /\ sent' = sent + 1
    /\ UNCHANGED <<packets, expected, accepted, played, concealed>>

\* AudioJitterBuffer::push.
NeverLate(s) == FALSE
Late(s) == expected /= 0 /\ s < expected
Room == Cardinality(packets) < Capacity

Pushes(s) ==
    /\ ~Late(s) /\ s \notin packets /\ Room
    /\ packets' = packets \cup {s} /\ accepted' = accepted \cup {s}
    /\ UNCHANGED <<sent, expected, played, concealed>>

Drops(s) ==
    /\ Late(s) \/ s \in packets \/ ~Room
    /\ UNCHANGED vars

\* AudioJitterBuffer::pop: the position is fixed when enough is there.
Begins == expected /= 0 \/ Cardinality(packets) >= Target
Position == IF expected = 0 THEN Min(packets) ELSE expected

Plays ==
    /\ Begins /\ Position \in packets
    /\ packets' = packets \ {Position} /\ expected' = Position + 1
    /\ played' = played \cup {Position}
    /\ UNCHANGED <<sent, accepted, concealed>>

\* A packet that is not there is concealed when its time is over, or at once
\* when a later one is.
Conceals(deadlineExpired) ==
    /\ Begins /\ Position \notin packets /\ Position <= MaxPlayed
    /\ deadlineExpired \/ (packets /= {} /\ \A s \in packets : s > Position)
    /\ expected' = Position + 1 /\ concealed' = concealed \cup {Position}
    /\ UNCHANGED <<sent, packets, accepted, played>>

Waits(deadlineExpired) ==
    /\ Begins => /\ Position \notin packets /\ ~deadlineExpired
                 /\ packets = {} \/ \E s \in packets : s <= Position
    /\ UNCHANGED vars

Resets ==
    /\ packets' = {} /\ expected' = 0
    /\ accepted' = {} /\ played' = {} /\ concealed' = {}
    /\ UNCHANGED sent

Next ==
    \/ Sends \/ Plays \/ Resets
    \/ \E s \in 1 .. sent : Pushes(s) \/ Drops(s)
    \/ \E deadlineExpired \in BOOLEAN : Conceals(deadlineExpired) \/ Waits(deadlineExpired)

Spec == Init /\ [][Next]_vars

-----------------------------------------------------------------------------
\* Every position from the first one on is played or concealed, once; what was
\* accepted is played or still to come, however the packets were reordered,
\* repeated or refused by a full buffer, and never waits behind the position.
AcceptedIsPlayed ==
    /\ accepted = played \cup packets
    /\ played \cap concealed = {}
    /\ expected /= 0 =>
           /\ played \cup concealed = Min(played \cup concealed \cup {expected}) .. (expected - 1)
           /\ \A s \in packets : s >= expected

=============================================================================
