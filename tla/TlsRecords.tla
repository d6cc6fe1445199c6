------------------------------ MODULE TlsRecords -------------------------------
(* How the records of a TLS connection reach Schannel: TCP delivers them in    *)
(* pieces of any size, the handshake consumes one token a leg and gives back   *)
(* what it did not use, and what is left when the handshake ends belongs to    *)
(* the first read.                                                             *)
EXTENDS Naturals, Sequences, SequencesExt

CONSTANTS
    Flights,        \* handshake records the server sends
    Messages,       \* application records after them
    Size,           \* pieces a record can be cut into
    MaxLegs         \* maximum_handshake_legs

\* What the constants must be.
TlsRecordsConstants ==
    {Flights, Messages, Size, MaxLegs} \subseteq Nat \ {0}

VARIABLES
    unsent,     \* pieces TCP has not delivered
    incoming,   \* what the handshake works on
    pending,    \* encrypted_pending_
    phase,      \* handshake, open or failed
    leg,        \* legs used
    fed         \* the records Schannel was given, and those read returned

vars == <<unsent, incoming, pending, phase, leg, fed>>

\* Every record in its pieces; the server may send all of them at once.
Pieces == [i \in 1 .. (Flights + Messages) * Size |->
             [record |-> ((i - 1) \div Size) + 1, piece |-> ((i - 1) % Size) + 1]]

\* A record can be used once all of its pieces are there; what follows it is
\* SECBUFFER_EXTRA.
Complete(bytes) == Len(bytes) >= Size
First(bytes) == bytes[1].record
Extra(bytes) == SubSeq(bytes, Size + 1, Len(bytes))

\* Garbage is what Schannel makes of pieces that are not one record.
Whole(bytes) == /\ bytes[1].piece = 1
                /\ \A i \in 1 .. Size : bytes[i] = [record |-> First(bytes), piece |-> i]

\* receive_tcp: some of what is under way.
Arrived(n) == SubSeq(unsent, 1, n)
Left(n) == SubSeq(unsent, n + 1, Len(unsent))

-----------------------------------------------------------------------------
(* handshake.                                                                 *)

\* preserve_handshake_extra.
Preserved(bytes) == Extra(bytes)

\* A leg consumes a record, or asks for the rest of one; either costs a leg.
Leg ==
    /\ phase = "handshake" /\ leg < MaxLegs
    /\ leg' = leg + 1
    /\ \/ /\ Complete(incoming)
          /\ fed' = Append(fed, IF Whole(incoming) THEN First(incoming) ELSE 0)
          /\ IF Len(fed') = Flights
               THEN /\ phase' = "open" /\ pending' = Preserved(incoming)
                    /\ incoming' = <<>> /\ UNCHANGED unsent
               ELSE /\ UNCHANGED <<phase, pending>>
                    /\ IF Preserved(incoming) /= <<>>
                         THEN incoming' = Preserved(incoming) /\ UNCHANGED unsent
                         ELSE \E n \in 1 .. Len(unsent) :
                                incoming' = Arrived(n) /\ unsent' = Left(n)
       \/ /\ ~Complete(incoming)
          /\ \E n \in 1 .. Len(unsent) :
               incoming' = incoming \o Arrived(n) /\ unsent' = Left(n)
          /\ UNCHANGED <<phase, pending, fed>>

LegsExhausted ==
    /\ phase = "handshake" /\ leg = MaxLegs
    /\ phase' = "failed"
    /\ UNCHANGED <<unsent, incoming, pending, leg, fed>>

-----------------------------------------------------------------------------
(* receive_plain and decrypt_packet.                                          *)

ReadPending ==
    /\ phase = "open" /\ Complete(pending)
    /\ fed' = Append(fed, IF Whole(pending) THEN First(pending) ELSE 0)
    /\ pending' = Extra(pending)
    /\ UNCHANGED <<unsent, incoming, phase, leg>>

ReadMore ==
    /\ phase = "open" /\ ~Complete(pending)
    /\ \E n \in 1 .. Len(unsent) :
         pending' = pending \o Arrived(n) /\ unsent' = Left(n)
    /\ UNCHANGED <<incoming, phase, leg, fed>>

Init ==
    /\ unsent = Pieces /\ incoming = <<>> /\ pending = <<>>
    /\ phase = "handshake" /\ leg = 0 /\ fed = <<>>

Next == Leg \/ LegsExhausted \/ ReadPending \/ ReadMore

Spec == Init /\ [][Next]_vars

-----------------------------------------------------------------------------
(* Properties.                                                                *)

\* Schannel is given every record of the server once, in order and whole, and
\* no piece gets lost between the legs or between the handshake and the first
\* read, however TCP cuts the stream: application data that came with the last
\* handshake record is what the first read returns.
EveryRecordOnce ==
    /\ \A i \in DOMAIN fed : fed[i] = i
    /\ incoming \o pending \o unsent = SubSeq(Pieces, Len(fed) * Size + 1, Len(Pieces))

=============================================================================
