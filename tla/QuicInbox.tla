------------------------------- MODULE QuicInbox -------------------------------
(* What a peer sends over one QUIC connection: the streams it opens, the       *)
(* messages of one of them and datagrams.  The library's callbacks put each    *)
(* into a bounded queue while the program reads from it.                       *)
EXTENDS Naturals, Sequences

CONSTANTS
    Library,        \* "msquic" or "network"
    MaxQueued,      \* what each queue holds
    MaxSent         \* bound on what the peer sends of each kind

\* What the constants must be.
QuicInboxConstants ==
    Library \in {"msquic", "network"} /\ MaxQueued \in Nat \ {0} /\ MaxSent \in Nat

VARIABLES
    arrived,    \* what the library has delivered of each kind
    queue,      \* messages_, incoming_streams_, incoming_datagrams_
    read,       \* what the program was given
    refused,    \* what a full queue refused
    errors,     \* error_ of the stream, receive_error_ of the connection
    state       \* up, ending (MsQuic) or closed

vars == <<arrived, queue, read, refused, errors, state>>

Kinds == {"stream", "message", "datagram"}
\* MsQuic keeps one error for the stream and one for the connection.
Place(kind) == IF kind = "message" THEN "stream" ELSE "connection"
Sent == 1 .. MaxSent

-----------------------------------------------------------------------------
(* peer_stream_started, MsQuicReliableStream::receive, datagram_received; the *)
(* handlers of install_handlers.                                              *)

\* Streams and messages come in order; a datagram may be late or never come.
InOrder(kind, n) ==
    /\ n \notin arrived[kind]
    /\ kind /= "datagram" => \A m \in 1 .. n - 1 : m \in arrived[kind]

\* MsQuic: the error is what every later receive returns. Network.framework:
\* the stream is cancelled and the datagram is gone.
Overflows(kind) == IF Library = "msquic" THEN errors \cup {Place(kind)} ELSE errors

\* Network.framework queues no messages: a read asks the library for its bytes.
Full(kind) == Len(queue[kind]) >= MaxQueued

Arrives(kind, n) ==
    /\ state /= "closed" /\ InOrder(kind, n)
    /\ (Library = "network" /\ kind = "message") => ~Full(kind) /\ "stream" \notin errors
    /\ arrived' = [arrived EXCEPT ![kind] = @ \cup {n}]
    /\ \/ /\ kind = "message" /\ "stream" \in errors
          /\ refused' = [refused EXCEPT ![kind] = @ \cup {n}]
          /\ UNCHANGED <<queue, errors>>
       \/ /\ ~(kind = "message" /\ "stream" \in errors) /\ Full(kind)
          /\ refused' = [refused EXCEPT ![kind] = @ \cup {n}]
          /\ errors' = Overflows(kind)
          /\ UNCHANGED queue
       \/ /\ ~(kind = "message" /\ "stream" \in errors) /\ ~Full(kind)
          /\ queue' = [queue EXCEPT ![kind] = Append(@, n)]
          /\ UNCHANGED <<refused, errors>>
    /\ UNCHANGED <<read, state>>

\* The peer aborts the stream.
Aborted ==
    /\ state = "up" /\ Library = "msquic" /\ "stream" \notin errors
    /\ errors' = errors \cup {"stream"}
    /\ UNCHANGED <<arrived, queue, read, refused, state>>

Ends ==
    /\ state = "up"
    /\ state' = IF Library = "msquic" THEN "ending" ELSE "closed"
    /\ UNCHANGED <<arrived, queue, read, refused, errors>>

Closes ==
    /\ state = "ending" /\ state' = "closed"
    /\ UNCHANGED <<arrived, queue, read, refused, errors>>

-----------------------------------------------------------------------------
(* accept_stream, read and receive_datagram.                                  *)

\* MsQuic asks for a connection that is up before it looks into the queues of
\* the connection; Network.framework returns what is queued even after the end.
MayRead(kind) ==
    /\ (Library = "msquic" /\ kind /= "message") => state = "up"
    /\ Place(kind) \notin errors

Reads(kind) ==
    /\ MayRead(kind) /\ queue[kind] /= <<>>
    /\ read' = [read EXCEPT ![kind] = Append(@, Head(queue[kind]))]
    /\ queue' = [queue EXCEPT ![kind] = Tail(@)]
    /\ UNCHANGED <<arrived, refused, errors, state>>

\* A read of Network.framework that times out cancels the stream and with it
\* the bytes it had.
ReadTimesOut ==
    /\ Library = "network" /\ "stream" \notin errors /\ queue["message"] = <<>>
    /\ errors' = errors \cup {"stream"}
    /\ UNCHANGED <<arrived, queue, read, refused, state>>

-----------------------------------------------------------------------------
Init ==
    /\ arrived = [k \in Kinds |-> {}] /\ queue = [k \in Kinds |-> <<>>]
    /\ read = [k \in Kinds |-> <<>>] /\ refused = [k \in Kinds |-> {}]
    /\ errors = {} /\ state = "up"

Next ==
    \/ Aborted \/ Ends \/ Closes \/ ReadTimesOut
    \/ \E kind \in Kinds :
         Reads(kind) \/ \E n \in Sent : Arrives(kind, n)

Spec == Init /\ [][Next]_vars

-----------------------------------------------------------------------------
(* Properties.                                                                *)

TypeOK ==
    /\ arrived \in [Kinds -> SUBSET Sent] /\ refused \in [Kinds -> SUBSET Sent]
    /\ queue \in [Kinds -> Seq(Sent)] /\ \A k \in Kinds : Len(queue[k]) <= MaxQueued
    /\ read \in [Kinds -> Seq(Sent)]
    /\ errors \subseteq {"stream", "connection"}
    /\ state \in {"up", "ending", "closed"}

\* What the program reads of the messages of a stream, and of the streams a
\* peer opens, is a prefix of what the peer sent, in order: the program never
\* reads past something a full queue refused. Only Network.framework leaves
\* whole streams out. No stream, message or datagram is read twice.
ReadsNothingPastRefused ==
    \A k \in Kinds :
        /\ \A i, j \in DOMAIN read[k] : read[k][i] = read[k][j] => i = j
        /\ k /= "datagram" =>
             \A i \in DOMAIN read[k] : \A n \in 1 .. read[k][i] - 1 :
                 \/ \E j \in 1 .. i : read[k][j] = n
                 \/ k = "stream" /\ Library = "network" /\ n \in refused[k]

=============================================================================
