------------------------------- MODULE StreamMux -------------------------------
(* Several streams over one TLS connection, both ends a TlsConnection: writers *)
(* cut their frames into records under one mutex; whoever reads a stream pumps *)
(* records for all of them under another one, and finds its own message in its *)
(* queue.  A frame that meets a full queue stays in the frame buffer, and a    *)
(* record that meets a full frame buffer is dropped.  Records count as one     *)
(* unit here: the code compares bytes, and what it makes of the frames behind  *)
(* a dropped record is not followed.                                           *)
EXTENDS Naturals, Sequences, SequencesExt, FiniteSets

CONSTANTS
    Streams,
    MaxQueued,      \* maximum_queued_stream_messages, over all streams
    Bound,          \* records of the largest frame, and of the frame buffer
    MaxMessages     \* bound on the messages a stream carries

\* What the constants must be.
StreamMuxConstants ==
    /\ IsFiniteSet(Streams)
    /\ {MaxQueued, Bound} \subseteq Nat \ {0}
    /\ MaxMessages \in Nat

VARIABLES
    wrote,      \* messages each stream's writer has begun; message 0 opens it
    sender,     \* the frame that send_frame is cutting, under send_mutex_
    wire,       \* records under way
    broken,     \* a record was encrypted and not sent: no later one decrypts
    buffer,     \* frame_buffer_
    known,      \* streams_ and accepted_ of the receiver
    queue,      \* the messages of each stream
    got,        \* what each stream's reader has returned
    reader,     \* where the reader of each stream is
    pump,       \* who holds receive_mutex_
    spilled     \* a record met a full frame buffer: a history variable

senderVars == <<wrote, sender, broken>>
frameVars == <<buffer, known, queue, spilled>>
vars == <<senderVars, wire, frameVars, got, reader, pump>>

None == [stream |-> "none"]

Record(s, n, part, of) == [stream |-> s, n |-> n, part |-> part, of |-> of, good |-> TRUE]

-----------------------------------------------------------------------------
(* open, write and send_frame.                                                *)

\* open() sends a frame without data; write() one that may need many records.
WriteBegins(s) ==
    /\ sender = None /\ wrote[s] < MaxMessages
    /\ wrote' = [wrote EXCEPT ![s] = @ + 1]
    /\ \E of \in IF wrote[s] = 0 THEN {1} ELSE {1, Bound} :
         sender' = [stream |-> s, part |-> 1, of |-> of]
    /\ UNCHANGED <<broken, wire, frameVars, got, reader, pump>>

SendsRecord ==
    /\ sender /= None
    /\ wire' = Append(wire, [Record(sender.stream, wrote[sender.stream], sender.part, sender.of)
                               EXCEPT !.good = ~broken])
    /\ sender' = IF sender.part = sender.of THEN None ELSE [sender EXCEPT !.part = @ + 1]
    /\ UNCHANGED <<wrote, broken, frameVars, got, reader, pump>>

SendFails ==
    /\ sender /= None /\ ~broken
    /\ broken' = TRUE /\ sender' = None
    /\ UNCHANGED <<wrote, wire, frameVars, got, reader, pump>>

-----------------------------------------------------------------------------
(* parse_frames, receive_open and receive_data.                               *)

Queued == FoldFunction(LAMBDA q, n : n + Len(q), 0, queue)
EndsFrame(b, i) == b[i].part = b[i].of
Opens(record) == record.n = 1
Delivers(record, open, queued) ==
    IF Opens(record) THEN record.stream \notin open
                     ELSE record.stream \in open /\ queued < MaxQueued

\* How much of the buffer is parsed: up to the first frame that is incomplete
\* or has no place to go, with what is known and queued after those before it.
Parse(b) ==
    LET ends == {i \in DOMAIN b : EndsFrame(b, i)}
        OpenAt(i) == known \cup {b[j].stream : j \in {k \in ends : k < i}}
        QueuedAt(i) == Queued + Cardinality({j \in ends : j < i /\ ~Opens(b[j])})
        refused == {i \in ends : ~Delivers(b[i], OpenAt(i), QueuedAt(i))}
        parsed == {i \in ends : \A j \in refused : i < j}
    IN [at |-> Max({0} \cup parsed), stuck |-> refused /= {},
        open |-> known \cup {b[i].stream : i \in parsed}]

\* A frame without a place is erased as well.
RestWithoutRefused(b, end) == IF end.stuck THEN <<>> ELSE SubSeq(b, end.at + 1, Len(b))
\* A frame is erased once it has been received.
Rest(b, end) == SubSeq(b, end.at + 1, Len(b))

\* The messages of a stream among the frames that are erased.
Delivered(b, end, s) ==
    LET upto[i \in 0 .. end.at] ==
          IF i = 0 THEN <<>>
          ELSE IF b[i].stream = s /\ EndsFrame(b, i) /\ ~Opens(b[i])
            THEN Append(upto[i - 1], b[i].n)
          ELSE upto[i - 1]
    IN upto[end.at]

-----------------------------------------------------------------------------
(* read, accept and pump_until.                                               *)

Take(s) ==
    /\ got' = [got EXCEPT ![s] = Append(@, Head(queue[s]))]
    /\ queue' = [queue EXCEPT ![s] = Tail(@)]

\* The predicate before the mutex.
ReadsQueued(s) ==
    /\ reader[s] = "idle" /\ s \in known /\ queue[s] /= <<>>
    /\ Take(s)
    /\ UNCHANGED <<senderVars, wire, buffer, known, spilled, reader, pump>>

\* Reading, or waiting to accept a stream nobody has opened.
Waits(s) ==
    /\ reader[s] = "idle" /\ queue[s] = <<>>
    /\ reader' = [reader EXCEPT ![s] = "waiting"]
    /\ UNCHANGED <<senderVars, wire, frameVars, got, pump>>

Locks(s) ==
    /\ reader[s] = "waiting" /\ pump = None
    /\ pump' = [stream |-> s]
    /\ UNCHANGED <<senderVars, wire, frameVars, got, reader>>

Leaves(s) ==
    /\ reader' = [reader EXCEPT ![s] = "idle"]
    /\ pump' = IF pump = [stream |-> s] THEN None ELSE pump

\* The mutex or the connection keeps a reader until its deadline; a message
\* that another reader has pumped for it by then stays in its queue.
TimesOut(s) ==
    /\ reader[s] = "waiting"
    /\ Leaves(s)
    /\ UNCHANGED <<senderVars, wire, frameVars, got>>

Satisfied(s) == queue[s] /= <<>>

ReadsPumped(s) ==
    /\ pump = [stream |-> s] /\ Satisfied(s)
    /\ Take(s) /\ Leaves(s)
    /\ UNCHANGED <<senderVars, wire, buffer, known, spilled>>

AcceptsStream(s) ==
    /\ pump = [stream |-> s] /\ s \in known /\ ~Satisfied(s) /\ got[s] = <<>>
    /\ Leaves(s)
    /\ UNCHANGED <<senderVars, wire, frameVars, got>>

\* The next record cannot be decrypted, by whoever tries.
PumpFails(s) ==
    /\ pump = [stream |-> s] /\ ~Satisfied(s)
    /\ wire /= <<>> /\ ~Head(wire).good
    /\ Leaves(s)
    /\ UNCHANGED <<senderVars, wire, frameVars, got>>

PumpSpills(s) ==
    /\ pump = [stream |-> s] /\ ~Satisfied(s)
    /\ wire /= <<>> /\ Head(wire).good /\ Len(buffer) = Bound
    /\ wire' = Tail(wire) /\ spilled' = TRUE
    /\ Leaves(s)
    /\ UNCHANGED <<senderVars, buffer, known, queue, got>>

Pump(s) ==
    /\ pump = [stream |-> s] /\ ~Satisfied(s)
    /\ wire /= <<>> /\ Head(wire).good /\ Len(buffer) < Bound
    /\ LET b == Append(buffer, Head(wire))  end == Parse(b)
       IN /\ buffer' = Rest(b, end)
          /\ known' = end.open
          /\ queue' = [t \in Streams |-> queue[t] \o Delivered(b, end, t)]
          /\ IF end.stuck THEN Leaves(s) ELSE UNCHANGED <<reader, pump>>
    /\ wire' = Tail(wire)
    /\ UNCHANGED <<senderVars, got, spilled>>

-----------------------------------------------------------------------------
Init ==
    /\ wrote = [s \in Streams |-> 0] /\ sender = None /\ broken = FALSE
    /\ wire = <<>> /\ buffer = <<>> /\ known = {}
    /\ queue = [s \in Streams |-> <<>>] /\ got = [s \in Streams |-> <<>>]
    /\ reader = [s \in Streams |-> "idle"] /\ pump = None /\ spilled = FALSE

Next ==
    \/ SendsRecord \/ SendFails
    \/ \E s \in Streams :
         \/ WriteBegins(s)
         \/ ReadsQueued(s) \/ Waits(s) \/ Locks(s) \/ TimesOut(s)
         \/ ReadsPumped(s) \/ AcceptsStream(s)
         \/ PumpFails(s) \/ PumpSpills(s) \/ Pump(s)

Spec == Init /\ [][Next]_vars

-----------------------------------------------------------------------------
(* Properties.                                                                *)

Records == [stream : Streams, n : 1 .. MaxMessages, part : 1 .. Bound, of : {1, Bound}, good : BOOLEAN]

TypeOK ==
    /\ wrote \in [Streams -> 0 .. MaxMessages]
    /\ sender = None \/ sender \in [stream : Streams, part : 1 .. Bound, of : {1, Bound}]
    /\ wire \in Seq(Records) /\ buffer \in Seq(Records) /\ Len(buffer) <= Bound
    /\ known \subseteq Streams
    /\ queue \in [Streams -> Seq(1 .. MaxMessages)] /\ Queued <= MaxQueued
    /\ got \in [Streams -> Seq(1 .. MaxMessages)]
    /\ reader \in [Streams -> {"idle", "waiting"}]
    /\ pump = None \/ pump \in [stream : Streams]
    /\ {broken, spilled} \subseteq BOOLEAN

\* What a stream's reader has been given is what its writer wrote, from the
\* first message on, without a gap, in order and once: whichever reader pumped
\* the record, timed out on the mutex or ran into another stream's full queue.
\* Nothing is claimed once a record met a full frame buffer, which its reader
\* is told: a later, shorter record may still fit, as bytes of the frame cut off.
ReadsAPrefix ==
    spilled \/ \A s \in Streams :
        LET seen == got[s] \o queue[s] IN \A i \in DOMAIN seen : seen[i] = i + 1

=============================================================================
