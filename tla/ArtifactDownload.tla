---------------------------- MODULE ArtifactDownload ----------------------------
(* The download of an artifact: a client that keeps what it has received in a  *)
(* staging file, asks for the chunks that are missing from it and reads them   *)
(* from a stream the node fills from the worker. A client that is run again    *)
(* with the same transfer id goes on from the staging file. A chunk of that    *)
(* file is absent, torn by a death during its write, or right.                 *)
EXTENDS Naturals, Sequences, FiniteSets, FiniteSetsExt

CONSTANTS
    MaxChunks, \* chunks of the artifact
    MaxBreaks  \* bound: connections, processes and writes that fail

ArtifactDownloadConstants == MaxChunks \in Nat \ {0} /\ MaxBreaks \in Nat

VARIABLES
    staging,     \* staging[c]: what the staging file has of chunk c
    destination, \* the destination file
    client,      \* where download_artifact is, what it asked for, expects and counted
    node,        \* the chunks the node has still to relay, and whether it relays
    wire,        \* chunks in the stream
    sent,        \* history: chunks relayed in this attempt
    breaks       \* what is spent of the bound

vars == <<staging, destination, client, node, wire, sent, breaks>>

Chunks == 1 .. MaxChunks
Empty == [c \in Chunks |-> "absent"]
Whole == [c \in Chunks |-> "right"]
Holds(contents) == {c \in Chunks : staging[c] = contents}

Init ==
    /\ staging = Empty /\ destination = Empty
    /\ client = [at |-> "idle", asked |-> {}, expected |-> {}, received |-> 0]
    /\ node = [relays |-> FALSE, expected |-> {}]
    /\ wire = <<>> /\ sent = {} /\ breaks = 0

-----------------------------------------------------------------------------
\* recover_verified_chunks, missing_chunks: what does not have its hash.
MissingBySize == Holds("absent")
Missing == Chunks \ Holds("right")

\* The command, the manifest and the resume: a node process serves one download.
Asks ==
    /\ client.at \notin {"reading", "writing"} /\ ~node.relays
    /\ client' = [at |-> "reading", asked |-> Missing, expected |-> Missing, received |-> 0]
    /\ node' = [relays |-> TRUE, expected |-> Missing]
    /\ wire' = <<>> /\ sent' = {}
    /\ UNCHANGED <<staging, destination, breaks>>

\* The node relays the chunks in the order of the request and then records the
\* download, whether or not anybody reads them.
Relays ==
    /\ node.relays /\ node.expected /= {}
    /\ LET c == Min(node.expected)
       IN /\ node' = [node EXCEPT !.expected = @ \ {c}]
          /\ wire' = Append(wire, c) /\ sent' = sent \cup {c}
    /\ UNCHANGED <<staging, destination, client, breaks>>

Records ==
    /\ node.relays /\ node.expected = {}
    /\ node' = [node EXCEPT !.relays = FALSE]
    /\ UNCHANGED <<staging, destination, client, wire, sent, breaks>>

\* The loop counts what it received against a set it takes each chunk from.
GoesOn == client.received < Cardinality(client.expected)

\* accept_chunk: the write, and its flush.
Writes ==
    /\ client.at = "reading" /\ GoesOn /\ wire /= <<>>
    /\ staging' = [staging EXCEPT ![Head(wire)] = "torn"]
    /\ client' = [client EXCEPT !.at = "writing", !.expected = @ \ {Head(wire)}]
    /\ UNCHANGED <<destination, node, wire, sent, breaks>>

Flushes ==
    /\ client.at = "writing"
    /\ staging' = [staging EXCEPT ![Head(wire)] = "right"]
    /\ client' = [client EXCEPT !.at = "reading", !.received = @ + 1]
    /\ wire' = Tail(wire)
    /\ UNCHANGED <<destination, node, sent, breaks>>

Omits ==
    /\ client.at = "reading" /\ ~GoesOn /\ client.expected /= {}
    /\ client' = [client EXCEPT !.at = "omitted"]
    /\ UNCHANGED <<staging, destination, node, wire, sent, breaks>>

\* finalize moves the staging file whose hash is the artifact's.
Finalizes ==
    /\ client.at = "reading" /\ ~GoesOn /\ client.expected = {}
    /\ IF staging = Whole
         THEN /\ destination' = staging /\ staging' = Empty
              /\ client' = [client EXCEPT !.at = "done"]
         ELSE /\ client' = [client EXCEPT !.at = "failed"]
              /\ UNCHANGED <<staging, destination>>
    /\ UNCHANGED <<node, wire, sent, breaks>>

\* The client dies or its connection ends; the node, the worker or the session
\* does. A chunk that was being written may be there in full.
Breaks == breaks < MaxBreaks /\ breaks' = breaks + 1
ClientFails ==
    /\ client.at \in {"reading", "writing"} /\ Breaks
    /\ client' = [client EXCEPT !.at = "failed"]
    /\ \/ UNCHANGED staging
       \/ client.at = "writing" /\ staging' = [staging EXCEPT ![Head(wire)] = "right"]
    /\ UNCHANGED <<destination, node, wire, sent>>

\* A stream nobody reads may also fail the node that writes to it.
NodeFails ==
    /\ node.relays
    /\ \/ Breaks
       \/ client.at \notin {"reading", "writing"} /\ UNCHANGED breaks
    /\ node' = [node EXCEPT !.relays = FALSE]
    /\ UNCHANGED <<staging, destination, client, wire, sent>>

\* What the node had sent is read before its end is noticed.
Starves ==
    /\ client.at = "reading" /\ GoesOn /\ wire = <<>> /\ ~node.relays
    /\ client' = [client EXCEPT !.at = "failed"]
    /\ UNCHANGED <<staging, destination, node, wire, sent, breaks>>

Next ==
    \/ Asks \/ Relays \/ Records \/ Writes \/ Flushes \/ Omits \/ Finalizes
    \/ ClientFails \/ NodeFails \/ Starves

Spec == Init /\ [][Next]_vars

-----------------------------------------------------------------------------
\* The destination is absent or whole. An attempt nothing disturbs takes half of
\* what it asked for, rounded up: it finishes the file when one chunk or none
\* was missing, and leaves the other half for the next attempt otherwise.
AttemptsAddUp ==
    /\ destination \in {Empty, Whole}
    /\ client.at = "done" => destination = Whole /\ Cardinality(client.asked) <= 1
    /\ client.at = "omitted" =>
           /\ Chunks \ Holds("right") \subseteq client.asked
           /\ Cardinality(Chunks \ Holds("right")) = Cardinality(client.asked) \div 2

\* What the client reports with "artifact transfer omitted requested chunks": a
\* chunk it asked for was not sent.
OmissionIsReal == client.at = "omitted" => ~(client.asked \subseteq sent)

=============================================================================
