------------------------------- MODULE QuicServer ------------------------------
(* The accepting side of a node's QUIC listener, for both libraries.  MsQuic   *)
(* runs the handshakes while one thread waits in accept() for a connection     *)
(* whose certificate was admitted; its callbacks wake that thread without its  *)
(* mutex.  Network.framework hands over connections that have not begun: the   *)
(* accepting thread takes the first one and waits for its handshake.           *)
EXTENDS Naturals, Sequences

CONSTANTS
    Connections,
    Library,        \* "msquic" or "network"
    Paired,         \* connections whose certificate is on the allow list
    Trusted,        \* connections whose chain is valid
    MaxPending      \* maximum_pending_connections

\* What the constants must be.
QuicServerConstants ==
    /\ Library \in {"msquic", "network"}
    /\ Paired \subseteq Connections /\ Trusted \subseteq Connections
    /\ MaxPending \in Nat \ {0}

VARIABLES
    conn,       \* each connection as the callbacks have left it
    pending,    \* pending_
    accepting,  \* where accept() is
    handed      \* what accept() returned

vars == <<conn, pending, accepting, handed>>

\* stage is the library's own; the rest is what the callbacks wrote down.
New == [stage |-> "none", allowed |-> FALSE, connected |-> FALSE, failed |-> FALSE, closed |-> FALSE]
At(c, stage) == conn[c].stage = stage
Sets(c, record) == conn' = [conn EXCEPT ![c] = record]

Outside == [at |-> "outside"]
Waiting == [at |-> "waiting"]
Looking == [at |-> "looking"]
Proving(c) == [at |-> "proving", connection |-> c]

-----------------------------------------------------------------------------
(* listener_callback and connection_callback.                                 *)

\* MsQuic starts the handshake of a connection it may queue.
NewConnection(c) ==
    /\ At(c, "none")
    /\ IF Len(pending) >= MaxPending
         THEN Sets(c, [New EXCEPT !.stage = "over"]) /\ UNCHANGED pending
         ELSE /\ Sets(c, [New EXCEPT !.stage = IF Library = "msquic" THEN "shaking" ELSE "queued"])
              /\ pending' = Append(pending, c)
    /\ UNCHANGED <<accepting, handed>>

\* peer_certificate_received; verify_peer.
Allows(c) == c \in Paired /\ c \in Trusted

Certificate(c) ==
    /\ At(c, "shaking")
    /\ Sets(c, [conn[c] EXCEPT !.stage = "seen", !.allowed = Allows(c), !.failed = ~Allows(c)])
    /\ UNCHANGED <<pending, accepting, handed>>

\* MsQuic may report a connection whose certificate was refused, or which sent
\* none; Network.framework cancels it.
Connects(c) ==
    /\ At(c, "seen") \/ At(c, "shaking")
    /\ Library = "network" => conn[c].allowed
    /\ Sets(c, [conn[c] EXCEPT !.stage = "up", !.connected = conn[c].allowed, !.failed = ~conn[c].allowed])
    /\ UNCHANGED <<pending, accepting, handed>>

\* SHUTDOWN_INITIATED_BY_TRANSPORT or _BY_PEER. Network.framework reports
\* only that the connection is over, and does not take back that it was ready.
ShutsDown(c) ==
    /\ Library = "msquic" /\ conn[c].stage \in {"shaking", "seen", "up"}
    /\ Sets(c, [conn[c] EXCEPT !.stage = "ending", !.connected = FALSE, !.failed = TRUE])
    /\ UNCHANGED <<pending, accepting, handed>>

ShutdownCompletes(c) ==
    /\ \/ At(c, "ending")
       \/ Library = "network" /\ conn[c].stage \in {"shaking", "seen", "up"}
    /\ Sets(c, [conn[c] EXCEPT !.stage = "over", !.closed = TRUE,
                               !.connected = @ /\ Library = "network"])
    /\ UNCHANGED <<pending, accepting, handed>>

-----------------------------------------------------------------------------
(* accept().                                                                  *)

ServerReady(c) == conn[c].connected /\ conn[c].allowed /\ ~conn[c].closed
ServerTerminal(c) == conn[c].closed \/ conn[c].failed

InPending == {pending[i] : i \in DOMAIN pending}

Accept ==
    /\ accepting = Outside
    /\ accepting' = Waiting
    /\ UNCHANGED <<conn, pending, handed>>

\* A wake-up that comes before accept() sleeps is lost until the timeout.
AcceptWakes ==
    /\ accepting = Waiting
    /\ \E c \in InPending : Library = "network" \/ ServerReady(c) \/ ServerTerminal(c)
    /\ accepting' = Looking
    /\ UNCHANGED <<conn, pending, handed>>

AcceptTimesOut ==
    /\ accepting = Waiting
    /\ accepting' = Outside
    /\ UNCHANGED <<conn, pending, handed>>

\* MsQuic: the first connection that is ready by now, if there is one; a failed
\* one stays where it is. Network.framework: the first one, which begins.
Without(i) == SubSeq(pending, 1, i - 1) \o SubSeq(pending, i + 1, Len(pending))

Candidates ==
    IF Library = "network" THEN {1}
    ELSE {i \in DOMAIN pending : /\ ServerReady(pending[i])
                                 /\ \A j \in 1 .. i - 1 : ~ServerReady(pending[j])}

AcceptTakes ==
    /\ accepting = Looking
    /\ \/ \E i \in Candidates :
            /\ pending' = Without(i)
            /\ accepting' = Proving(pending[i])
            /\ IF Library = "network" THEN Sets(pending[i], [New EXCEPT !.stage = "shaking"])
                                      ELSE UNCHANGED conn
       \/ Candidates = {} /\ accepting' = Outside /\ UNCHANGED <<pending, conn>>
    /\ UNCHANGED handed

\* What the connection once was is proof enough.
ProvedOnce(c) == ServerReady(c) \/ conn[c].failed
\* server_peer_evidence and its validation; the wait for `ready`.
Proved(c) == conn[c].connected /\ (Library = "msquic" => ~conn[c].failed)

\* A MsQuic connection proves what it is at once; the other one when its
\* handshake is over, one way or the other, or its time is.
AcceptReturns ==
    /\ accepting.at = "proving"
    /\ LET c == accepting.connection
       IN \/ /\ Proved(c)
             /\ handed' = Append(handed, [connection |-> c, failed |-> conn[c].failed])
             /\ UNCHANGED conn
          \/ /\ ~Proved(c)
             /\ Sets(c, [conn[c] EXCEPT !.stage = "over", !.closed = TRUE])
             /\ UNCHANGED handed
    /\ accepting' = Outside
    /\ UNCHANGED pending

-----------------------------------------------------------------------------
Init ==
    /\ conn = [c \in Connections |-> New]
    /\ pending = <<>> /\ accepting = Outside /\ handed = <<>>

Callback(c) ==
    \/ NewConnection(c) \/ Certificate(c) \/ Connects(c)
    \/ ShutsDown(c) \/ ShutdownCompletes(c)

Next ==
    \/ Accept \/ AcceptWakes \/ AcceptTimesOut \/ AcceptTakes \/ AcceptReturns
    \/ \E c \in Connections : Callback(c)

Spec == Init /\ [][Next]_vars

-----------------------------------------------------------------------------
(* Properties.                                                                *)

Stages == {"none", "queued", "shaking", "seen", "up", "ending", "over"}

TypeOK ==
    /\ conn \in [Connections -> [stage : Stages, allowed : BOOLEAN, connected : BOOLEAN,
                                 failed : BOOLEAN, closed : BOOLEAN]]
    /\ pending \in Seq(Connections) /\ Len(pending) <= MaxPending
    /\ accepting \in {Outside, Waiting, Looking} \cup {Proving(c) : c \in Connections}
    /\ handed \in Seq([connection : Connections, failed : BOOLEAN])

\* A connection is handed out at most once, with a certificate that is paired
\* and whose chain is valid, and whose failure was not known when its evidence
\* was taken: whatever the callbacks did between the wake-up of accept(), its
\* choice of a connection and the look at the evidence. What is handed out is
\* not waiting any more.
HandsOutProved ==
    \A i \in DOMAIN handed :
        LET c == handed[i].connection
        IN /\ c \in Paired \cap Trusted
           /\ ~handed[i].failed
           /\ \A j \in DOMAIN handed : handed[j].connection = c => j = i
           /\ c \notin InPending

=============================================================================
