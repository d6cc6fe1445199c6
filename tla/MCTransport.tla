------------------------------ MODULE MCTransport ------------------------------
(* The parts of a connection, each of which is checked on its own: fallback    *)
(* and migration, the TLS plane's records and streams, the QUIC servers and    *)
(* their receivers with either library, the datagrams of video and of audio,   *)
(* and the end of a desktop session; and, as the other part that must end, the *)
(* execution of a command on either system. A behaviour is one of a single     *)
(* part.                                                                       *)
EXTENDS Naturals

CONSTANTS Clients, Hosts, Paths, Bindings, Threshold, MaxFailures,
          Streams, MaxQueued, BufferBound, MaxMessages,
          Flights, Messages, Size, MaxLegs,
          Connections, Paired, Trusted, MaxPending, MaxSent,
          Capacity, Window, MaxTraffic,
          MaxFrames, MaxFragments, Target, Jitter, MaxPackets, MaxPlayed,
          PipeSize

VARIABLES client, attempt, pending,
          wrote, sender, wire, broken, buffer, known, messages, got, reader, pump, spilled,
          unsent, incoming, encrypted, phase, leg, fed,
          conn, unaccepted, accepting, handed,
          arrived, inbox, read, refused, errors, state,
          mode, ui, control, writer, frameReader, input, output, link, worker, main, sent,
          frames, current, fragments, keyframeRequired, completed, heard,
          recorded, packets, expected, accepted, played, concealed,
          system, pc, at, outcome, process, child, pipes, readers, overdue, stop,
          part

Fallback == INSTANCE ResilientTransport
Mux == INSTANCE StreamMux WITH queue <- messages, Bound <- BufferBound
Records == INSTANCE TlsRecords WITH pending <- encrypted
Server(library) == INSTANCE QuicServer WITH pending <- unaccepted, Library <- library
Inbox(library) == INSTANCE QuicInbox WITH queue <- inbox, Library <- library
Session == INSTANCE DesktopShutdown
             WITH queue <- control, reader <- frameReader, MaxMessages <- MaxTraffic

Video == INSTANCE FrameReassembly
Audio == INSTANCE JitterBuffer WITH sent <- recorded, Capacity <- Jitter
Execution == INSTANCE CommandExecution WITH main <- process

Libraries == {"msquic", "network"}

ASSUME FallbackAssumption == Fallback!ResilientTransportConstants
ASSUME MuxAssumption == Mux!StreamMuxConstants
ASSUME RecordsAssumption == Records!TlsRecordsConstants
ASSUME QuicAssumption ==
       \A library \in Libraries :
         Server(library)!QuicServerConstants /\ Inbox(library)!QuicInboxConstants
ASSUME SessionAssumption == Session!DesktopShutdownConstants
ASSUME ExecutionAssumption == Execution!CommandExecutionConstants
ASSUME VideoAssumption == Video!FrameReassemblyConstants
ASSUME AudioAssumption == Audio!JitterBufferConstants

fallback == <<client, attempt, pending>>
mux == <<wrote, sender, wire, broken, buffer, known, messages, got, reader, pump, spilled>>
records == <<unsent, incoming, encrypted, phase, leg, fed>>
server == <<conn, unaccepted, accepting, handed>>
receiver == <<arrived, inbox, read, refused, errors, state>>
session == <<mode, ui, control, writer, frameReader, input, output, link, worker, main, sent>>
video == <<frames, current, fragments, keyframeRequired, completed, heard>>
audio == <<recorded, packets, expected, accepted, played, concealed>>
command == <<system, pc, at, outcome, process, child, pipes, readers, overdue, stop>>
vars == <<fallback, mux, records, server, receiver, session, video, audio, command, part>>

Is(name, library) == part = [name |-> name, library |-> library]

SomeEndpoint == CHOOSE e \in Fallback!Endpoints : TRUE

\* Only the part that runs has a choice of initial states.
Init ==
    /\ part \in [name : {"server", "inbox"}, library : Libraries]
            \cup [name : {"fallback", "mux", "records", "session", "video", "audio", "command"}, library : {"none"}]
    /\ Fallback!Init /\ (part.name = "fallback" \/ \A c \in Clients : client[c].endpoint = SomeEndpoint)
    /\ Mux!Init /\ Records!Init
    /\ \E library \in Libraries : Server(library)!Init /\ Inbox(library)!Init
    /\ Video!Init /\ Audio!Init
    /\ Execution!Init /\ (part.name = "command" \/ system = "macos")
    /\ Session!Init /\ (part.name = "session" \/ mode = [tls |-> FALSE, interactive |-> FALSE])

Next ==
    \/ /\ Is("fallback", "none") /\ Fallback!Next
       /\ UNCHANGED <<mux, records, server, receiver, session, video, audio, command, part>>
    \/ /\ Is("mux", "none") /\ Mux!Next
       /\ UNCHANGED <<fallback, records, server, receiver, session, video, audio, command, part>>
    \/ /\ Is("records", "none") /\ Records!Next
       /\ UNCHANGED <<fallback, mux, server, receiver, session, video, audio, command, part>>
    \/ \E library \in Libraries :
          /\ Is("server", library) /\ Server(library)!Next
          /\ UNCHANGED <<fallback, mux, records, receiver, session, video, audio, command, part>>
    \/ \E library \in Libraries :
          /\ Is("inbox", library) /\ Inbox(library)!Next
          /\ UNCHANGED <<fallback, mux, records, server, session, video, audio, command, part>>
    \/ /\ Is("session", "none") /\ Session!Next
       /\ UNCHANGED <<fallback, mux, records, server, receiver, video, audio, command, part>>
    \/ /\ Is("video", "none") /\ Video!Next
       /\ UNCHANGED <<fallback, mux, records, server, receiver, session, audio, command, part>>
    \/ /\ Is("audio", "none") /\ Audio!Next
       /\ UNCHANGED <<fallback, mux, records, server, receiver, session, video, command, part>>
    \/ /\ Is("command", "none") /\ Execution!Next
       /\ UNCHANGED <<fallback, mux, records, server, receiver, session, video, audio, part>>

\* The end of a session and a command have liveness properties. As they begin,
\* neither has to do anything, so each is fair also while another part runs.
Spec == Init /\ [][Next]_vars /\ Session!Fairness /\ Execution!Fairness

\* The types of the parts.
TypeOK ==
    /\ Fallback!TypeOK /\ Mux!TypeOK /\ Session!TypeOK /\ Video!TypeOK
    /\ \A library \in Libraries : part.library = library =>
         Server(library)!TypeOK /\ Inbox(library)!TypeOK
    /\ Execution!TypeOK
\* A client that is ready has a whole connection of one kind, a TLS plane that
\* waits for its DTLS plane is wanted by somebody, and a server hands out a
\* connection once, after its peer has proved itself.
ConnectionIsWhole ==
    /\ Fallback!ReadyIsWhole /\ Fallback!PendingIsWanted
    /\ \A library \in Libraries : Is("server", library) => Server(library)!HandsOutProved
\* What is lost or refused is never followed by what came after it: records of
\* a TLS plane, messages of its streams, and what a QUIC connection delivers.
NothingIsSkipped ==
    /\ Records!EveryRecordOnce
    /\ Mux!ReadsAPrefix
    /\ \A library \in Libraries :
         Is("inbox", library) => Inbox(library)!ReadsNothingPastRefused
\* Frames come out in order, and a delta frame never after a gap that was seen.
DeltasFollow == Video!DeltasFollow
\* A packet of audio that was accepted is played, once and in order.
AcceptedIsPlayed == Audio!AcceptedIsPlayed
\* What a command wrote is read, and a command that is given up is gone.
CommandLeavesNothing == Execution!CommandLeavesNothing
\* execute() comes back, but for one case on macOS.
CommandEnds == Execution!CommandEnds
\* stop() returns in the viewer, but for one case over SSH, and the agent's
\* process ends after it.
SessionEnds == Session!StopReturns /\ Session!AgentFollows
=============================================================================
