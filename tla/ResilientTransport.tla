--------------------------- MODULE ResilientTransport --------------------------
(* Several connections that recover by themselves, each a ResilientTransport:  *)
(* QUIC first, TLS with a bound DTLS plane after enough failures, migration or *)
(* a new connection when the network changes.  The fallback planes come from   *)
(* one provider the connections share, which hands the binding of a new TLS    *)
(* plane to the DTLS plane that is opened next.                                *)
EXTENDS Naturals, FiniteSets

CONSTANTS
    Clients,
    Hosts, Paths,       \* an endpoint is a host and the path to it
    Bindings,           \* keying material a TLS plane exports
    Threshold,          \* primary_failures_before_fallback
    MaxFailures         \* bound on the failures a client counts

\* What the constants must be: a new TLS plane finds a binding nobody uses.
ResilientTransportConstants ==
    /\ Threshold \in Nat \ {0} /\ MaxFailures \in Nat
    /\ IsFiniteSet(Clients) /\ IsFiniteSet(Bindings)
    /\ Cardinality(Bindings) > 2 * Cardinality(Clients) + 1

VARIABLES
    client,     \* state, endpoint, failures and the connection of each client
    attempt,    \* where each client is in connect(), with the planes it made
    pending     \* pending_binding_ of the provider

vars == <<client, attempt, pending>>

Endpoints == Hosts \X Paths
None == [is |-> "none"]
Nobody == "no binding"
Quic(e) == [is |-> "quic", endpoint |-> e, moved |-> FALSE]
Plane(e, b) == [endpoint |-> e, binding |-> b]
Fallback(tls, dtls) == [is |-> "fallback", tls |-> tls, dtls |-> dtls]

Idle == [step |-> "idle"]
Try(step) == [step |-> step]
With(step, tls) == [step |-> step, tls |-> tls]
WithBoth(step, tls, dtls) == [step |-> step, tls |-> tls, dtls |-> dtls]

Calls(c) == attempt[c] = Idle
IsAt(c, step) == attempt[c].step = step
Goes(c, next) == attempt' = [attempt EXCEPT ![c] = next]

Drops(c, state) == [client[c] EXCEPT !.state = state, !.active = None]
Becomes(c, record) == client' = [client EXCEPT ![c] = record]

\* require_ready, before every stream and datagram.
Ready(c) == client[c].state = "ready" /\ client[c].active /= None /\ Calls(c)

-----------------------------------------------------------------------------
(* connect: QUIC, then the fallback once the failures in a row are enough.     *)

Connect(c) ==
    /\ Calls(c) /\ client[c].state = "disconnected"
    /\ client[c].failures < MaxFailures
    /\ Becomes(c, [client[c] EXCEPT !.state = "connecting"])
    /\ Goes(c, Try("quic"))
    /\ UNCHANGED pending

QuicConnects(c) ==
    /\ IsAt(c, "quic")
    /\ Becomes(c, [client[c] EXCEPT !.state = "ready", !.failures = 0,
                                    !.active = Quic(client[c].endpoint)])
    /\ Goes(c, Idle)
    /\ UNCHANGED pending

QuicFails(c) ==
    /\ IsAt(c, "quic")
    /\ Becomes(c, [Drops(c, "disconnected") EXCEPT !.failures = @ + 1])
    /\ Goes(c, IF client[c].failures + 1 >= Threshold THEN Try("check") ELSE Idle)
    /\ UNCHANGED pending

\* Whatever fails on the way to a fallback, connect() throws.
GivesUp(c) == Becomes(c, Drops(c, "disconnected")) /\ Goes(c, Idle)

\* connect_tls13: no other plane may be pending, handshake, then publish.
TlsChecks(c) ==
    /\ IsAt(c, "check")
    /\ IF pending = Nobody THEN Goes(c, Try("tls")) /\ UNCHANGED client
                           ELSE GivesUp(c)
    /\ UNCHANGED pending

InUse == {pending} \cup
         UNION {{attempt[c].tls.binding : c \in {d \in Clients : "tls" \in DOMAIN attempt[d]}},
                {attempt[c].dtls.binding : c \in {d \in Clients : "dtls" \in DOMAIN attempt[d]}},
                {client[c].active.tls.binding : c \in {d \in Clients : client[d].active.is = "fallback"}}}

TlsConnects(c) ==
    /\ IsAt(c, "tls")
    /\ LET b == CHOOSE fresh \in Bindings : fresh \notin InUse
       IN Goes(c, With("publish", Plane(client[c].endpoint, b)))
    /\ UNCHANGED <<client, pending>>

TlsFails(c) == IsAt(c, "tls") /\ GivesUp(c) /\ UNCHANGED pending

TlsPublishes(c) ==
    /\ IsAt(c, "publish")
    /\ pending' = attempt[c].tls.binding
    /\ Goes(c, With("take", attempt[c].tls))
    /\ UNCHANGED client

\* connect_dtls12: takes what is pending, whoever published it.
DtlsTakes(c) == Nobody

DtlsStarts(c) ==
    /\ IsAt(c, "take")
    /\ IF pending = Nobody
         THEN GivesUp(c) /\ UNCHANGED pending
         ELSE /\ pending' = DtlsTakes(c)
              /\ Goes(c, WithBoth("dtls", attempt[c].tls, Plane(client[c].endpoint, pending)))
              /\ UNCHANGED client

DtlsFails(c) == IsAt(c, "dtls") /\ GivesUp(c) /\ UNCHANGED pending

\* EncryptedFallbackTransport: both planes carry the same binding. The peer's
\* certificate alone does not tell two attempts apart.
PeerBound(tls, dtls) == TRUE
Bound(tls, dtls) == tls.binding = dtls.binding

DtlsConnects(c) ==
    /\ IsAt(c, "dtls")
    /\ LET tls == attempt[c].tls  dtls == attempt[c].dtls
       IN IF Bound(tls, dtls)
            THEN /\ Becomes(c, [client[c] EXCEPT !.state = "ready", !.active = Fallback(tls, dtls)])
                 /\ Goes(c, Idle)
            ELSE GivesUp(c)
    /\ UNCHANGED pending

-----------------------------------------------------------------------------
(* The network changes.                                                        *)

\* The library notes that the connection's local address is another one.
AddressChanges(c) ==
    /\ client[c].active.is = "quic" /\ ~client[c].active.moved
    /\ Becomes(c, [client[c] EXCEPT !.active.moved = TRUE])
    /\ UNCHANGED <<attempt, pending>>

\* confirm_migration: to the same host, once per change of the local address.
Confirmed(active, e) ==
    active.is = "quic" /\ active.endpoint[1] = e[1] /\ active.moved

\* network_changed: the endpoint is replaced first; a connection that does not
\* migrate is dropped and connect() is called. A connection that does stays
\* with its host.
NetworkChanged(c, e) ==
    /\ Ready(c) /\ client[c].failures < MaxFailures
    /\ \/ /\ Confirmed(client[c].active, e)
          /\ Becomes(c, [client[c] EXCEPT !.endpoint = e,
                           !.active.endpoint[2] = e[2], !.active.moved = FALSE])
          /\ UNCHANGED attempt
       \/ /\ ~Confirmed(client[c].active, e)
          /\ Becomes(c, [Drops(c, "connecting") EXCEPT !.endpoint = e])
          /\ Goes(c, Try("quic"))
    /\ UNCHANGED pending

Reconnect(c) ==
    /\ Calls(c) /\ client[c].state \in {"ready", "disconnected"}
    /\ client[c].failures < MaxFailures
    /\ Becomes(c, Drops(c, "connecting"))
    /\ Goes(c, Try("quic"))
    /\ UNCHANGED pending

Close(c) ==
    /\ Calls(c) /\ client[c].state /= "closed"
    /\ Becomes(c, Drops(c, "closed"))
    /\ UNCHANGED <<attempt, pending>>

-----------------------------------------------------------------------------
Init ==
    /\ client \in [Clients -> {[state |-> "disconnected", active |-> None,
                                failures |-> 0, endpoint |-> e] : e \in Endpoints}]
    /\ attempt = [c \in Clients |-> Idle]
    /\ pending = Nobody

Connecting(c) ==
    \/ QuicConnects(c) \/ QuicFails(c)
    \/ TlsChecks(c) \/ TlsConnects(c) \/ TlsFails(c) \/ TlsPublishes(c)
    \/ DtlsStarts(c) \/ DtlsFails(c) \/ DtlsConnects(c)

Next ==
    \E c \in Clients :
        \/ Connect(c) \/ Connecting(c)
        \/ AddressChanges(c) \/ Reconnect(c) \/ Close(c)
        \/ \E e \in Endpoints : NetworkChanged(c, e)

Spec == Init /\ [][Next]_vars

-----------------------------------------------------------------------------
(* Properties.                                                                *)

States == {"disconnected", "connecting", "ready", "closed"}
Planes == [endpoint : Endpoints, binding : Bindings]
Actives == {None} \cup [is : {"quic"}, endpoint : Endpoints, moved : BOOLEAN]
             \cup [is : {"fallback"}, tls : Planes, dtls : Planes]
Attempts == [step : {"idle", "quic", "check", "tls"}]
              \cup [step : {"publish", "take"}, tls : Planes]
              \cup [step : {"dtls"}, tls : Planes, dtls : Planes]

TypeOK ==
    /\ client \in [Clients -> [state : States, active : Actives, failures : 0 .. MaxFailures,
                               endpoint : Endpoints]]
    /\ attempt \in [Clients -> Attempts]
    /\ pending \in Bindings \cup {Nobody}

\* A connection that is ready leads to the endpoint the client was last told,
\* by both planes, which one and the same attempt opened: however the attempts
\* of several clients interleave in the provider, datagrams of one connection
\* are never protected by the keys another one's TLS plane vouched for.
ReadyIsWhole ==
    \A c \in Clients : client[c].state = "ready" =>
        LET active == client[c].active
        IN \/ active.is = "quic" /\ active.endpoint = client[c].endpoint
           \/ /\ active.is = "fallback"
              /\ active.tls = active.dtls
              /\ active.tls.endpoint = client[c].endpoint
              /\ \A d \in Clients \ {c} :
                   client[d].active.is = "fallback" =>
                     client[d].active.tls.binding /= active.tls.binding

\* A binding is pending only while some client is about to take it: an attempt
\* that failed or lost its binding to another client leaves nothing behind that
\* would make the provider refuse every fallback from then on.
PendingIsWanted ==
    pending /= Nobody => \E c \in Clients : IsAt(c, "take")

=============================================================================
