--------------------------- MODULE TransportProofs ---------------------------
(* The parts of a connection for every value of the constants: fallback and    *)
(* migration of any number of clients, the QUIC servers, the datagrams of      *)
(* video and of audio, the execution of a command, and what is never skipped:  *)
(* streams and records of the TLS plane, and what QUIC's receivers read. Each  *)
(* part has an inductive invariant of its own, which the steps of the other    *)
(* parts keep because they leave its variables alone.                          *)
EXTENDS MCTransport, Sequences, FiniteSets, Functions, WellFoundedInduction,
        FiniteSetTheorems, SequenceTheorems, TLAPS

-----------------------------------------------------------------------------
(* Fallback and migration.                                                     *)

(* A client that is in connect() has no connection, and one that has a         *)
(* connection is ready; its planes and those of its attempt lead to its        *)
(* endpoint.                                                                   *)
Whole(record, try) ==
    /\ record.state /= "ready" => record.active.is = "none"
    /\ record.state = "ready" => record.active.is /= "none" /\ try.step = "idle"
    /\ record.active.is = "quic" => record.active.endpoint = record.endpoint
    /\ record.active.is = "fallback" =>
          record.active.tls = record.active.dtls /\ record.active.tls.endpoint = record.endpoint
    /\ try.step \in {"publish", "take", "dtls"} => try.tls.endpoint = record.endpoint
    /\ try.step = "dtls" => try.dtls.endpoint = record.endpoint
    /\ try.step = "quic" => record.failures < MaxFailures
Attached == \A c \in Clients : Whole(client[c], attempt[c])

(* A binding that a client's attempt carries or its connection uses is no     *)
(* other client's.                                                             *)
Has(record, try, b) ==
    \/ try.step \in {"publish", "take", "dtls"} /\ try.tls.binding = b
    \/ record.active.is = "fallback" /\ record.active.tls.binding = b
Carries(c, b) == Has(client[c], attempt[c], b)
Separate ==
    \A c, d \in Clients : \A b \in Bindings : Carries(c, b) /\ Carries(d, b) => c = d

ClientRecords == [state : Fallback!States, active : Fallback!Actives, failures : 0 .. MaxFailures,
                  endpoint : Fallback!Endpoints]

FallbackInv ==
    Fallback!TypeOK /\ Attached /\ Separate /\ Fallback!PendingIsWanted

LEMMA FallbackImplies ==
    ASSUME FallbackInv PROVE Fallback!ReadyIsWhole /\ Fallback!PendingIsWanted
  <1> SUFFICES ASSUME NEW c \in Clients, client[c].state = "ready"
               PROVE  LET active == client[c].active
                      IN \/ active.is = "quic" /\ active.endpoint = client[c].endpoint
                         \/ /\ active.is = "fallback"
                            /\ active.tls = active.dtls
                            /\ active.tls.endpoint = client[c].endpoint
                            /\ \A d \in Clients \ {c} :
                                 client[d].active.is = "fallback" =>
                                   client[d].active.tls.binding /= active.tls.binding
    BY DEF Fallback!ReadyIsWhole, FallbackInv
  <1>1. client[c].active \in Fallback!Actives /\ client[c].active.is /= "none"
    BY DEF FallbackInv, Fallback!TypeOK, Attached, Whole
  <1>2. client[c].active.is \in {"quic", "fallback"}
    BY <1>1 DEF Fallback!Actives, Fallback!None
  <1>3. CASE client[c].active.is = "quic"
    BY <1>3 DEF FallbackInv, Attached, Whole
  <1>4. CASE client[c].active.is = "fallback"
    <2>1. client[c].active.tls.binding \in Bindings
      BY <1>1, <1>4 DEF Fallback!Actives, Fallback!None, Fallback!Planes
    <2> QED BY <1>4, <2>1 DEF FallbackInv, Attached, Whole, Separate, Carries, Has
  <1> QED BY <1>2, <1>3, <1>4

LEMMA FallbackInit ==
    ASSUME Fallback!Init, Fallback!ResilientTransportConstants PROVE FallbackInv
  <1>1. ASSUME NEW c \in Clients
        PROVE  /\ client[c] \in [state : Fallback!States, active : Fallback!Actives, failures : 0 .. MaxFailures,
                                 endpoint : Fallback!Endpoints]
               /\ client[c].active.is = "none" /\ client[c].state = "disconnected"
               /\ attempt[c] \in Fallback!Attempts /\ attempt[c].step = "idle"
    <2>1. PICK e \in Fallback!Endpoints :
             client[c] = [state |-> "disconnected", active |-> Fallback!None, failures |-> 0, endpoint |-> e]
      BY DEF Fallback!Init
    <2>2. MaxFailures \in Nat /\ Fallback!None \in Fallback!Actives /\ Fallback!None.is = "none"
      BY DEF Fallback!ResilientTransportConstants, Fallback!Actives, Fallback!None
    <2>3. client[c] \in [state : Fallback!States, active : Fallback!Actives, failures : 0 .. MaxFailures,
                         endpoint : Fallback!Endpoints]
      BY <2>1, <2>2 DEF Fallback!States
    <2>4. attempt[c] = [step |-> "idle"]
      BY DEF Fallback!Init, Fallback!Idle
    <2>5. attempt[c] \in Fallback!Attempts /\ attempt[c].step = "idle"
      BY <2>4 DEF Fallback!Attempts
    <2>6. client[c].active.is = "none" /\ client[c].state = "disconnected"
      BY <2>1, <2>2
    <2> QED BY <2>3, <2>5, <2>6
  <1>2. client \in [Clients -> [state : Fallback!States, active : Fallback!Actives, failures : 0 .. MaxFailures,
                               endpoint : Fallback!Endpoints]]
    <2>1. client = [c \in Clients |-> client[c]]
      BY DEF Fallback!Init
    <2> QED BY <1>1, <2>1
  <1>3. Fallback!TypeOK
    <2>1. attempt = [c \in Clients |-> attempt[c]]
      BY DEF Fallback!Init
    <2> QED BY <1>1, <1>2, <2>1 DEF Fallback!Init, Fallback!TypeOK
  <1>5. Attached /\ Separate
    BY <1>1 DEF Attached, Whole, Separate, Carries, Has
  <1>6. Fallback!PendingIsWanted
    BY DEF Fallback!Init, Fallback!PendingIsWanted
  <1> QED BY <1>3, <1>5, <1>6 DEF FallbackInv

(* What a client's connection and its attempt are made of.                     *)
LEMMA ClientFacts ==
    ASSUME Fallback!TypeOK, NEW c \in Clients
    PROVE  /\ client[c].state \in Fallback!States /\ client[c].failures \in 0 .. MaxFailures
           /\ client[c].endpoint \in Fallback!Endpoints
           /\ client[c].active \in Fallback!Actives
           /\ client[c].active.is \in {"none", "quic", "fallback"}
           /\ client[c].active.is = "none" => client[c].active = Fallback!None
           /\ client[c].active.is = "quic" =>
                client[c].active.endpoint \in Fallback!Endpoints /\ client[c].active.moved \in BOOLEAN
           /\ client[c].active.is = "fallback" =>
                client[c].active.tls \in Fallback!Planes /\ client[c].active.dtls \in Fallback!Planes
  <1>1. client[c] \in [state : Fallback!States, active : Fallback!Actives, failures : 0 .. MaxFailures,
                       endpoint : Fallback!Endpoints]
    BY DEF Fallback!TypeOK
  <1> QED BY <1>1 DEF Fallback!Actives, Fallback!None

LEMMA AttemptFacts ==
    ASSUME Fallback!TypeOK, NEW c \in Clients
    PROVE  /\ attempt[c].step \in {"idle", "quic", "check", "tls", "publish", "take", "dtls"}
           /\ attempt[c].step \in {"publish", "take", "dtls"} => attempt[c].tls \in Fallback!Planes
           /\ attempt[c].step = "dtls" => attempt[c].dtls \in Fallback!Planes
           /\ "tls" \in DOMAIN attempt[c] <=> attempt[c].step \in {"publish", "take", "dtls"}
           /\ "dtls" \in DOMAIN attempt[c] <=> attempt[c].step = "dtls"
           /\ attempt[c].step = "idle" => attempt[c] = Fallback!Idle
  <1>1. attempt[c] \in Fallback!Attempts
    BY DEF Fallback!TypeOK
  <1>2. CASE attempt[c] \in [step : {"idle", "quic", "check", "tls"}]
    <2>1. DOMAIN attempt[c] = {"step"}
      BY <1>2
    <2> QED BY <1>2, <2>1 DEF Fallback!Idle
  <1>3. CASE attempt[c] \in [step : {"publish", "take"}, tls : Fallback!Planes]
    <2>1. DOMAIN attempt[c] = {"step", "tls"}
      BY <1>3
    <2> QED BY <1>3, <2>1
  <1>4. CASE attempt[c] \in [step : {"dtls"}, tls : Fallback!Planes, dtls : Fallback!Planes]
    <2>1. DOMAIN attempt[c] = {"step", "tls", "dtls"}
      BY <1>4
    <2> QED BY <1>4, <2>1
  <1> QED BY <1>1, <1>2, <1>3, <1>4 DEF Fallback!Attempts

(* A step of one client, whose binding was its own or nobody's.                *)
LEMMA ClientStep ==
    ASSUME Fallback!TypeOK, Attached, Separate, NEW c \in Clients,
           NEW record \in ClientRecords, NEW try \in Fallback!Attempts, Whole(record, try),
           client' = [client EXCEPT ![c] = record], attempt' = [attempt EXCEPT ![c] = try],
           \A b \in Bindings : Has(record, try, b) =>
               Carries(c, b) \/ \A d \in Clients : ~Carries(d, b)
    PROVE  /\ client' \in [Clients -> ClientRecords] /\ attempt' \in [Clients -> Fallback!Attempts]
           /\ Attached' /\ Separate'
  <1>1. client \in [Clients -> ClientRecords] /\ attempt \in [Clients -> Fallback!Attempts]
    BY DEF Fallback!TypeOK, ClientRecords
  <1>2. \A d \in Clients : /\ client'[d] = (IF d = c THEN record ELSE client[d])
                           /\ attempt'[d] = (IF d = c THEN try ELSE attempt[d])
    BY <1>1
  <1>3. client' \in [Clients -> ClientRecords] /\ attempt' \in [Clients -> Fallback!Attempts]
    BY <1>1
  <1>4. Attached'
    BY <1>2 DEF Attached
  <1>5. \A d \in Clients : \A b \in Bindings :
           Carries(d, b)' <=> IF d = c THEN Has(record, try, b) ELSE Carries(d, b)
    BY <1>2 DEF Carries
  <1>6. Separate'
    BY <1>5 DEF Separate
  <1> QED BY <1>3, <1>4, <1>6

(* The step only takes the client further, and its binding stays what it is.   *)
LEMMA OwnStep ==
    ASSUME Fallback!TypeOK, Attached, Separate, NEW c \in Clients,
           NEW record \in ClientRecords, NEW try \in Fallback!Attempts, Whole(record, try),
           client' = [client EXCEPT ![c] = record], attempt' = [attempt EXCEPT ![c] = try],
           \A b \in Bindings : Has(record, try, b) => Carries(c, b),
           pending' \in Bindings \cup {Fallback!Nobody},
           Fallback!PendingIsWanted'
    PROVE  FallbackInv'
  BY ClientStep DEF FallbackInv, Fallback!TypeOK, ClientRecords

LEMMA ImageIsSmall ==
    ASSUME NEW S, IsFiniteSet(S), NEW f, f = [x \in S |-> f[x]]
    PROVE  IsFiniteSet({f[x] : x \in S}) /\ Cardinality({f[x] : x \in S}) <= Cardinality(S)
  <1>1. f \in Surjection(S, {f[x] : x \in S})
    BY DEF Surjection
  <1> QED BY <1>1, FS_Surjection

(* There are more bindings than are used at a time.                            *)
LEMMA FreshBinding ==
    ASSUME Fallback!ResilientTransportConstants, Fallback!TypeOK, Attached
    PROVE  \E b \in Bindings : b \notin Fallback!InUse
  <1> DEFINE first == [c \in Clients |-> IF client[c].active.is = "fallback"
                                          THEN client[c].active.tls.binding ELSE attempt[c].tls.binding]
             second == [c \in Clients |-> attempt[c].dtls.binding]
             firsts == {first[c] : c \in Clients}
             seconds == {second[c] : c \in Clients}
  <1>1. /\ IsFiniteSet(Clients) /\ IsFiniteSet(Bindings)
        /\ Cardinality(Bindings) > 2 * Cardinality(Clients) + 1
    BY DEF Fallback!ResilientTransportConstants, Fallback!IsFiniteSet, IsFiniteSet,
           Fallback!Cardinality, Cardinality
  <1>2. /\ first = [c \in Clients |-> first[c]] /\ second = [c \in Clients |-> second[c]]
    OBVIOUS
  <1>3. IsFiniteSet(firsts) /\ Cardinality(firsts) <= Cardinality(Clients)
    BY <1>1, <1>2, ImageIsSmall
  <1>4. IsFiniteSet(seconds) /\ Cardinality(seconds) <= Cardinality(Clients)
    BY <1>1, <1>2, ImageIsSmall
  <1>5. Fallback!InUse \subseteq {pending} \cup (firsts \cup seconds)
    <2> SUFFICES ASSUME NEW b \in Fallback!InUse, b /= pending PROVE b \in firsts \cup seconds
      OBVIOUS
    <2>1. PICK c \in Clients :
             \/ "tls" \in DOMAIN attempt[c] /\ b = attempt[c].tls.binding
             \/ "dtls" \in DOMAIN attempt[c] /\ b = attempt[c].dtls.binding
             \/ client[c].active.is = "fallback" /\ b = client[c].active.tls.binding
      BY DEF Fallback!InUse
    <2>2. CASE "tls" \in DOMAIN attempt[c] /\ b = attempt[c].tls.binding
      <3>1. client[c].active.is = "none"
        BY <2>2, AttemptFacts DEF Attached, Whole
      <3> QED BY <2>2, <3>1
    <2>3. CASE "dtls" \in DOMAIN attempt[c] /\ b = attempt[c].dtls.binding
      BY <2>3, SMTT(60)
    <2>4. CASE client[c].active.is = "fallback" /\ b = client[c].active.tls.binding
      BY <2>4
    <2> QED BY <2>1, <2>2, <2>3, <2>4
  <1> HIDE DEF firsts, seconds
  <1>6. IsFiniteSet(firsts \cup seconds)
        /\ Cardinality(firsts \cup seconds) <= Cardinality(firsts) + Cardinality(seconds)
    <2>1. IsFiniteSet(firsts \cup seconds) /\ IsFiniteSet(firsts \cap seconds)
      BY <1>3, <1>4, FS_Union, FS_Subset
    <2>2. Cardinality(firsts \cap seconds) \in Nat /\ Cardinality(firsts) \in Nat /\ Cardinality(seconds) \in Nat
      BY <1>3, <1>4, <2>1, FS_CardinalityType
    <2>3. Cardinality(firsts \cup seconds) = Cardinality(firsts) + Cardinality(seconds) - Cardinality(firsts \cap seconds)
      BY <1>3, <1>4, FS_Union
    <2> QED BY <2>1, <2>2, <2>3
  <1> DEFINE all == {pending} \cup (firsts \cup seconds)
  <1>7. IsFiniteSet(all) /\ Cardinality(all) <= Cardinality(firsts) + Cardinality(seconds) + 1
    <2>1. IsFiniteSet({pending} \cup (firsts \cup seconds)) /\ Cardinality({pending}) = 1
          /\ IsFiniteSet({pending}) /\ IsFiniteSet({pending} \cap (firsts \cup seconds))
      BY <1>6, FS_Union, FS_Singleton, FS_Subset
    <2>2. Cardinality({pending} \cap (firsts \cup seconds)) \in Nat /\ Cardinality(firsts \cup seconds) \in Nat
          /\ Cardinality(firsts) \in Nat /\ Cardinality(seconds) \in Nat
      BY <1>3, <1>4, <1>6, <2>1, FS_CardinalityType
    <2>3. Cardinality(all) = 1 + Cardinality(firsts \cup seconds) - Cardinality({pending} \cap (firsts \cup seconds))
      BY <1>6, <2>1, FS_Union
    <2> QED BY <1>6, <2>1, <2>2, <2>3
  <1> HIDE DEF all
  <1>8. ~(Bindings \subseteq all)
    <2> SUFFICES ASSUME Bindings \subseteq all PROVE FALSE
      OBVIOUS
    <2>1. Cardinality(Bindings) <= Cardinality(all)
      BY <1>7, FS_Subset
    <2>2. /\ Cardinality(Bindings) \in Nat /\ Cardinality(all) \in Nat /\ Cardinality(Clients) \in Nat
          /\ Cardinality(firsts) \in Nat /\ Cardinality(seconds) \in Nat
      BY <1>1, <1>3, <1>4, <1>7, FS_CardinalityType
    <2> QED BY <1>1, <1>3, <1>4, <1>7, <2>1, <2>2
  <1> QED BY <1>5, <1>8 DEF all

LEMMA FreshIsNobodys ==
    ASSUME Fallback!TypeOK, Attached, NEW b, b \notin Fallback!InUse
    PROVE  \A d \in Clients : ~Carries(d, b)
  <1> SUFFICES ASSUME NEW d \in Clients, Carries(d, b) PROVE FALSE
    OBVIOUS
  <1>1. CASE attempt[d].step \in {"publish", "take", "dtls"} /\ attempt[d].tls.binding = b
    <2>1. "tls" \in DOMAIN attempt[d]
      BY <1>1, AttemptFacts
    <2> QED BY <1>1, <2>1 DEF Fallback!InUse
  <1>2. CASE client[d].active.is = "fallback" /\ client[d].active.tls.binding = b
    BY <1>2 DEF Fallback!InUse
  <1> QED BY <1>1, <1>2 DEF Carries, Has

LEMMA SameFunction ==
    ASSUME NEW S, NEW T, NEW f \in [S -> T], NEW x \in S PROVE f = [f EXCEPT ![x] = f[x]]
  OBVIOUS

LEMMA FallbackStep ==
    ASSUME Fallback!ResilientTransportConstants, FallbackInv, Fallback!Next
    PROVE  FallbackInv'
  <1> USE DEF FallbackInv
  <1>0. PICK c \in Clients :
          \/ Fallback!Connect(c) \/ Fallback!Connecting(c)
          \/ Fallback!AddressChanges(c) \/ Fallback!Reconnect(c) \/ Fallback!Close(c)
          \/ \E e \in Fallback!Endpoints : Fallback!NetworkChanged(c, e)
    BY DEF Fallback!Next
  <1> DEFINE old == client[c]
  <1>1. /\ client \in [Clients -> ClientRecords] /\ attempt \in [Clients -> Fallback!Attempts]
        /\ pending \in Bindings \cup {Fallback!Nobody} /\ MaxFailures \in Nat
        /\ client[c] \in ClientRecords /\ attempt[c] \in Fallback!Attempts /\ Whole(client[c], attempt[c])
    BY DEF Fallback!TypeOK, ClientRecords, Fallback!ResilientTransportConstants, Attached
  <1>2. /\ client = [client EXCEPT ![c] = client[c]] /\ attempt = [attempt EXCEPT ![c] = attempt[c]]
    BY <1>1, SameFunction
  \* Whoever waits for a pending binding, waits on, unless it is the one who steps.
  <1>3. ASSUME pending' = pending, attempt[c].step /= "take", NEW try, attempt' = [attempt EXCEPT ![c] = try]
        PROVE  Fallback!PendingIsWanted'
    BY <1>1, <1>3 DEF Fallback!PendingIsWanted, Fallback!IsAt
  <1>4. {Fallback!Idle} \cup [step : {"quic", "check", "tls"}] \subseteq Fallback!Attempts
        /\ {Fallback!Try("quic"), Fallback!Try("check"), Fallback!Try("tls"), Fallback!Idle} \subseteq [step : {"idle", "quic", "check", "tls"}]
    BY DEF Fallback!Idle, Fallback!Try, Fallback!Attempts
  \* A client that drops its connection, or has none, and carries no binding.
  <1>5. ASSUME NEW record \in ClientRecords, NEW try \in [step : {"idle", "quic", "check", "tls"}],
               record.active.is = "none", record.state /= "ready", try.step = "quic" => record.failures < MaxFailures,
               client' = [client EXCEPT ![c] = record], attempt' = [attempt EXCEPT ![c] = try],
               pending' = pending, Fallback!PendingIsWanted'
        PROVE  FallbackInv'
    <2>1. try \in Fallback!Attempts /\ try.step \notin {"publish", "take", "dtls"}
      BY DEF Fallback!Attempts
    <2>2. Whole(record, try) /\ \A b \in Bindings : ~Has(record, try, b)
      BY <1>5, <2>1 DEF Whole, Has
    <2> QED BY <1>1, <1>5, <2>1, <2>2, OwnStep
  <1>6. Fallback!None \in Fallback!Actives /\ Fallback!None.is = "none"
    BY DEF Fallback!Actives, Fallback!None
  <1>7. ASSUME NEW to \in Fallback!States
        PROVE  /\ Fallback!Drops(c, to) \in ClientRecords
               /\ Fallback!Drops(c, to).active.is = "none" /\ Fallback!Drops(c, to).state = to
               /\ Fallback!Drops(c, to).failures = client[c].failures
               /\ Fallback!Drops(c, to).endpoint = client[c].endpoint
    BY <1>1, <1>6 DEF Fallback!Drops, ClientRecords
  <1>8. CASE Fallback!Connect(c)
    <2> DEFINE record == [client[c] EXCEPT !.state = "connecting"]
    <2>1. client' = [client EXCEPT ![c] = record] /\ attempt' = [attempt EXCEPT ![c] = Fallback!Try("quic")]
          /\ pending' = pending /\ attempt[c] = Fallback!Idle /\ client[c].state = "disconnected"
      BY <1>8 DEF Fallback!Connect, Fallback!Becomes, Fallback!Goes, Fallback!Calls
    <2>2. record \in ClientRecords /\ record.state = "connecting" /\ record.active = client[c].active
      BY <1>1 DEF ClientRecords, Fallback!States
    <2>3. client[c].active.is = "none"
      BY <1>1, <2>1 DEF Whole
    <2> HIDE DEF record
    <2>4. attempt[c].step = "idle"
      BY <2>1 DEF Fallback!Idle
    <2>5. Fallback!PendingIsWanted'
      BY <1>3, <2>1, <2>4
    <2>6. record.failures < MaxFailures
      BY <1>1, <1>8 DEF Fallback!Connect, ClientRecords, record
    <2> QED BY <1>4, <1>5, <2>1, <2>2, <2>3, <2>5, <2>6
  <1>9. CASE Fallback!QuicConnects(c)
    <2> DEFINE active == Fallback!Quic(client[c].endpoint)
               record == [client[c] EXCEPT !.state = "ready", !.failures = 0, !.active = active]
    <2>1. client' = [client EXCEPT ![c] = record] /\ attempt' = [attempt EXCEPT ![c] = Fallback!Idle]
          /\ pending' = pending /\ attempt[c].step = "quic"
      BY <1>9 DEF Fallback!QuicConnects, Fallback!Becomes, Fallback!Goes, Fallback!IsAt
    <2>2. active \in Fallback!Actives /\ active.is = "quic" /\ active.endpoint = client[c].endpoint
      BY <1>1 DEF Fallback!Quic, Fallback!Actives, ClientRecords
    <2> HIDE DEF active
    <2>3. record \in ClientRecords /\ record.state = "ready" /\ record.active = active
          /\ record.endpoint = client[c].endpoint
      <3>1. 0 \in 0 .. MaxFailures /\ "ready" \in Fallback!States
        BY <1>1 DEF Fallback!States
      <3> QED BY <1>1, <2>2, <3>1 DEF ClientRecords
    <2> HIDE DEF record
    <2>4. Fallback!Idle \in Fallback!Attempts /\ Fallback!Idle.step = "idle"
      BY DEF Fallback!Idle, Fallback!Attempts
    <2>5. Whole(record, Fallback!Idle) /\ \A b \in Bindings : ~Has(record, Fallback!Idle, b)
      BY <2>2, <2>3, <2>4 DEF Whole, Has
    <2>6. Fallback!PendingIsWanted'
      BY <1>3, <2>1
    <2> QED BY <1>1, <2>1, <2>3, <2>4, <2>5, <2>6, OwnStep
  <1>10. CASE Fallback!QuicFails(c)
    <2> DEFINE record == [Fallback!Drops(c, "disconnected") EXCEPT !.failures = @ + 1]
               try == IF client[c].failures + 1 >= Threshold THEN Fallback!Try("check") ELSE Fallback!Idle
    <2>1. client' = [client EXCEPT ![c] = record] /\ attempt' = [attempt EXCEPT ![c] = try]
          /\ pending' = pending /\ attempt[c].step = "quic"
      BY <1>10 DEF Fallback!QuicFails, Fallback!Becomes, Fallback!Goes, Fallback!IsAt
    <2>2. /\ Fallback!Drops(c, "disconnected") \in ClientRecords
          /\ Fallback!Drops(c, "disconnected").active.is = "none"
          /\ Fallback!Drops(c, "disconnected").state = "disconnected"
          /\ Fallback!Drops(c, "disconnected").failures = client[c].failures
      BY <1>7 DEF Fallback!States
    <2>3. client[c].failures + 1 \in 0 .. MaxFailures
      BY <1>1, <2>1 DEF Whole, ClientRecords
    <2>4. record \in ClientRecords /\ record.active.is = "none" /\ record.state = "disconnected"
      BY <2>2, <2>3 DEF ClientRecords
    <2>5. try \in [step : {"idle", "quic", "check", "tls"}] /\ try.step /= "quic"
      BY DEF Fallback!Try, Fallback!Idle
    <2> HIDE DEF record, try
    <2>6. Fallback!PendingIsWanted'
      BY <1>3, <2>1
    <2> QED BY <1>5, <2>1, <2>4, <2>5, <2>6
  \* connect() throws.
  <1>11. ASSUME Fallback!GivesUp(c), pending' = pending, Fallback!PendingIsWanted'
         PROVE  FallbackInv'
    <2>1. client' = [client EXCEPT ![c] = Fallback!Drops(c, "disconnected")] /\ attempt' = [attempt EXCEPT ![c] = Fallback!Idle]
      BY <1>11 DEF Fallback!GivesUp, Fallback!Becomes, Fallback!Goes
    <2>2. /\ Fallback!Drops(c, "disconnected") \in ClientRecords
          /\ Fallback!Drops(c, "disconnected").active.is = "none"
          /\ Fallback!Drops(c, "disconnected").state = "disconnected"
      BY <1>7 DEF Fallback!States
    <2>3. Fallback!Idle \in [step : {"idle", "quic", "check", "tls"}] /\ Fallback!Idle.step /= "quic"
      BY DEF Fallback!Idle
    <2> QED BY <1>5, <1>11, <2>1, <2>2, <2>3
  \* What a step leaves as it is, the client is not disturbed by.
  <1>12. ASSUME attempt[c].step /= "idle"
         PROVE  client[c].active.is = "none" /\ client[c].state /= "ready"
    BY <1>1, <1>12 DEF Whole
  <1>13. CASE Fallback!TlsChecks(c)
    <2>1. attempt[c].step = "check" /\ pending' = pending
      BY <1>13 DEF Fallback!TlsChecks, Fallback!IsAt
    <2>2. CASE Fallback!GivesUp(c)
      <3>1. Fallback!PendingIsWanted'
        BY <1>3, <2>1, <2>2 DEF Fallback!GivesUp, Fallback!Goes
      <3> QED BY <1>11, <2>1, <2>2, <3>1
    <2>3. CASE Fallback!Goes(c, Fallback!Try("tls")) /\ client' = client
      <3>1. attempt' = [attempt EXCEPT ![c] = Fallback!Try("tls")] /\ client' = [client EXCEPT ![c] = client[c]]
        BY <1>2, <2>3 DEF Fallback!Goes
      <3>2. Fallback!PendingIsWanted'
        BY <1>3, <2>1, <3>1
      <3>3. Fallback!Try("tls") \in [step : {"idle", "quic", "check", "tls"}] /\ Fallback!Try("tls").step /= "quic"
        BY DEF Fallback!Try
      <3> QED BY <1>1, <1>5, <1>12, <2>1, <3>1, <3>2, <3>3
    <2> QED BY <1>13, <2>2, <2>3 DEF Fallback!TlsChecks
  <1>14. CASE Fallback!TlsConnects(c)
    <2> DEFINE b == CHOOSE fresh \in Bindings : fresh \notin Fallback!InUse
               plane == Fallback!Plane(client[c].endpoint, b)
               try == Fallback!With("publish", plane)
    <2>1. /\ attempt' = [attempt EXCEPT ![c] = try] /\ client' = [client EXCEPT ![c] = client[c]]
          /\ pending' = pending /\ attempt[c].step = "tls"
      BY <1>2, <1>14 DEF Fallback!TlsConnects, Fallback!Goes, Fallback!IsAt
    <2>2. b \in Bindings /\ b \notin Fallback!InUse
      BY FreshBinding
    <2> HIDE DEF b
    <2>3. plane \in Fallback!Planes /\ plane.endpoint = client[c].endpoint /\ plane.binding = b
      BY <1>1, <2>2 DEF Fallback!Plane, Fallback!Planes, ClientRecords
    <2> HIDE DEF plane
    <2>4. try \in Fallback!Attempts /\ try.step = "publish" /\ try.tls = plane
      BY <2>3 DEF Fallback!With, Fallback!Attempts
    <2> HIDE DEF try
    <2>5. client[c].active.is = "none" /\ client[c].state /= "ready"
      BY <1>12, <2>1
    <2>6. Whole(client[c], try) /\ \A a \in Bindings : Has(client[c], try, a) => a = b
      BY <2>3, <2>4, <2>5 DEF Whole, Has
    <2>7. \A d \in Clients : ~Carries(d, b)
      BY <2>2, FreshIsNobodys
    <2>8. /\ client' \in [Clients -> ClientRecords] /\ attempt' \in [Clients -> Fallback!Attempts]
          /\ Attached' /\ Separate'
      BY <1>1, <2>1, <2>4, <2>6, <2>7, ClientStep, ZenonT(60)
    <2>9. Fallback!PendingIsWanted'
      BY <1>3, <2>1
    <2> QED BY <1>1, <2>1, <2>8, <2>9 DEF Fallback!TypeOK, ClientRecords
  <1>15. CASE Fallback!TlsFails(c)
    <2>1. attempt[c].step = "tls" /\ Fallback!GivesUp(c) /\ pending' = pending
      BY <1>15 DEF Fallback!TlsFails, Fallback!IsAt
    <2>2. Fallback!PendingIsWanted'
      BY <1>3, <2>1 DEF Fallback!GivesUp, Fallback!Goes
    <2> QED BY <1>11, <2>1, <2>2
  <1>16. CASE Fallback!TlsPublishes(c)
    <2> DEFINE try == Fallback!With("take", attempt[c].tls)
    <2>1. /\ attempt' = [attempt EXCEPT ![c] = try] /\ client' = [client EXCEPT ![c] = client[c]]
          /\ pending' = attempt[c].tls.binding /\ attempt[c].step = "publish"
      BY <1>2, <1>16 DEF Fallback!TlsPublishes, Fallback!Goes, Fallback!IsAt
    <2>2. attempt[c].tls \in Fallback!Planes /\ attempt[c].tls.binding \in Bindings
      BY <2>1, AttemptFacts DEF Fallback!Planes
    <2>3. try \in Fallback!Attempts /\ try.step = "take" /\ try.tls = attempt[c].tls
      BY <2>2 DEF Fallback!With, Fallback!Attempts
    <2> HIDE DEF try
    <2>4. client[c].active.is = "none" /\ client[c].state /= "ready"
      BY <1>12, <2>1
    <2>5. Whole(client[c], try) /\ \A a \in Bindings : Has(client[c], try, a) => Carries(c, a)
      BY <1>1, <2>1, <2>3, <2>4 DEF Whole, Has, Carries
    <2>6. Fallback!PendingIsWanted'
      BY <1>1, <2>1, <2>3 DEF Fallback!PendingIsWanted, Fallback!IsAt
    <2> QED BY <1>1, <2>1, <2>2, <2>3, <2>5, <2>6, OwnStep
  <1>17. CASE Fallback!DtlsStarts(c)
    <2>1. CASE pending = Fallback!Nobody
      <3>1. Fallback!GivesUp(c) /\ pending' = pending
        BY <1>17, <2>1 DEF Fallback!DtlsStarts
      <3>2. Fallback!PendingIsWanted'
        BY <2>1, <3>1 DEF Fallback!PendingIsWanted
      <3> QED BY <1>11, <3>1, <3>2
    <2>2. CASE pending /= Fallback!Nobody
      <3> DEFINE dtls == Fallback!Plane(client[c].endpoint, pending)
                 try == Fallback!WithBoth("dtls", attempt[c].tls, dtls)
      <3>1. /\ attempt' = [attempt EXCEPT ![c] = try] /\ client' = [client EXCEPT ![c] = client[c]]
            /\ pending' = Fallback!Nobody /\ attempt[c].step = "take"
        BY <1>2, <1>17, <2>2 DEF Fallback!DtlsStarts, Fallback!Goes, Fallback!IsAt, Fallback!DtlsTakes
      <3>2. attempt[c].tls \in Fallback!Planes
        BY <3>1, AttemptFacts
      <3>3. dtls \in Fallback!Planes /\ dtls.endpoint = client[c].endpoint
        BY <1>1, <2>2 DEF Fallback!Plane, Fallback!Planes, ClientRecords
      <3> HIDE DEF dtls
      <3>4. try \in Fallback!Attempts /\ try.step = "dtls" /\ try.tls = attempt[c].tls /\ try.dtls = dtls
        BY <3>2, <3>3 DEF Fallback!WithBoth, Fallback!Attempts
      <3> HIDE DEF try
      <3>5. client[c].active.is = "none" /\ client[c].state /= "ready"
        BY <1>12, <3>1
      <3>6. Whole(client[c], try) /\ \A a \in Bindings : Has(client[c], try, a) => Carries(c, a)
        BY <1>1, <3>1, <3>3, <3>4, <3>5 DEF Whole, Has, Carries
      <3>7. Fallback!PendingIsWanted'
        BY <3>1 DEF Fallback!PendingIsWanted
      <3> QED BY <1>1, <3>1, <3>4, <3>6, <3>7, OwnStep
    <2> QED BY <2>1, <2>2
  <1>18. CASE Fallback!DtlsFails(c)
    <2>1. attempt[c].step = "dtls" /\ Fallback!GivesUp(c) /\ pending' = pending
      BY <1>18 DEF Fallback!DtlsFails, Fallback!IsAt
    <2>2. Fallback!PendingIsWanted'
      BY <1>3, <2>1 DEF Fallback!GivesUp, Fallback!Goes
    <2> QED BY <1>11, <2>1, <2>2
  <1>19. CASE Fallback!DtlsConnects(c)
    <2> DEFINE tls == attempt[c].tls  dtls == attempt[c].dtls
    <2>1. attempt[c].step = "dtls" /\ pending' = pending
      BY <1>19 DEF Fallback!DtlsConnects, Fallback!IsAt
    <2>2. CASE Fallback!GivesUp(c)
      <3>1. Fallback!PendingIsWanted'
        BY <1>3, <2>1, <2>2 DEF Fallback!GivesUp, Fallback!Goes
      <3> QED BY <1>11, <2>1, <2>2, <3>1
    <2>3. CASE ~Fallback!GivesUp(c)
      <3> DEFINE active == Fallback!Fallback(tls, dtls)
                 record == [client[c] EXCEPT !.state = "ready", !.active = active]
      <3>1. /\ tls.binding = dtls.binding
            /\ client' = [client EXCEPT ![c] = record] /\ attempt' = [attempt EXCEPT ![c] = Fallback!Idle]
        BY <1>19, <2>3 DEF Fallback!DtlsConnects, Fallback!Becomes, Fallback!Goes, Fallback!Bound
      <3>2. tls \in Fallback!Planes /\ dtls \in Fallback!Planes
        BY <2>1, AttemptFacts
      <3>3. tls.endpoint = client[c].endpoint /\ dtls.endpoint = client[c].endpoint
        BY <1>1, <2>1 DEF Whole
      <3>4. tls = dtls
        BY <3>1, <3>2, <3>3 DEF Fallback!Planes
      <3>5. active \in Fallback!Actives /\ active.is = "fallback" /\ active.tls = tls /\ active.dtls = dtls
        BY <3>2 DEF Fallback!Fallback, Fallback!Actives
      <3> HIDE DEF active
      <3>6. record \in ClientRecords /\ record.state = "ready" /\ record.active = active
            /\ record.endpoint = client[c].endpoint
        <4>1. "ready" \in Fallback!States
          BY DEF Fallback!States
        <4> QED BY <1>1, <3>5, <4>1 DEF ClientRecords
      <3> HIDE DEF record
      <3>7. Fallback!Idle \in Fallback!Attempts /\ Fallback!Idle.step = "idle"
        BY DEF Fallback!Idle, Fallback!Attempts
      <3>8. Whole(record, Fallback!Idle)
        BY <3>3, <3>4, <3>5, <3>6, <3>7 DEF Whole
      <3>9. \A b \in Bindings : Has(record, Fallback!Idle, b) => Carries(c, b)
        BY <2>1, <3>5, <3>6, <3>7 DEF Has, Carries
      <3>10. Fallback!PendingIsWanted'
        BY <1>3, <2>1, <3>1
      <3> QED BY <1>1, <2>1, <3>1, <3>6, <3>7, <3>8, <3>9, <3>10, OwnStep
    <2> QED BY <2>2, <2>3
  <1>20. CASE Fallback!AddressChanges(c)
    <2> DEFINE active == [client[c].active EXCEPT !.moved = TRUE]
               record == [client[c] EXCEPT !.active = active]
    <2>1. /\ client' = [client EXCEPT ![c] = [client[c] EXCEPT !.active.moved = TRUE]]
          /\ attempt' = [attempt EXCEPT ![c] = attempt[c]]
          /\ pending' = pending /\ client[c].active.is = "quic"
      BY <1>2, <1>20 DEF Fallback!AddressChanges, Fallback!Becomes
    <2>2. client' = [client EXCEPT ![c] = record]
      BY <2>1
    <2>3. client[c].active \in [is : {"quic"}, endpoint : Fallback!Endpoints, moved : BOOLEAN]
      BY <1>1, <2>1 DEF ClientRecords, Fallback!Actives, Fallback!None
    <2>4. active \in Fallback!Actives /\ active.is = "quic" /\ active.endpoint = client[c].active.endpoint
      BY <2>3 DEF Fallback!Actives
    <2> HIDE DEF active
    <2>5. record \in ClientRecords /\ record.state = client[c].state /\ record.active = active
          /\ record.endpoint = client[c].endpoint /\ record.failures = client[c].failures
      BY <1>1, <2>4 DEF ClientRecords
    <2> HIDE DEF record
    <2>6. client[c].state = "ready" /\ attempt[c].step = "idle"
      BY <1>1, <2>1 DEF Whole
    <2>7. Whole(record, attempt[c]) /\ \A b \in Bindings : ~Has(record, attempt[c], b)
      BY <1>1, <2>1, <2>4, <2>5, <2>6 DEF Whole, Has
    <2>8. Fallback!PendingIsWanted'
      BY <1>3, <2>1, <2>6
    <2> QED BY <1>1, <2>1, <2>2, <2>5, <2>7, <2>8, OwnStep
  <1>21. CASE Fallback!Reconnect(c)
    <2>1. /\ client' = [client EXCEPT ![c] = Fallback!Drops(c, "connecting")]
          /\ attempt' = [attempt EXCEPT ![c] = Fallback!Try("quic")]
          /\ pending' = pending /\ attempt[c].step = "idle" /\ client[c].failures < MaxFailures
      BY <1>21 DEF Fallback!Reconnect, Fallback!Becomes, Fallback!Goes, Fallback!Calls, Fallback!Idle
    <2>2. /\ Fallback!Drops(c, "connecting") \in ClientRecords
          /\ Fallback!Drops(c, "connecting").active.is = "none"
          /\ Fallback!Drops(c, "connecting").state = "connecting"
          /\ Fallback!Drops(c, "connecting").failures = client[c].failures
      BY <1>7 DEF Fallback!States
    <2>3. Fallback!PendingIsWanted'
      BY <1>3, <2>1
    <2>4. Fallback!Try("quic") \in [step : {"idle", "quic", "check", "tls"}]
      BY DEF Fallback!Try
    <2> QED BY <1>5, <2>1, <2>2, <2>3, <2>4
  <1>22. CASE Fallback!Close(c)
    <2>1. /\ client' = [client EXCEPT ![c] = Fallback!Drops(c, "closed")]
          /\ attempt' = [attempt EXCEPT ![c] = attempt[c]]
          /\ pending' = pending /\ attempt[c] = Fallback!Idle
      BY <1>2, <1>22 DEF Fallback!Close, Fallback!Becomes, Fallback!Calls
    <2>2. /\ Fallback!Drops(c, "closed") \in ClientRecords
          /\ Fallback!Drops(c, "closed").active.is = "none"
          /\ Fallback!Drops(c, "closed").state = "closed"
      BY <1>7 DEF Fallback!States
    <2>3. attempt[c] \in [step : {"idle", "quic", "check", "tls"}] /\ attempt[c].step = "idle"
      BY <2>1 DEF Fallback!Idle
    <2>4. Fallback!PendingIsWanted'
      BY <1>3, <2>1, <2>3
    <2> QED BY <1>5, <2>1, <2>2, <2>3, <2>4
  <1>23. ASSUME NEW e \in Fallback!Endpoints, Fallback!NetworkChanged(c, e)
         PROVE  FallbackInv'
    <2>1. /\ client[c].state = "ready" /\ attempt[c] = Fallback!Idle /\ pending' = pending
          /\ client[c].failures < MaxFailures
      BY <1>23 DEF Fallback!NetworkChanged, Fallback!Ready, Fallback!Calls
    <2>2. attempt[c].step = "idle"
      BY <2>1 DEF Fallback!Idle
    <2>3. CASE Fallback!Confirmed(client[c].active, e)
      <3> DEFINE record == [client[c] EXCEPT !.endpoint = e, !.active.endpoint[2] = e[2], !.active.moved = FALSE]
                 active == Fallback!Quic(e)
      <3>1. client' = [client EXCEPT ![c] = record] /\ attempt' = [attempt EXCEPT ![c] = attempt[c]]
        BY <1>2, <1>23, <2>3 DEF Fallback!NetworkChanged, Fallback!Becomes
      <3>2. client[c].active \in [is : {"quic"}, endpoint : Fallback!Endpoints, moved : BOOLEAN]
            /\ client[c].active.endpoint[1] = e[1]
        BY <1>1, <2>3 DEF ClientRecords, Fallback!Actives, Fallback!None, Fallback!Confirmed
      <3>3. [client[c].active.endpoint EXCEPT ![2] = e[2]] = e
        BY <3>2 DEF Fallback!Endpoints
      <3>4. active \in Fallback!Actives /\ active.is = "quic" /\ active.endpoint = e
        BY DEF Fallback!Quic, Fallback!Actives
      <3>5. record.active = active
        BY <1>1, <3>2, <3>3 DEF ClientRecords, Fallback!Quic
      <3>6. record \in ClientRecords /\ record.state = "ready" /\ record.endpoint = e
        BY <1>1, <2>1, <3>4, <3>5 DEF ClientRecords
      <3> HIDE DEF record, active
      <3>7. Whole(record, attempt[c]) /\ \A b \in Bindings : ~Has(record, attempt[c], b)
        BY <2>2, <3>4, <3>5, <3>6 DEF Whole, Has
      <3>8. Fallback!PendingIsWanted'
        BY <1>3, <2>1, <2>2, <3>1
      <3> QED BY <1>1, <2>1, <3>1, <3>6, <3>7, <3>8, OwnStep
    <2>4. CASE ~Fallback!Confirmed(client[c].active, e)
      <3> DEFINE record == [Fallback!Drops(c, "connecting") EXCEPT !.endpoint = e]
      <3>1. client' = [client EXCEPT ![c] = record] /\ attempt' = [attempt EXCEPT ![c] = Fallback!Try("quic")]
        BY <1>23, <2>4 DEF Fallback!NetworkChanged, Fallback!Becomes, Fallback!Goes
      <3>2. /\ Fallback!Drops(c, "connecting") \in ClientRecords
            /\ Fallback!Drops(c, "connecting").active.is = "none"
            /\ Fallback!Drops(c, "connecting").state = "connecting"
            /\ Fallback!Drops(c, "connecting").failures = client[c].failures
        BY <1>7 DEF Fallback!States
      <3>3. record \in ClientRecords /\ record.active.is = "none" /\ record.state = "connecting"
            /\ record.failures = client[c].failures
        BY <3>2 DEF ClientRecords
      <3> HIDE DEF record
      <3>4. Fallback!PendingIsWanted'
        BY <1>3, <2>1, <2>2, <3>1
      <3>5. Fallback!Try("quic") \in [step : {"idle", "quic", "check", "tls"}]
        BY DEF Fallback!Try
      <3> QED BY <1>5, <2>1, <3>1, <3>3, <3>4, <3>5
    <2> QED BY <2>3, <2>4
  <1> QED
    BY <1>0, <1>8, <1>9, <1>10, <1>13, <1>14, <1>15, <1>16, <1>17, <1>18, <1>19, <1>20, <1>21, <1>22, <1>23
       DEF Fallback!Connecting

-----------------------------------------------------------------------------
(* The QUIC servers.                                                           *)

(* What the callbacks wrote down of a connection agrees, whatever it went      *)
(* through: one that connected was allowed and has not failed.                 *)
Noted(library) ==
    \A c \in Connections :
        /\ conn[c].allowed => c \in Paired \cap Trusted
        /\ conn[c].connected => conn[c].allowed /\ ~conn[c].failed
        /\ conn[c].stage = "none" => conn[c] = Server(library)!New

(* A connection is in one place only: it waits once, or accept() looks at it,  *)
(* or it was handed out once.                                                  *)
OnePlace ==
    /\ \A i, j \in DOMAIN unaccepted : unaccepted[i] = unaccepted[j] => i = j
    /\ \A i \in DOMAIN unaccepted : \A j \in DOMAIN handed : unaccepted[i] /= handed[j].connection
    /\ \A i, j \in DOMAIN handed : handed[i].connection = handed[j].connection => i = j
    /\ \A i \in DOMAIN unaccepted : conn[unaccepted[i]].stage /= "none"
    /\ \A j \in DOMAIN handed : conn[handed[j].connection].stage /= "none"

Looked(library) ==
    /\ accepting.at = "proving" =>
         /\ \A i \in DOMAIN unaccepted : unaccepted[i] /= accepting.connection
         /\ \A j \in DOMAIN handed : handed[j].connection /= accepting.connection
         /\ conn[accepting.connection].stage /= "none"
    /\ accepting.at = "looking" /\ library = "network" => unaccepted /= <<>>

Handed ==
    \A j \in DOMAIN handed : handed[j].connection \in Paired \cap Trusted /\ ~handed[j].failed

ServerInv(library) == Server(library)!TypeOK /\ Noted(library) /\ OnePlace /\ Looked(library) /\ Handed

LEMMA ServerImplies ==
    ASSUME NEW library \in Libraries, ServerInv(library)
    PROVE  Server(library)!HandsOutProved
  BY DEF ServerInv, OnePlace, Handed, Server!HandsOutProved, Server!InPending

LEMMA ServerInit ==
    ASSUME NEW library \in Libraries, Server(library)!Init, Server(library)!QuicServerConstants
    PROVE  ServerInv(library)
  <1>1. Server(library)!TypeOK
    BY DEF Server!Init, Server!TypeOK, Server!New, Server!Stages, Server!Outside, Server!QuicServerConstants
  <1>2. Noted(library)
    BY DEF Server!Init, Noted, Server!New
  <1> QED BY <1>1, <1>2 DEF ServerInv, Server!Init, OnePlace, Looked, Handed, Server!Outside

(* The connections that wait, without one of them.                             *)
LEMMA WithoutFacts ==
    ASSUME NEW library \in Libraries, unaccepted \in Seq(Connections), NEW i \in DOMAIN unaccepted
    PROVE  LET rest == Server(library)!Without(i)
           IN /\ rest \in Seq(Connections) /\ Len(rest) = Len(unaccepted) - 1
              /\ \A k \in DOMAIN rest : rest[k] = (IF k < i THEN unaccepted[k] ELSE unaccepted[k + 1])
  <1> DEFINE before == SubSeq(unaccepted, 1, i - 1)
             after == SubSeq(unaccepted, i + 1, Len(unaccepted))
  <1>1. Len(unaccepted) \in Nat /\ i \in 1 .. Len(unaccepted)
    OBVIOUS
  <1>2. before \in Seq(Connections) /\ Len(before) = i - 1 /\ \A k \in 1 .. i - 1 : before[k] = unaccepted[k]
    BY <1>1
  <1>3. after \in Seq(Connections) /\ Len(after) = Len(unaccepted) - i
        /\ \A k \in 1 .. Len(unaccepted) - i : after[k] = unaccepted[k + i]
    BY <1>1
  <1> HIDE DEF before, after
  <1>4. Server(library)!Without(i) = before \o after
    BY DEF Server!Without, before, after
  <1>5. /\ before \o after \in Seq(Connections) /\ Len(before \o after) = Len(unaccepted) - 1
        /\ \A k \in 1 .. Len(unaccepted) - 1 :
             (before \o after)[k] = (IF k <= i - 1 THEN before[k] ELSE after[k - (i - 1)])
    <2>1. /\ before \o after \in Seq(Connections) /\ Len(before \o after) = Len(before) + Len(after)
          /\ \A k \in 1 .. Len(before) + Len(after) :
               (before \o after)[k] = (IF k <= Len(before) THEN before[k] ELSE after[k - Len(before)])
      BY <1>2, <1>3, ConcatProperties
    <2>2. Len(before) + Len(after) = Len(unaccepted) - 1 /\ Len(before) = i - 1
      BY <1>1, <1>2, <1>3
    <2> QED BY <2>1, <2>2
  <1>6. ASSUME NEW k \in 1 .. Len(unaccepted) - 1
        PROVE  (before \o after)[k] = (IF k < i THEN unaccepted[k] ELSE unaccepted[k + 1])
    <2>1. CASE k < i
      BY <1>1, <1>2, <1>5, <2>1
    <2>2. CASE ~(k < i)
      <3>1. k - (i - 1) \in 1 .. Len(unaccepted) - i /\ (k - (i - 1)) + i = k + 1
        BY <1>1, <2>2
      <3>2. after[k - (i - 1)] = unaccepted[k + 1]
        BY <1>3, <3>1
      <3>3. ~(k <= i - 1)
        BY <1>1, <2>2
      <3>4. (before \o after)[k] = after[k - (i - 1)]
        BY <1>5, <3>3, Zenon
      <3> QED BY <2>2, <3>2, <3>4
    <2> QED BY <2>1, <2>2
  <1>7. DOMAIN (before \o after) = 1 .. Len(unaccepted) - 1
    BY <1>1, <1>5
  <1> QED BY <1>4, <1>5, <1>6, <1>7

(* A callback about a connection changes what is noted of it, and a new one    *)
(* waits.                                                                      *)
LEMMA CallbackKeeps ==
    ASSUME NEW library \in Libraries, ServerInv(library), NEW c \in Connections,
           NEW record \in [stage : Server(library)!Stages \ {"none"}, allowed : BOOLEAN,
                           connected : BOOLEAN, failed : BOOLEAN, closed : BOOLEAN],
           conn' = [conn EXCEPT ![c] = record],
           record.allowed => c \in Paired \cap Trusted,
           record.connected => record.allowed /\ ~record.failed
    PROVE  /\ conn' \in [Connections -> [stage : Server(library)!Stages, allowed : BOOLEAN, connected : BOOLEAN,
                                 failed : BOOLEAN, closed : BOOLEAN]]
           /\ Noted(library)'
           /\ \A d \in Connections : conn[d].stage /= "none" => conn'[d].stage /= "none"
           /\ conn'[c].stage /= "none"
  <1>1. conn \in [Connections -> [stage : Server(library)!Stages, allowed : BOOLEAN, connected : BOOLEAN,
                                 failed : BOOLEAN, closed : BOOLEAN]]
    BY DEF ServerInv, Server!TypeOK
  <1>2. \A d \in Connections : conn'[d] = IF d = c THEN record ELSE conn[d]
    BY <1>1
  <1>3. record.stage /= "none"
    OBVIOUS
  <1> QED BY <1>1, <1>2, <1>3 DEF ServerInv, Noted

LEMMA CallbackStep ==
    ASSUME NEW library \in Libraries, ServerInv(library), NEW c \in Connections,
           NEW record \in [stage : Server(library)!Stages \ {"none"}, allowed : BOOLEAN,
                           connected : BOOLEAN, failed : BOOLEAN, closed : BOOLEAN],
           conn' = [conn EXCEPT ![c] = record], UNCHANGED <<unaccepted, accepting, handed>>,
           record.allowed => c \in Paired \cap Trusted,
           record.connected => record.allowed /\ ~record.failed
    PROVE  ServerInv(library)'
  <1>1. /\ conn' \in [Connections -> [stage : Server(library)!Stages, allowed : BOOLEAN, connected : BOOLEAN,
                                 failed : BOOLEAN, closed : BOOLEAN]]
        /\ Noted(library)'
        /\ \A d \in Connections : conn[d].stage /= "none" => conn'[d].stage /= "none"
    BY CallbackKeeps
  <1>2. /\ unaccepted \in Seq(Connections)
        /\ handed \in Seq([connection : Connections, failed : BOOLEAN])
        /\ accepting.at = "proving" => accepting.connection \in Connections
    BY DEF ServerInv, Server!TypeOK, Server!Outside, Server!Waiting, Server!Looking, Server!Proving
  <1>3. Server(library)!TypeOK'
    BY <1>1 DEF ServerInv, Server!TypeOK
  <1>4. OnePlace'
    <2>1. /\ \A i \in DOMAIN unaccepted : conn'[unaccepted[i]].stage /= "none"
          /\ \A j \in DOMAIN handed : conn'[handed[j].connection].stage /= "none"
      BY <1>1, <1>2 DEF ServerInv, OnePlace
    <2> QED BY <2>1 DEF ServerInv, OnePlace
  <1>5. Looked(library)' /\ Handed'
    BY <1>1, <1>2 DEF ServerInv, Looked, Handed
  <1> QED BY <1>1, <1>3, <1>4, <1>5 DEF ServerInv

LEMMA ServerStep ==
    ASSUME NEW library \in Libraries, Server(library)!QuicServerConstants, ServerInv(library),
           Server(library)!Next
    PROVE  ServerInv(library)'
  <1> DEFINE Shapes == [stage : Server(library)!Stages, allowed : BOOLEAN, connected : BOOLEAN,
                        failed : BOOLEAN, closed : BOOLEAN]
  <1>0. /\ conn \in [Connections -> Shapes]
        /\ unaccepted \in Seq(Connections) /\ Len(unaccepted) \in Nat /\ Len(unaccepted) <= MaxPending
        /\ handed \in Seq([connection : Connections, failed : BOOLEAN])
        /\ accepting.at = "proving" => accepting.connection \in Connections
        /\ MaxPending \in Nat \ {0} /\ library \in {"msquic", "network"}
    BY DEF ServerInv, Server!TypeOK, Server!QuicServerConstants, Server!Outside, Server!Waiting, Server!Looking, Server!Proving
  <1>a. \A j \in DOMAIN handed : handed[j].connection \in Connections /\ conn[handed[j].connection].stage /= "none"
    <2>1. ASSUME NEW S, NEW s \in Seq(S), NEW j \in DOMAIN s PROVE s[j] \in S
      OBVIOUS
    <2>2. \A j \in DOMAIN handed : handed[j] \in [connection : Connections, failed : BOOLEAN]
      BY <1>0, <2>1
    <2>3. \A j \in DOMAIN handed : conn[handed[j].connection].stage /= "none"
      BY DEF ServerInv, OnePlace
    <2>4. \A j \in DOMAIN handed : handed[j].connection \in Connections
      BY <2>2
    <2> QED BY <2>3, <2>4
  <1>1. ASSUME NEW c \in Connections, Server(library)!NewConnection(c)
        PROVE  ServerInv(library)'
    <2>1. CASE Len(unaccepted) >= MaxPending
      <3> DEFINE record == [Server(library)!New EXCEPT !.stage = "over"]
      <3>1. conn' = [conn EXCEPT ![c] = record] /\ UNCHANGED <<unaccepted, accepting, handed>>
        BY <1>1, <2>1 DEF Server!NewConnection, Server!Sets
      <3>2. record \in [stage : Server(library)!Stages \ {"none"}, allowed : BOOLEAN,
              connected : BOOLEAN, failed : BOOLEAN, closed : BOOLEAN]
            /\ ~record.allowed /\ ~record.connected
        BY DEF Server!New, Server!Stages
      <3> HIDE DEF record
      <3> QED BY <3>1, <3>2, CallbackStep
    <2>2. CASE ~(Len(unaccepted) >= MaxPending)
      <3> DEFINE record == [Server(library)!New EXCEPT !.stage = IF library = "msquic" THEN "shaking" ELSE "queued"]
      <3>1. /\ conn' = [conn EXCEPT ![c] = record] /\ UNCHANGED <<accepting, handed>>
            /\ unaccepted' = Append(unaccepted, c) /\ conn[c].stage = "none"
        BY <1>1, <2>2 DEF Server!NewConnection, Server!Sets, Server!At
      <3>2. record \in [stage : Server(library)!Stages \ {"none"}, allowed : BOOLEAN,
              connected : BOOLEAN, failed : BOOLEAN, closed : BOOLEAN]
            /\ ~record.allowed /\ ~record.connected
        BY DEF Server!New, Server!Stages
      <3> HIDE DEF record
      <3>3. /\ conn' \in [Connections -> Shapes] /\ Noted(library)' /\ conn'[c].stage /= "none"
            /\ \A d \in Connections : conn[d].stage /= "none" => conn'[d].stage /= "none"
        BY <3>1, <3>2, CallbackKeeps
      <3>4. unaccepted' \in Seq(Connections) /\ Len(unaccepted') = Len(unaccepted) + 1
            /\ \A i \in DOMAIN unaccepted' :
                 \/ i \in DOMAIN unaccepted /\ unaccepted'[i] = unaccepted[i]
                 \/ i = Len(unaccepted) + 1 /\ unaccepted'[i] = c
        BY <1>0, <3>1
      <3>5. Server(library)!TypeOK'
        BY <1>0, <2>2, <3>1, <3>3, <3>4 DEF ServerInv, Server!TypeOK
      <3>6. (\A i \in DOMAIN unaccepted : unaccepted[i] /= c) /\ (\A j \in DOMAIN handed : handed[j].connection /= c)
        BY <3>1 DEF ServerInv, OnePlace
      <3>7. OnePlace'
        BY <1>0, <3>1, <3>3, <3>4, <3>6 DEF ServerInv, OnePlace
      <3>8. Looked(library)' /\ Handed'
        BY <1>0, <3>1, <3>3, <3>4 DEF ServerInv, Looked, Handed
      <3> QED BY <3>3, <3>5, <3>7, <3>8 DEF ServerInv
    <2> QED BY <2>1, <2>2
  <1>2. ASSUME NEW c \in Connections,
               \/ Server(library)!Certificate(c) \/ Server(library)!Connects(c)
               \/ Server(library)!ShutsDown(c) \/ Server(library)!ShutdownCompletes(c)
        PROVE  ServerInv(library)'
    <2> DEFINE Good(record) ==
                 /\ record \in [stage : Server(library)!Stages \ {"none"}, allowed : BOOLEAN,
                                connected : BOOLEAN, failed : BOOLEAN, closed : BOOLEAN]
                 /\ record.allowed => c \in Paired \cap Trusted
                 /\ record.connected => record.allowed /\ ~record.failed
                 /\ conn' = [conn EXCEPT ![c] = record] /\ UNCHANGED <<unaccepted, accepting, handed>>
    <2>1. /\ conn[c] \in Shapes /\ (conn[c].allowed => c \in Paired \cap Trusted)
          /\ conn[c].connected => conn[c].allowed /\ ~conn[c].failed
      BY <1>0 DEF ServerInv, Noted
    <2>2. ASSUME Server(library)!Certificate(c) PROVE Good([conn[c] EXCEPT !.stage = "seen", !.allowed = Server(library)!Allows(c),
                        !.failed = ~Server(library)!Allows(c)])
      BY <2>2, <2>1 DEF Server!Certificate, Server!At, Server!Sets, Server!Stages, Server!Allows
    <2>3. ASSUME Server(library)!Connects(c) PROVE Good([conn[c] EXCEPT !.stage = "up", !.connected = conn[c].allowed, !.failed = ~conn[c].allowed])
      BY <2>3, <2>1 DEF Server!Connects, Server!At, Server!Sets, Server!Stages
    <2>4. ASSUME Server(library)!ShutsDown(c) PROVE Good([conn[c] EXCEPT !.stage = "ending", !.connected = FALSE, !.failed = TRUE])
      BY <2>4, <2>1 DEF Server!ShutsDown, Server!At, Server!Sets, Server!Stages
    <2>5. ASSUME Server(library)!ShutdownCompletes(c) PROVE Good([conn[c] EXCEPT !.stage = "over", !.closed = TRUE, !.connected = @ /\ library = "network"])
      BY <2>5, <2>1 DEF Server!ShutdownCompletes, Server!At, Server!Sets, Server!Stages
    <2>6. \A record : Good(record) => ServerInv(library)'
      BY CallbackStep
    <2> HIDE DEF Good
    <2> QED BY <1>2, <2>2, <2>3, <2>4, <2>5, <2>6, ZenonT(60)
  <1>3. CASE Server(library)!Accept \/ Server(library)!AcceptWakes \/ Server(library)!AcceptTimesOut
    <2>1. UNCHANGED <<conn, unaccepted, handed>> /\ accepting'.at \in {"outside", "waiting", "looking"}
      BY <1>3 DEF Server!Accept, Server!AcceptWakes, Server!AcceptTimesOut, Server!Waiting, Server!Looking, Server!Outside
    <2>2. Server(library)!TypeOK'
      BY <1>3, <2>1 DEF ServerInv, Server!TypeOK, Server!Accept, Server!AcceptWakes, Server!AcceptTimesOut
    <2>3. Noted(library)' /\ OnePlace' /\ Handed'
      BY <2>1 DEF ServerInv, Noted, OnePlace, Handed
    <2>4. accepting'.at = "looking" => unaccepted /= <<>>
      BY <1>3 DEF Server!Accept, Server!AcceptWakes, Server!AcceptTimesOut, Server!Waiting,
                  Server!Looking, Server!Outside, Server!InPending
    <2>5. Looked(library)'
      BY <2>1, <2>4 DEF Looked
    <2> QED BY <2>2, <2>3, <2>5 DEF ServerInv
  <1>4. CASE Server(library)!AcceptTakes
    <2>1. CASE UNCHANGED <<conn, unaccepted, handed>> /\ accepting' = Server(library)!Outside
      <3>1. Server(library)!TypeOK'
        BY <2>1 DEF ServerInv, Server!TypeOK
      <3>2. Noted(library)' /\ OnePlace' /\ Handed'
        BY <2>1 DEF ServerInv, Noted, OnePlace, Handed
      <3>3. Looked(library)'
        BY <2>1 DEF Looked, Server!Outside
      <3> QED BY <3>1, <3>2, <3>3 DEF ServerInv
    <2>2. ASSUME NEW i \in Server(library)!Candidates,
                 unaccepted' = Server(library)!Without(i), accepting' = Server(library)!Proving(unaccepted[i]),
                 IF library = "network"
                   THEN Server(library)!Sets(unaccepted[i], [Server(library)!New EXCEPT !.stage = "shaking"])
                   ELSE UNCHANGED conn,
                 UNCHANGED handed, accepting = Server(library)!Looking
          PROVE  ServerInv(library)'
      <3>1. i \in DOMAIN unaccepted /\ unaccepted[i] \in Connections
        BY <1>0, <2>2 DEF Server!Candidates, Server!Looking, ServerInv, Looked
      <3>2. /\ conn' \in [Connections -> Shapes] /\ Noted(library)'
            /\ \A d \in Connections : conn[d].stage /= "none" => conn'[d].stage /= "none"
        <4>1. CASE library = "network"
          <5> DEFINE record == [Server(library)!New EXCEPT !.stage = "shaking"]
          <5>1. conn' = [conn EXCEPT ![unaccepted[i]] = record]
            BY <2>2, <4>1 DEF Server!Sets
          <5>2. record \in [stage : Server(library)!Stages \ {"none"}, allowed : BOOLEAN,
                  connected : BOOLEAN, failed : BOOLEAN, closed : BOOLEAN]
                /\ ~record.allowed /\ ~record.connected
            BY DEF Server!New, Server!Stages
          <5> HIDE DEF record
          <5> QED BY <3>1, <5>1, <5>2, CallbackKeeps
        <4>2. CASE library /= "network"
          BY <1>0, <2>2, <4>2 DEF ServerInv, Noted
        <4> QED BY <4>1, <4>2
      <3>3. /\ unaccepted' \in Seq(Connections) /\ Len(unaccepted') = Len(unaccepted) - 1
            /\ \A k \in DOMAIN unaccepted' :
                  unaccepted'[k] = (IF k < i THEN unaccepted[k] ELSE unaccepted[k + 1])
        BY <1>0, <2>2, <3>1, WithoutFacts
      <3>4. \A k \in DOMAIN unaccepted' : \E m \in DOMAIN unaccepted :
               m /= i /\ unaccepted'[k] = unaccepted[m] /\ m = (IF k < i THEN k ELSE k + 1)
        BY <1>0, <3>1, <3>3
      <3>5. Server(library)!TypeOK'
        <4>1. accepting' \in {Server(library)!Proving(c) : c \in Connections}
          BY <2>2, <3>1
        <4> QED BY <1>0, <2>2, <3>2, <3>3, <4>1 DEF ServerInv, Server!TypeOK
      <3>6. OnePlace'
        <4>1. \A k, m \in DOMAIN unaccepted' : unaccepted'[k] = unaccepted'[m] => k = m
          BY <1>0, <3>1, <3>3, <3>4 DEF ServerInv, OnePlace
        <4>2. \A k \in DOMAIN unaccepted' : \A j \in DOMAIN handed : unaccepted'[k] /= handed[j].connection
          BY <3>4 DEF ServerInv, OnePlace
        <4>3. \A k \in DOMAIN unaccepted' : conn'[unaccepted'[k]].stage /= "none"
          BY <1>0, <3>2, <3>4 DEF ServerInv, OnePlace
        <4>4. \A j \in DOMAIN handed : conn'[handed[j].connection].stage /= "none"
          BY <1>a, <3>2
        <4>5. \A k, j \in DOMAIN handed : handed[k].connection = handed[j].connection => k = j
          BY DEF ServerInv, OnePlace
        <4>6. handed' = handed
          BY <2>2
        <4> QED BY <4>1, <4>2, <4>3, <4>4, <4>5, <4>6 DEF OnePlace
      <3>7. Looked(library)'
        <4>1. accepting'.at = "proving" /\ accepting'.connection = unaccepted[i]
          BY <2>2 DEF Server!Proving
        <4>2. \A k \in DOMAIN unaccepted' : unaccepted'[k] /= unaccepted[i]
          BY <3>1, <3>4 DEF ServerInv, OnePlace
        <4>3. \A j \in DOMAIN handed : handed[j].connection /= unaccepted[i]
          BY <3>1 DEF ServerInv, OnePlace
        <4>4. conn'[unaccepted[i]].stage /= "none"
          BY <3>1, <3>2 DEF ServerInv, OnePlace
        <4> QED BY <2>2, <4>1, <4>2, <4>3, <4>4 DEF Looked
      <3>8. Handed'
        BY <2>2 DEF ServerInv, Handed
      <3> QED BY <3>2, <3>5, <3>6, <3>7, <3>8 DEF ServerInv
    <2> QED BY <1>4, <2>1, <2>2 DEF Server!AcceptTakes
  <1>5. CASE Server(library)!AcceptReturns
    <2> DEFINE c == accepting.connection
    <2>1. /\ c \in Connections /\ accepting.at = "proving" /\ accepting' = Server(library)!Outside
          /\ UNCHANGED unaccepted
      BY <1>0, <1>5 DEF Server!AcceptReturns
    <2>2. /\ \A i \in DOMAIN unaccepted : unaccepted[i] /= c
          /\ \A j \in DOMAIN handed : handed[j].connection /= c
          /\ conn[c].stage /= "none"
      BY <2>1 DEF ServerInv, Looked
    <2>3. Looked(library)'
      BY <2>1 DEF Looked, Server!Outside
    <2>4. CASE ~Server(library)!Proved(c)
      <3> DEFINE record == [conn[c] EXCEPT !.stage = "over", !.closed = TRUE]
      <3>1. conn' = [conn EXCEPT ![c] = record] /\ UNCHANGED handed
        BY <1>5, <2>4 DEF Server!AcceptReturns, Server!Sets
      <3>2. /\ record \in [stage : Server(library)!Stages \ {"none"}, allowed : BOOLEAN,
                  connected : BOOLEAN, failed : BOOLEAN, closed : BOOLEAN]
            /\ record.allowed => c \in Paired \cap Trusted
            /\ record.connected => record.allowed /\ ~record.failed
        <4>1. /\ conn[c] \in Shapes /\ (conn[c].allowed => c \in Paired \cap Trusted)
              /\ conn[c].connected => conn[c].allowed /\ ~conn[c].failed
          BY <1>0, <2>1 DEF ServerInv, Noted
        <4> QED BY <4>1 DEF Server!Stages
      <3> HIDE DEF record
      <3>3. /\ conn' \in [Connections -> Shapes] /\ Noted(library)'
            /\ \A d \in Connections : conn[d].stage /= "none" => conn'[d].stage /= "none"
        BY <2>1, <3>1, <3>2, CallbackKeeps
      <3>4. Server(library)!TypeOK'
        BY <2>1, <3>1, <3>3 DEF ServerInv, Server!TypeOK
      <3>5. OnePlace'
        <4>1. \A k \in DOMAIN unaccepted : conn'[unaccepted[k]].stage /= "none"
          BY <1>0, <3>3 DEF ServerInv, OnePlace
        <4>2. \A j \in DOMAIN handed : conn'[handed[j].connection].stage /= "none"
          BY <1>a, <3>3
        <4> QED BY <2>1, <3>1, <4>1, <4>2 DEF ServerInv, OnePlace
      <3>6. Handed'
        BY <3>1 DEF ServerInv, Handed
      <3> QED BY <2>3, <3>3, <3>4, <3>5, <3>6 DEF ServerInv
    <2>5. CASE Server(library)!Proved(c)
      <3> DEFINE entry == [connection |-> c, failed |-> conn[c].failed]
      <3>1. UNCHANGED conn /\ handed' = Append(handed, entry)
        BY <1>5, <2>5 DEF Server!AcceptReturns
      <3>2. entry \in [connection : Connections, failed : BOOLEAN]
            /\ entry.connection = c /\ c \in Paired \cap Trusted /\ ~entry.failed
        BY <1>0, <2>1, <2>5 DEF Server!Proved, ServerInv, Noted
      <3> HIDE DEF entry
      <3>3. handed' \in Seq([connection : Connections, failed : BOOLEAN])
            /\ \A j \in DOMAIN handed' :
                 \/ j \in DOMAIN handed /\ handed'[j] = handed[j]
                 \/ j = Len(handed) + 1 /\ handed'[j] = entry
        BY <1>0, <3>1, <3>2
      <3>4. Server(library)!TypeOK'
        BY <2>1, <3>1, <3>3 DEF ServerInv, Server!TypeOK
      <3>5. Noted(library)'
        BY <3>1 DEF ServerInv, Noted
      <3>6. OnePlace'
        <4>1. \A k \in DOMAIN unaccepted : \A j \in DOMAIN handed' : unaccepted[k] /= handed'[j].connection
          BY <2>2, <3>2, <3>3 DEF ServerInv, OnePlace
        <4>2. \A k, j \in DOMAIN handed' : handed'[k].connection = handed'[j].connection => k = j
          BY <2>2, <3>2, <3>3 DEF ServerInv, OnePlace
        <4>3. \A j \in DOMAIN handed' : conn[handed'[j].connection].stage /= "none"
          BY <2>2, <3>2, <3>3 DEF ServerInv, OnePlace
        <4>4. UNCHANGED <<unaccepted, conn>>
          BY <2>1, <3>1
        <4>5. /\ \A k, j \in DOMAIN unaccepted : unaccepted[k] = unaccepted[j] => k = j
              /\ \A k \in DOMAIN unaccepted : conn[unaccepted[k]].stage /= "none"
          BY DEF ServerInv, OnePlace
        <4> QED BY <4>1, <4>2, <4>3, <4>4, <4>5 DEF OnePlace
      <3>7. Handed'
        BY <3>2, <3>3 DEF ServerInv, Handed
      <3> QED BY <2>3, <3>4, <3>5, <3>6, <3>7 DEF ServerInv
    <2> QED BY <2>4, <2>5
  <1> QED BY <1>1, <1>2, <1>3, <1>4, <1>5 DEF Server!Next, Server!Callback

-----------------------------------------------------------------------------

LEMMA FallbackPart ==
    ASSUME [Next]_vars PROVE Fallback!Next \/ UNCHANGED fallback
  BY DEF Next, vars

LEMMA FallbackStays ==
    ASSUME FallbackInv, UNCHANGED fallback PROVE FallbackInv'
  <1>1. client' = client /\ attempt' = attempt /\ pending' = pending
    BY DEF fallback
  <1> QED
    BY <1>1 DEF FallbackInv, Fallback!TypeOK, Attached, Separate, Carries,
                Fallback!PendingIsWanted, Fallback!IsAt

LEMMA ServerPart ==
    ASSUME [Next]_vars, NEW library \in Libraries, part'.library = library
    PROVE  part.library = library /\ (Server(library)!Next \/ UNCHANGED server)
  <1>1. CASE UNCHANGED <<server, part>>
    BY <1>1
  <1>2. ASSUME NEW other \in Libraries, Is("server", other), Server(other)!Next, UNCHANGED part
        PROVE  part.library = library /\ Server(library)!Next
    <2>1. part.library = other
      BY <1>2 DEF Is
    <2> QED BY <1>2, <2>1
  <1> QED BY <1>1, <1>2 DEF Next, vars

LEMMA ServerStays ==
    ASSUME NEW library \in Libraries, ServerInv(library), UNCHANGED server PROVE ServerInv(library)'
  <1>1. conn' = conn /\ unaccepted' = unaccepted /\ accepting' = accepting /\ handed' = handed
    BY DEF server
  <1>2. Server(library)!TypeOK'
    BY <1>1 DEF ServerInv, Server!TypeOK
  <1>3. Noted(library)' /\ OnePlace' /\ Looked(library)' /\ Handed'
    BY <1>1 DEF ServerInv, Noted, OnePlace, Looked, Handed
  <1> QED BY <1>2, <1>3 DEF ServerInv

ConnectionInv ==
    /\ FallbackInv
    /\ \A library \in Libraries : part.library = library => ServerInv(library)

(* A ready connection leads to the endpoint the client was told, by planes one *)
(* attempt opened, however the attempts of any number of clients interleave in *)
(* the provider; a pending binding is wanted; and a QUIC server hands out each *)
(* connection once, with a certificate that is paired and valid.               *)
THEOREM ConnectionCorrect == Spec => []ConnectionIsWhole
  <1>1. Init => ConnectionInv
    <2> SUFFICES ASSUME Init PROVE ConnectionInv
      OBVIOUS
    <2>1. FallbackInv
      BY FallbackInit, FallbackAssumption DEF Init
    <2>2. PICK one \in Libraries : Server(one)!Init
      BY DEF Init
    <2>3. ASSUME NEW library \in Libraries PROVE ServerInv(library)
      <3>1. Server(library)!Init
        BY <2>2 DEF Server!Init, Server!New, Server!Outside
      <3> QED BY <3>1, ServerInit, QuicAssumption
    <2> QED BY <2>1, <2>3 DEF ConnectionInv
  <1>2. ConnectionInv /\ [Next]_vars => ConnectionInv'
    <2> SUFFICES ASSUME ConnectionInv, [Next]_vars PROVE ConnectionInv'
      OBVIOUS
    <2>1. FallbackInv'
      BY FallbackPart, FallbackStep, FallbackStays, FallbackAssumption DEF ConnectionInv
    <2>2. ASSUME NEW library \in Libraries, part'.library = library
          PROVE  ServerInv(library)'
      <3>1. ServerInv(library) /\ (Server(library)!Next \/ UNCHANGED server)
        BY <2>2, ServerPart DEF ConnectionInv
      <3> QED BY <3>1, ServerStep, ServerStays, QuicAssumption
    <2> QED BY <2>1, <2>2 DEF ConnectionInv
  <1>3. ConnectionInv => ConnectionIsWhole
    <2> SUFFICES ASSUME ConnectionInv PROVE ConnectionIsWhole
      OBVIOUS
    <2>1. Fallback!ReadyIsWhole /\ Fallback!PendingIsWanted
      BY FallbackImplies DEF ConnectionInv
    <2>2. ASSUME NEW library \in Libraries, Is("server", library)
          PROVE  Server(library)!HandsOutProved
      <3>1. part.library = library
        BY <2>2 DEF Is
      <3> QED BY <3>1, ServerImplies DEF ConnectionInv
    <2> QED BY <2>1, <2>2 DEF ConnectionIsWhole
  <1> QED BY <1>1, <1>2, <1>3, PTL DEF Spec

-----------------------------------------------------------------------------
(* Frames put together from datagrams.                                         *)

(* While no keyframe is needed, nothing newer was heard of than the frame that *)
(* is being put together; and while one is needed, that frame is one.          *)
Followed ==
    /\ ~keyframeRequired => heard = current
    /\ keyframeRequired /\ current /= 0 => frames[current].key

Ahead == current /= 0 => current > completed

VideoInv == Video!TypeOK /\ Followed /\ Ahead

-----------------------------------------------------------------------------
LEMMA VideoSeqMember ==
    ASSUME NEW S, NEW n \in Nat
    PROVE  \A s : s \in Video!BoundedSeq(S, n) <=> s \in Seq(S) /\ Len(s) <= n
  <1>1. Video!BoundedSeq(S, n) = UNION {[1 .. m -> S] : m \in 0 .. n}
    BY DEF Video!BoundedSeq, Video!SeqOf
  <1>2. ASSUME NEW s \in Seq(S), Len(s) <= n
        PROVE  s \in Video!BoundedSeq(S, n)
    BY <1>1, <1>2
  <1>3. ASSUME NEW m \in 0 .. n, NEW s \in [1 .. m -> S]
        PROVE  s \in Seq(S) /\ Len(s) <= n
    <2>1. m \in Nat /\ m <= n
      OBVIOUS
    <2> QED BY <2>1
  <1> QED BY <1>1, <1>2, <1>3

(* A frame that is sent leaves those before it as they are.                    *)
LEMMA SendsKeep ==
    ASSUME Video!FrameReassemblyConstants, Video!TypeOK, NEW key \in BOOLEAN, NEW count \in 1 .. MaxFragments, Video!SendsFrame(key, count)
    PROVE  /\ frames' \in Video!BoundedSeq(Video!Frames, MaxFrames)
           /\ Len(frames') = Len(frames) + 1
           /\ \A f \in 1 .. Len(frames) : frames'[f] = frames[f]
  <1>1. MaxFrames \in Nat
    BY DEF Video!FrameReassemblyConstants
  <1>2. frames \in Seq(Video!Frames) /\ Len(frames) < MaxFrames
    BY <1>1, VideoSeqMember DEF Video!TypeOK, Video!SendsFrame
  <1>3. [key |-> key, count |-> count] \in Video!Frames
    BY DEF Video!Frames
  <1>4. frames' = Append(frames, [key |-> key, count |-> count])
    BY DEF Video!SendsFrame
  <1>5. frames' \in Seq(Video!Frames) /\ Len(frames') = Len(frames) + 1
    BY <1>2, <1>3, <1>4
  <1>6. frames' \in Video!BoundedSeq(Video!Frames, MaxFrames)
    BY <1>1, <1>2, <1>5, VideoSeqMember
  <1> QED BY <1>2, <1>3, <1>4, <1>5, <1>6

(* A frame has a key flag and a number of fragments, and its id is in range. *)
LEMMA FrameFacts ==
    ASSUME Video!FrameReassemblyConstants, Video!TypeOK, NEW f \in DOMAIN frames
    PROVE  /\ f \in 1 .. Len(frames) /\ Len(frames) \in Nat /\ Len(frames) <= MaxFrames
           /\ MaxFrames \in Nat
           /\ frames[f].key \in BOOLEAN /\ frames[f].count \in 1 .. MaxFragments
  <1>1. MaxFrames \in Nat
    BY DEF Video!FrameReassemblyConstants
  <1>2. frames \in Seq(Video!Frames) /\ Len(frames) <= MaxFrames
    BY <1>1, VideoSeqMember DEF Video!TypeOK
  <1>3. frames[f] \in Video!Frames /\ f \in 1 .. Len(frames)
    BY <1>2
  <1> QED BY <1>1, <1>2, <1>3 DEF Video!Frames

-----------------------------------------------------------------------------
LEMMA VideoInit ==
    ASSUME Video!FrameReassemblyConstants
    PROVE  Video!Init => VideoInv
  <1> SUFFICES ASSUME Video!Init PROVE VideoInv
    OBVIOUS
  <1>1. MaxFrames \in Nat
    BY DEF Video!FrameReassemblyConstants
  <1>2. <<>> \in Seq(Video!Frames) /\ Len(<<>>) = 0
    OBVIOUS
  <1>3. \A s : s \in Video!BoundedSeq(Video!Frames, MaxFrames) <=> s \in Seq(Video!Frames) /\ Len(s) <= MaxFrames
    BY <1>1, VideoSeqMember, Zenon
  <1>4. <<>> \in Video!BoundedSeq(Video!Frames, MaxFrames)
    <2>1. Len(<<>>) <= MaxFrames
      BY <1>1, <1>2
    <2> QED BY <2>1, <1>2, <1>3, Zenon
  <1>5. frames \in Video!BoundedSeq(Video!Frames, MaxFrames)
    BY <1>4 DEF Video!Init
  <1> QED BY <1>1, <1>5 DEF Video!Init, VideoInv, Video!TypeOK, Followed, Ahead, Video!Lost

LEMMA VideoStep ==
    ASSUME Video!FrameReassemblyConstants
    PROVE  VideoInv /\ [Video!Next]_Video!vars => VideoInv'
  <1> SUFFICES ASSUME VideoInv, [Video!Next]_Video!vars PROVE VideoInv'
    OBVIOUS
  <1> USE DEF VideoInv
  <1>1. ASSUME NEW key \in BOOLEAN, NEW count \in 1 .. MaxFragments, Video!SendsFrame(key, count)
        PROVE  VideoInv'
    <2>1. frames' \in Video!BoundedSeq(Video!Frames, MaxFrames) /\ Len(frames') = Len(frames) + 1
          /\ \A f \in 1 .. Len(frames) : frames'[f] = frames[f]
      BY <1>1, SendsKeep
    <2>2. Len(frames) \in Nat
      BY VideoSeqMember DEF Video!FrameReassemblyConstants, Video!TypeOK
    <2> QED BY <1>1, <2>1, <2>2 DEF Video!SendsFrame, Video!TypeOK, Followed, Ahead, Video!Lost
  <1>2. ASSUME NEW f \in DOMAIN frames, Video!Ignores(f)
        PROVE  VideoInv'
    BY <1>2 DEF Video!Ignores, Video!vars, Video!TypeOK, Followed, Ahead, Video!Lost
  <1>3. ASSUME NEW f \in DOMAIN frames, Video!Refuses(f)
        PROVE  VideoInv'
    <2>1. heard' \in 0 .. Video!Lost
      BY <1>3, FrameFacts DEF Video!Refuses, Video!Hears, Video!TypeOK, Video!Lost, Video!Nobody
    <2>2. keyframeRequired' = TRUE
      <3>1. Video!Abandons(f)
        BY <1>3 DEF Video!Refuses, Video!Refused
      <3> QED BY <1>3, <3>1, Zenon DEF Video!Refuses
    <2>3. Video!TypeOK'
      BY <1>3, <2>1, <2>2, FrameFacts DEF Video!Refuses, Video!TypeOK, Video!Lost
    <2> QED BY <1>3, <2>2, <2>3 DEF Video!Refuses, Followed, Ahead
  <1>4. ASSUME NEW f \in DOMAIN frames, NEW index \in 1 .. frames[f].count, Video!Keeps(f, index)
        PROVE  VideoInv'
    <2>1. fragments' \subseteq 1 .. MaxFragments
      <3>1. index \in 1 .. MaxFragments
        BY <1>4, FrameFacts DEF Video!FrameReassemblyConstants
      <3>2. Video!With(f, index) \subseteq 1 .. MaxFragments
        BY <3>1 DEF Video!With, Video!TypeOK
      <3> QED BY <1>4, <3>2 DEF Video!Keeps
    <2>2. Followed' /\ Ahead'
      BY <1>4, FrameFacts
         DEF Video!Keeps, Video!Refused, Video!Abandons, Video!Hears, Video!Stale, Video!TypeOK, Followed, Ahead, Video!Nobody
    <2> QED BY <1>4, <2>1, <2>2, FrameFacts
         DEF Video!Keeps, Video!Abandons, Video!Hears, Video!TypeOK, Video!Lost, Video!Nobody
  <1>5. ASSUME NEW f \in DOMAIN frames, NEW index \in 1 .. frames[f].count, Video!Completes(f, index)
        PROVE  VideoInv'
    BY <1>5, FrameFacts
       DEF Video!Completes, Video!Refused, Video!Abandons, Video!Stale, Video!TypeOK, Followed, Ahead, Video!Lost, Video!Nobody
  <1>6. CASE Video!NotifiesLoss
    BY <1>6
       DEF Video!NotifiesLoss, Video!FrameReassemblyConstants, Video!TypeOK, Followed, Ahead, Video!Lost
  <1>7. CASE UNCHANGED Video!vars
    BY <1>7 DEF Video!vars, Video!TypeOK, Followed, Ahead, Video!Lost
  <1> QED BY <1>1, <1>2, <1>3, <1>4, <1>5, <1>6, <1>7 DEF Video!Next

LEMMA VideoDeltas ==
    ASSUME Video!FrameReassemblyConstants
    PROVE  VideoInv /\ [Video!Next]_Video!vars =>
             [completed' /= completed =>
                  /\ completed' > completed
                  /\ frames[completed'].key \/ heard \in {Video!Nobody, completed'}]_Video!vars
  <1> SUFFICES ASSUME VideoInv, Video!Next, completed' /= completed
               PROVE  /\ completed' > completed
                      /\ frames[completed'].key \/ heard \in {Video!Nobody, completed'}
    BY DEF Video!vars
  <1>1. PICK f \in DOMAIN frames : \E index \in 1 .. frames[f].count : Video!Completes(f, index)
    BY DEF Video!Next, Video!SendsFrame, Video!Ignores, Video!Refuses, Video!Keeps, Video!NotifiesLoss, Video!vars
  <1>2. completed' = f /\ ~Video!Stale(f) /\ ~Video!Refused(f)
    BY <1>1 DEF Video!Completes
  <1>3. completed' > completed
    BY <1>2, FrameFacts DEF Video!Stale, VideoInv, Video!TypeOK
  <1>4. frames[f].key \/ heard \in {Video!Nobody, f}
    BY <1>2, FrameFacts DEF Video!Refused, Video!Abandons, Video!Stale, VideoInv, Followed, Video!TypeOK, Video!Nobody
  <1> QED BY <1>2, <1>3, <1>4

LEMMA VideoPart ==
    ASSUME [Next]_vars PROVE [Video!Next]_Video!vars
  BY DEF Next, vars, video, Video!vars

(* The types of the reassembler: the frame it puts together and the one it     *)
(* completed were sent, and the fragments it holds are some of that frame's.   *)
THEOREM VideoTypeCorrect == Spec => []Video!TypeOK
  <1>1. Init => VideoInv
    BY VideoInit, VideoAssumption DEF Init
  <1>2. VideoInv /\ [Next]_vars => VideoInv'
    BY VideoPart, VideoStep, VideoAssumption
  <1>3. VideoInv => Video!TypeOK
    BY DEF VideoInv
  <1> QED BY <1>1, <1>2, <1>3, PTL DEF Spec

(* Frames come out in the order of their ids, and a delta frame only when      *)
(* nothing was heard of between it and the frame before it.                    *)
THEOREM DeltasCorrect == Spec => DeltasFollow
  <1>1. Init => VideoInv
    BY VideoInit, VideoAssumption DEF Init
  <1>2. VideoInv /\ [Next]_vars => VideoInv'
    BY VideoPart, VideoStep, VideoAssumption
  <1>3. VideoInv /\ [Next]_vars =>
          [completed' /= completed =>
               /\ completed' > completed
               /\ frames[completed'].key \/ heard \in {Video!Nobody, completed'}]_Video!vars
    BY VideoPart, VideoDeltas, VideoAssumption
  <1> QED BY <1>1, <1>2, <1>3, PTL DEF Spec, DeltasFollow, Video!DeltasFollow

-----------------------------------------------------------------------------
(* The packets of audio.                                                       *)

(* A set of numbers that is not empty has a smallest one.                      *)
LEMMA NatMin ==
    ASSUME NEW S, S \subseteq Nat, S /= {}
    PROVE  \E x \in S : \A y \in S : x <= y
  <1>1. IsWellFoundedOn(OpToRel(<, Nat), Nat)
    BY NatLessThanWellFounded
  <1>2. PICK x \in S : \A y \in S : ~(<<y, x>> \in OpToRel(<, Nat))
    BY <1>1, WFMin
  <1>3. \A y \in S : ~(y < x)
    BY <1>2 DEF OpToRel
  <1> QED BY <1>3

LEMMA MinOfNat ==
    ASSUME NEW S, S \subseteq Nat, S /= {}
    PROVE  Audio!Min(S) \in S /\ \A y \in S : Audio!Min(S) <= y
  BY NatMin DEF Audio!Min

(* Positions passed so far are an interval that ends before the next one.      *)
Passed ==
    expected /= 0 =>
        \E first \in Nat : first <= expected /\ played \cup concealed = first .. (expected - 1)
Waiting ==
    /\ accepted = played \cup packets
    /\ played \cap concealed = {}
    /\ expected = 0 => played = {} /\ concealed = {}
    /\ expected /= 0 => \A s \in packets : s >= expected
AudioType ==
    /\ recorded \in Nat /\ expected \in Nat
    /\ packets \subseteq Nat \ {0} /\ IsFiniteSet(packets)
    /\ played \subseteq Nat /\ concealed \subseteq Nat
AudioInv == AudioType /\ Waiting /\ Passed

LEMMA AudioInit ==
    ASSUME Audio!Init PROVE AudioInv
  BY FS_EmptySet DEF Audio!Init, AudioInv, AudioType, Waiting, Passed

(* When the playing begins there is a first packet, and it is there.           *)
LEMMA AudioCardinality == \A S : Audio!Cardinality(S) = Cardinality(S)
  BY DEF Audio!Cardinality, Cardinality

LEMMA FirstPosition ==
    ASSUME Audio!JitterBufferConstants, AudioInv, Audio!Begins, expected = 0
    PROVE  Audio!Position \in packets /\ \A s \in packets : Audio!Position <= s
  <1>1. packets /= {}
    <2>1. Target \in Nat \ {0} /\ Cardinality({}) = 0
      BY FS_EmptySet DEF Audio!JitterBufferConstants
    <2>2. Cardinality(packets) >= Target
      BY AudioCardinality DEF Audio!Begins
    <2> QED BY <2>1, <2>2
  <1>2. packets \subseteq Nat
    BY DEF AudioInv, AudioType
  <1> QED BY <1>1, <1>2, MinOfNat DEF Audio!Position

LEMMA AudioStep ==
    ASSUME Audio!JitterBufferConstants, AudioInv, Audio!Next
    PROVE  AudioInv'
  <1> USE DEF AudioInv, AudioType
  <1>1. CASE Audio!Sends
    BY <1>1 DEF Audio!Sends, Waiting, Passed
  <1>2. CASE Audio!Plays
    <2> DEFINE position == Audio!Position
    <2>1. /\ position \in packets /\ packets' = packets \ {position} /\ expected' = position + 1
          /\ played' = played \cup {position} /\ UNCHANGED <<recorded, accepted, concealed>>
      BY <1>2 DEF Audio!Plays
    <2>2. \A s \in packets : position <= s
      BY <1>2, FirstPosition DEF Audio!Plays, Audio!Position, Waiting
    <2>3. AudioType'
      BY <2>1, FS_RemoveElement DEF AudioType
    <2>4. expected /= 0 => position = expected
      BY DEF Audio!Position
    <2>5. Passed'
      <3>1. CASE expected = 0
        <4>1. played' \cup concealed' = position .. (expected' - 1)
          <5>1. played' \cup concealed' = {position} /\ position \in Nat
            BY <2>1, <3>1 DEF Waiting
          <5> QED BY <2>1, <5>1
        <4> QED BY <2>1, <4>1 DEF Passed
      <3>2. CASE expected /= 0
        <4>1. PICK first \in Nat : first <= expected /\ played \cup concealed = first .. (expected - 1)
          BY <3>2 DEF Passed
        <4>2. played' \cup concealed' = first .. (expected' - 1) /\ first <= expected'
          BY <2>1, <2>4, <3>2, <4>1
        <4> QED BY <4>2 DEF Passed
      <3> QED BY <3>1, <3>2
    <2>6. position \notin concealed
      <3>1. CASE expected = 0
        BY <3>1 DEF Waiting
      <3>2. CASE expected /= 0
        BY <2>4, <3>2 DEF Passed
      <3> QED BY <3>1, <3>2
    <2>7. Waiting'
      BY <2>1, <2>2, <2>6 DEF Waiting
    <2> QED BY <2>3, <2>5, <2>7
  <1>3. CASE Audio!Resets
    BY <1>3, FS_EmptySet DEF Audio!Resets, Waiting, Passed
  <1>4. ASSUME NEW s \in 1 .. recorded, Audio!Pushes(s)
        PROVE  AudioInv'
    <2>1. AudioType'
      BY <1>4, FS_AddElement DEF Audio!Pushes
    <2>2. Waiting' /\ Passed'
      BY <1>4 DEF Audio!Pushes, Audio!Late, Waiting, Passed
    <2> QED BY <2>1, <2>2
  <1>5. ASSUME NEW deadline \in BOOLEAN, Audio!Conceals(deadline)
        PROVE  AudioInv'
    <2>1. expected /= 0 /\ Audio!Position = expected
      BY <1>5, FirstPosition DEF Audio!Conceals, Audio!Position
    <2>2. /\ expected \notin packets /\ expected' = expected + 1
          /\ concealed' = concealed \cup {expected}
          /\ UNCHANGED <<recorded, packets, accepted, played>>
      BY <1>5, <2>1 DEF Audio!Conceals
    <2>3. PICK first \in Nat : first <= expected /\ played \cup concealed = first .. (expected - 1)
      BY <2>1 DEF Passed
    <2>4. played' \cup concealed' = first .. (expected' - 1) /\ first <= expected'
      BY <2>2, <2>3
    <2>5. expected \notin played
      BY <2>3
    <2>6. Waiting'
      BY <2>1, <2>2, <2>5 DEF Waiting
    <2> QED BY <2>2, <2>4, <2>6 DEF Passed
  <1>6. CASE UNCHANGED audio
    BY <1>6 DEF audio, Waiting, Passed
  <1> QED
    BY <1>1, <1>2, <1>3, <1>4, <1>5, <1>6
       DEF Audio!Next, Audio!Drops, Audio!Waits, Audio!vars, audio

LEMMA AudioImplies ==
    ASSUME AudioInv PROVE AcceptedIsPlayed
  <1>1. ASSUME expected /= 0
        PROVE  played \cup concealed = Audio!Min(played \cup concealed \cup {expected}) .. (expected - 1)
    <2>1. PICK first \in Nat : first <= expected /\ played \cup concealed = first .. (expected - 1)
      BY <1>1 DEF AudioInv, Passed
    <2> DEFINE all == played \cup concealed \cup {expected}
    <2>2. all \subseteq Nat /\ all /= {} /\ first \in all /\ \A y \in all : first <= y
      BY <2>1 DEF AudioInv, AudioType
    <2>3. Audio!Min(all) = first
      BY <2>2, MinOfNat
    <2> QED BY <2>1, <2>3
  <1> QED BY <1>1 DEF AudioInv, Waiting, AcceptedIsPlayed, Audio!AcceptedIsPlayed

LEMMA AudioPart ==
    ASSUME [Next]_vars PROVE Audio!Next \/ UNCHANGED audio
  BY DEF Next, vars

THEOREM AudioCorrect == Spec => []AcceptedIsPlayed
  <1>1. Init => AudioInv
    BY AudioInit DEF Init
  <1>2. AudioInv /\ [Next]_vars => AudioInv'
    <2>1. CASE UNCHANGED audio
      BY <2>1 DEF AudioInv, AudioType, Waiting, Passed, audio
    <2> QED BY <2>1, AudioPart, AudioStep, AudioAssumption
  <1>3. AudioInv => AcceptedIsPlayed
    BY AudioImplies
  <1> QED BY <1>1, <1>2, <1>3, PTL DEF Spec

-----------------------------------------------------------------------------
(* The execution of a command.                                                 *)

NoMain(s) == ~Execution!Contains(pipes[s], "main")

(* Where the executor is says which system it runs on, how far the command has *)
(* come and whether its end is known.                                          *)
Stages ==
    /\ pc \in {"assign", "resume", "close", "join"} => system = "windows"
    /\ pc = "drain" => system = "macos"
    /\ pc \in {"start", "assign", "resume", "wait", "look"} => outcome = "none"
    /\ pc \in {"reap", "close", "join", "returned"} => outcome /= "none"
    /\ pc \in {"start", "assign", "resume", "wait", "look", "reap", "close"} => at = "stdout"

(* The processes at each stage: no descendant before the command runs, nothing *)
(* running after it was killed, nothing in a job that is closed.               *)
Processes ==
    /\ pc = "start" => process = "none"
    /\ pc \in {"assign", "resume"} => process = "suspended"
    /\ pc \in {"wait", "look"} => process \in {"running", "gone"}
    /\ pc = "drain" /\ outcome = "none" => process \in {"running", "gone"}
    /\ pc = "drain" /\ outcome /= "none" => process = "gone"
    /\ pc = "reap" => process \in {"killed", "gone"}
    /\ pc \in {"close", "join", "returned"} => process = "gone"
    /\ pc = "threw" => process \in {"none", "killed", "gone"}
    /\ pc \in {"start", "assign", "resume"} => child = "none"
    /\ pc = "threw" /\ outcome = "none" => child = "none"
    /\ outcome \in {"cancelled", "timed out", "failed"} => child /= "running"
    /\ system = "windows" /\ outcome /= "none" /\ pc \in {"join", "returned", "threw"} => child /= "running"

(* What was read to its end: a reader that ended, or the last drain.           *)
ReadOut ==
    /\ pc \in {"start", "assign", "resume"} => readers = [s \in Execution!Outputs |-> "none"]
    /\ \A s \in Execution!Outputs : readers[s] = "ended" => NoMain(s) /\ process \notin {"running", "suspended"}
    /\ pc = "join" /\ at = "stderr" => readers["stdout"] = "ended"
    /\ pc = "drain" /\ outcome /= "none" /\ at = "stderr" => NoMain("stdout")
    /\ pc = "returned" => \A s \in Execution!Outputs : NoMain(s)

ExecutionInv == Execution!TypeOK /\ Stages /\ Processes /\ ReadOut

-----------------------------------------------------------------------------
LEMMA PipeSeqMember ==
    ASSUME NEW S, NEW n \in Nat
    PROVE  \A s : s \in Execution!BoundedSeq(S, n) <=> s \in Seq(S) /\ Len(s) <= n
  <1>1. Execution!BoundedSeq(S, n) = UNION {[1 .. m -> S] : m \in 0 .. n}
    BY DEF Execution!BoundedSeq, Execution!SeqOf
  <1>2. ASSUME NEW s \in Seq(S), Len(s) <= n
        PROVE  s \in Execution!BoundedSeq(S, n)
    BY <1>1, <1>2
  <1>3. ASSUME NEW m \in 0 .. n, NEW s \in [1 .. m -> S]
        PROVE  s \in Seq(S) /\ Len(s) <= n
    <2>1. m \in Nat /\ m <= n
      OBVIOUS
    <2> QED BY <2>1
  <1> QED BY <1>1, <1>2, <1>3

(* A pipe is a sequence of who wrote.                                          *)
LEMMA PipeFacts ==
    ASSUME Execution!CommandExecutionConstants, Execution!TypeOK, NEW s \in Execution!Outputs
    PROVE  pipes[s] \in Seq({"main", "child"}) /\ Len(pipes[s]) \in Nat /\ Len(pipes[s]) <= PipeSize
  <1>1. PipeSize \in Nat /\ pipes[s] \in Execution!BoundedSeq({"main", "child"}, PipeSize)
    BY DEF Execution!CommandExecutionConstants, Execution!TypeOK
  <1> QED BY <1>1, PipeSeqMember

(* Writing keeps the pipes pipes, and a descendant writes nothing of the       *)
(* command's.                                                                  *)
LEMMA WritesFacts ==
    ASSUME Execution!CommandExecutionConstants, Execution!TypeOK, NEW s \in Execution!Outputs, NEW who \in {"main", "child"},
           Len(pipes[s]) < PipeSize, pipes' = [pipes EXCEPT ![s] = Append(@, who)]
    PROVE  /\ pipes' \in [Execution!Outputs -> Execution!BoundedSeq({"main", "child"}, PipeSize)]
           /\ who = "child" => \A t \in Execution!Outputs : NoMain(t) => NoMain(t)'
  <1>1. PipeSize \in Nat /\ pipes \in [Execution!Outputs -> Execution!BoundedSeq({"main", "child"}, PipeSize)]
    BY DEF Execution!CommandExecutionConstants, Execution!TypeOK
  <1>2. pipes[s] \in Seq({"main", "child"}) /\ Len(pipes[s]) \in Nat
    BY PipeFacts
  <1>3. Append(pipes[s], who) \in Seq({"main", "child"}) /\ Len(Append(pipes[s], who)) <= PipeSize
    BY <1>1, <1>2
  <1>4. Append(pipes[s], who) \in Execution!BoundedSeq({"main", "child"}, PipeSize)
    BY <1>1, <1>3, PipeSeqMember
  <1>5. pipes' \in [Execution!Outputs -> Execution!BoundedSeq({"main", "child"}, PipeSize)]
    BY <1>1, <1>4
  <1>6. ASSUME who = "child", NEW t \in Execution!Outputs, NoMain(t)
        PROVE  NoMain(t)'
    <2>1. CASE t /= s
      BY <1>1, <1>6, <2>1 DEF NoMain
    <2>2. CASE t = s
      <3>1. pipes'[t] = Append(pipes[s], "child")
        BY <1>1, <1>6, <2>2
      <3> QED BY <1>2, <1>6, <2>2, <3>1 DEF NoMain, Execution!Contains
    <2> QED BY <2>1, <2>2
  <1> QED BY <1>5, <1>6

(* Reading takes something out and leaves the rest.                            *)
LEMMA ReadsFacts ==
    ASSUME Execution!CommandExecutionConstants, Execution!TypeOK, NEW s \in Execution!Outputs,
           pipes[s] /= <<>>, pipes' = [pipes EXCEPT ![s] = Tail(@)]
    PROVE  /\ pipes' \in [Execution!Outputs -> Execution!BoundedSeq({"main", "child"}, PipeSize)]
           /\ \A t \in Execution!Outputs : NoMain(t) => NoMain(t)'
  <1>1. PipeSize \in Nat /\ pipes \in [Execution!Outputs -> Execution!BoundedSeq({"main", "child"}, PipeSize)]
    BY DEF Execution!CommandExecutionConstants, Execution!TypeOK
  <1>2. pipes[s] \in Seq({"main", "child"}) /\ Len(pipes[s]) \in Nat /\ Len(pipes[s]) <= PipeSize
    BY PipeFacts
  <1>3. Tail(pipes[s]) \in Seq({"main", "child"}) /\ Len(Tail(pipes[s])) <= PipeSize
    BY <1>1, <1>2
  <1>4. Tail(pipes[s]) \in Execution!BoundedSeq({"main", "child"}, PipeSize)
    BY <1>1, <1>3, PipeSeqMember
  <1>5. pipes' \in [Execution!Outputs -> Execution!BoundedSeq({"main", "child"}, PipeSize)]
    BY <1>1, <1>4
  <1>6. ASSUME NEW t \in Execution!Outputs, NoMain(t)
        PROVE  NoMain(t)'
    <2>1. CASE t /= s
      BY <1>1, <1>6, <2>1 DEF NoMain
    <2>2. CASE t = s
      <3>1. pipes'[t] = Tail(pipes[s])
        BY <1>1, <1>6, <2>2
      <3> QED BY <1>2, <1>6, <2>2, <3>1 DEF NoMain, Execution!Contains
    <2> QED BY <2>1, <2>2
  <1> QED BY <1>5, <1>6

(* A pipe that is empty holds nothing of the command's.                        *)
LEMMA EmptyHoldsNothing ==
    ASSUME NEW s \in Execution!Outputs, pipes[s] = <<>>
    PROVE  NoMain(s)
  BY DEF NoMain, Execution!Contains

-----------------------------------------------------------------------------
LEMMA ExecutionInit == Execution!CommandExecutionConstants /\ Execution!Init => ExecutionInv
  <1> SUFFICES ASSUME Execution!CommandExecutionConstants, Execution!Init PROVE ExecutionInv
    OBVIOUS
  <1>1. PipeSize \in Nat /\ <<>> \in Seq({"main", "child"}) /\ Len(<<>>) = 0
    BY DEF Execution!CommandExecutionConstants
  <1>2. <<>> \in Execution!BoundedSeq({"main", "child"}, PipeSize)
    <2>1. <<>> \in Execution!BoundedSeq({"main", "child"}, PipeSize) <=>
              <<>> \in Seq({"main", "child"}) /\ Len(<<>>) <= PipeSize
      BY <1>1, PipeSeqMember
    <2> QED BY <1>1, <2>1
  <1>3. Execution!TypeOK
    BY <1>2 DEF Execution!Init, Execution!TypeOK, Execution!Outputs
  <1>4. Stages /\ Processes
    BY DEF Execution!Init, Stages, Processes
  <1>5. ReadOut
    BY DEF Execution!Init, ReadOut, Execution!Outputs
  <1> QED BY <1>3, <1>4, <1>5 DEF ExecutionInv

(* Only the pipes and the readers are written without the rest.                *)
LEMMA TypeKept ==
    ASSUME Execution!TypeOK, UNCHANGED <<system, pc, at, outcome, process, child, overdue, stop>>,
           pipes' \in [Execution!Outputs -> Execution!BoundedSeq({"main", "child"}, PipeSize)],
           readers' \in [Execution!Outputs -> {"none", "reading", "ended"}]
    PROVE  Execution!TypeOK'
  <1>1. system' \in {"macos", "windows"} /\ pc' = pc
    BY DEF Execution!TypeOK
  <1>2. at' \in Execution!Outputs /\ outcome' \in {"none", "exited", "cancelled", "timed out", "failed"}
    BY DEF Execution!TypeOK
  <1>3. process' = process /\ child' = child /\ overdue' \in BOOLEAN /\ stop' \in BOOLEAN
    BY DEF Execution!TypeOK
  <1> QED BY <1>1, <1>2, <1>3 DEF Execution!TypeOK

(* Only the processes, the clock and the request to stop are written.          *)
LEMMA ProcessTypeKept ==
    ASSUME Execution!TypeOK, UNCHANGED <<system, pc, at, outcome, pipes, readers>>,
           process' \in {"none", "suspended", "running", "killed", "gone"},
           child' \in {"none", "running", "escaped", "killed", "gone"},
           overdue' \in BOOLEAN, stop' \in BOOLEAN
    PROVE  Execution!TypeOK'
  <1>1. system' \in {"macos", "windows"} /\ pc' = pc
    BY DEF Execution!TypeOK
  <1>2. at' \in Execution!Outputs /\ outcome' \in {"none", "exited", "cancelled", "timed out", "failed"}
    BY DEF Execution!TypeOK
  <1>3. pipes' \in [Execution!Outputs -> Execution!BoundedSeq({"main", "child"}, PipeSize)]
    BY DEF Execution!TypeOK
  <1>4. readers' \in [Execution!Outputs -> {"none", "reading", "ended"}]
    BY DEF Execution!TypeOK
  <1> QED BY <1>1, <1>2, <1>3, <1>4 DEF Execution!TypeOK

LEMMA ProcessTypes ==
    Execution!TypeOK => /\ process \in {"none", "suspended", "running", "killed", "gone"}
                        /\ child \in {"none", "running", "escaped", "killed", "gone"}
                        /\ overdue \in BOOLEAN /\ stop \in BOOLEAN
  BY DEF Execution!TypeOK

(* The processes write, end and are killed.                                    *)
LEMMA ProcessesKeep ==
    ASSUME Execution!CommandExecutionConstants, ExecutionInv,
           \/ \E s \in Execution!Outputs : Execution!MainWrites(s) \/ Execution!ChildWrites(s)
           \/ Execution!MainEnds \/ Execution!ChildGoesOn \/ Execution!Dies \/ Execution!TimePasses \/ Execution!Cancel
    PROVE  ExecutionInv'
  <1> USE DEF ExecutionInv
  <1>1. ASSUME NEW s \in Execution!Outputs, Execution!MainWrites(s) PROVE ExecutionInv'
    <2>1. Execution!TypeOK'
      <3>1. Len(pipes[s]) < PipeSize /\ pipes' = [pipes EXCEPT ![s] = Append(@, "main")] /\ Execution!TypeOK
        BY <1>1 DEF Execution!MainWrites
      <3>2. pipes' \in [Execution!Outputs -> Execution!BoundedSeq({"main", "child"}, PipeSize)]
        BY <3>1, WritesFacts
      <3>3. UNCHANGED <<system, pc, at, outcome, process, child, readers, overdue, stop>>
        BY <1>1 DEF Execution!MainWrites
      <3>4. readers' \in [Execution!Outputs -> {"none", "reading", "ended"}]
        BY <3>3 DEF Execution!TypeOK
      <3> QED BY <3>1, <3>2, <3>3, <3>4, TypeKept
    <2>2. Stages' /\ Processes'
      BY <1>1 DEF Execution!MainWrites, Stages, Processes
    <2>3. process = "running" /\ pc /= "join" /\ pc /= "returned" /\ (pc = "drain" => outcome = "none")
      BY <1>1 DEF Execution!MainWrites, Processes
    <2>4. \A t \in Execution!Outputs : readers[t] /= "ended"
      BY <2>3 DEF ReadOut
    <2>5. ReadOut'
      BY <1>1, <2>3, <2>4 DEF Execution!MainWrites, ReadOut
    <2> QED BY <2>1, <2>2, <2>5
  <1>2. ASSUME NEW s \in Execution!Outputs, Execution!ChildWrites(s) PROVE ExecutionInv'
    <2>1. Execution!TypeOK' /\ \A t \in Execution!Outputs : NoMain(t) => NoMain(t)'
      <3>1. Len(pipes[s]) < PipeSize /\ pipes' = [pipes EXCEPT ![s] = Append(@, "child")] /\ Execution!TypeOK
        BY <1>2 DEF Execution!ChildWrites
      <3>2. /\ pipes' \in [Execution!Outputs -> Execution!BoundedSeq({"main", "child"}, PipeSize)]
            /\ \A t \in Execution!Outputs : NoMain(t) => NoMain(t)'
        <4>1. "child" \in {"main", "child"}
          OBVIOUS
        <4> HIDE DEF ExecutionInv
        <4> QED BY <3>1, <4>1, WritesFacts, ZenonT(60)
      <3>3. Execution!TypeOK'
        <4>1. UNCHANGED <<system, pc, at, outcome, process, child, readers, overdue, stop>>
          BY <1>2, SMTT(60) DEF Execution!ChildWrites
        <4>2. readers' \in [Execution!Outputs -> {"none", "reading", "ended"}]
          BY <4>1 DEF Execution!TypeOK
        <4> QED BY <3>2, <4>1, <4>2, TypeKept
      <3> QED BY <3>2, <3>3
    <2>2. Stages' /\ Processes'
      BY <1>2 DEF Execution!ChildWrites, Stages, Processes
    <2>3. ReadOut'
      BY <1>2, <2>1 DEF Execution!ChildWrites, ReadOut, Execution!Outputs
    <2> QED BY <2>1, <2>2, <2>3
  <1>3. CASE Execution!MainEnds
    <2>1. UNCHANGED <<system, pc, at, outcome, child, pipes, readers, overdue, stop>>
      BY <1>3 DEF Execution!MainEnds
    <2>2. /\ process' \in {"none", "suspended", "running", "killed", "gone"}
          /\ child' \in {"none", "running", "escaped", "killed", "gone"}
          /\ overdue' \in BOOLEAN /\ stop' \in BOOLEAN
      BY <1>3, <2>1, ProcessTypes DEF Execution!MainEnds
    <2>3. Execution!TypeOK'
      BY <2>1, <2>2, ProcessTypeKept
    <2>4. Stages'
      BY <2>1 DEF Stages
    <2>5. Processes'
      BY <1>3 DEF Execution!MainEnds, Processes, Stages
    <2>6. ReadOut'
      BY <1>3 DEF Execution!MainEnds, ReadOut, NoMain
    <2> QED BY <2>3, <2>4, <2>5, <2>6
  <1>4. CASE Execution!ChildGoesOn
    <2>1. UNCHANGED <<system, pc, at, outcome, process, pipes, readers, overdue, stop>>
      BY <1>4 DEF Execution!ChildGoesOn
    <2>2. /\ process' \in {"none", "suspended", "running", "killed", "gone"}
          /\ child' \in {"none", "running", "escaped", "killed", "gone"}
          /\ overdue' \in BOOLEAN /\ stop' \in BOOLEAN
      BY <1>4, <2>1, ProcessTypes DEF Execution!ChildGoesOn
    <2>3. Execution!TypeOK'
      BY <2>1, <2>2, ProcessTypeKept, SMTT(60)
    <2>4. Stages'
      BY <2>1 DEF Stages
    <2>5. Processes'
      <3>1. process = "running" => pc \in {"wait", "look", "drain"} /\ outcome = "none"
        BY DEF Execution!TypeOK, Processes, Stages
      <3>2. child \in {"none", "running", "escaped", "killed", "gone"} /\ Processes
        BY ProcessTypes
      <3> QED BY <1>4, <2>1, <3>1, <3>2 DEF Execution!ChildGoesOn, Processes
    <2>6. ReadOut'
      BY <1>4 DEF Execution!ChildGoesOn, ReadOut, NoMain
    <2> QED BY <2>3, <2>4, <2>5, <2>6
  <1>5. CASE Execution!Dies
    <2>1. UNCHANGED <<system, pc, at, outcome, pipes, readers, overdue, stop>>
      BY <1>5 DEF Execution!Dies
    <2>2. /\ process' \in {"none", "suspended", "running", "killed", "gone"}
          /\ child' \in {"none", "running", "escaped", "killed", "gone"}
          /\ overdue' \in BOOLEAN /\ stop' \in BOOLEAN
      BY <1>5, <2>1, ProcessTypes DEF Execution!Dies
    <2>3. Execution!TypeOK'
      BY <2>1, <2>2, ProcessTypeKept
    <2>4. Stages'
      BY <2>1 DEF Stages
    <2>5. Processes'
      BY <1>5 DEF Execution!Dies, Processes, Stages
    <2>6. ReadOut'
      BY <1>5 DEF Execution!Dies, ReadOut, NoMain
    <2> QED BY <2>3, <2>4, <2>5, <2>6
  <1>6. CASE Execution!TimePasses
    <2>1. UNCHANGED <<system, pc, at, outcome, process, child, pipes, readers, stop>>
      BY <1>6 DEF Execution!TimePasses
    <2>2. /\ process' \in {"none", "suspended", "running", "killed", "gone"}
          /\ child' \in {"none", "running", "escaped", "killed", "gone"}
          /\ overdue' \in BOOLEAN /\ stop' \in BOOLEAN
      BY <1>6, <2>1, ProcessTypes DEF Execution!TimePasses
    <2>3. Execution!TypeOK'
      BY <2>1, <2>2, ProcessTypeKept
    <2>4. Stages'
      BY <2>1 DEF Stages
    <2>5. Processes'
      BY <1>6 DEF Execution!TimePasses, Processes, Stages
    <2>6. ReadOut'
      BY <1>6 DEF Execution!TimePasses, ReadOut, NoMain
    <2> QED BY <2>3, <2>4, <2>5, <2>6
  <1>7. CASE Execution!Cancel
    <2>1. UNCHANGED <<system, pc, at, outcome, process, child, pipes, readers, overdue>>
      BY <1>7 DEF Execution!Cancel
    <2>2. /\ process' \in {"none", "suspended", "running", "killed", "gone"}
          /\ child' \in {"none", "running", "escaped", "killed", "gone"}
          /\ overdue' \in BOOLEAN /\ stop' \in BOOLEAN
      BY <1>7, <2>1, ProcessTypes DEF Execution!Cancel
    <2>3. Execution!TypeOK'
      BY <2>1, <2>2, ProcessTypeKept
    <2>4. Stages'
      BY <2>1 DEF Stages
    <2>5. Processes'
      BY <1>7 DEF Execution!Cancel, Processes, Stages
    <2>6. ReadOut'
      BY <1>7 DEF Execution!Cancel, ReadOut, NoMain
    <2> QED BY <2>3, <2>4, <2>5, <2>6
  <1> QED BY <1>1, <1>2, <1>3, <1>4, <1>5, <1>6, <1>7

(* The command begins, or does not.                                            *)
LEMMA BeginningKeeps ==
    ASSUME ExecutionInv, Execution!Starts \/ Execution!DoesNotStart \/ Execution!StartFails \/ Execution!Assigns \/ Execution!Resumes
    PROVE  ExecutionInv'
  <1> USE DEF ExecutionInv
  <1>1. CASE Execution!Starts
    BY <1>1 DEF Execution!Starts, Execution!TypeOK, Stages, Processes, ReadOut, NoMain, Execution!Outputs
  <1>2. CASE Execution!DoesNotStart
    BY <1>2 DEF Execution!DoesNotStart, Execution!TypeOK, Stages, Processes, ReadOut, NoMain, Execution!Outputs
  <1>3. CASE Execution!StartFails
    BY <1>3 DEF Execution!StartFails, Execution!TypeOK, Stages, Processes, ReadOut, NoMain, Execution!Outputs
  <1>4. CASE Execution!Assigns
    BY <1>4 DEF Execution!Assigns, Execution!TypeOK, Stages, Processes, ReadOut, NoMain, Execution!Outputs
  <1>5. CASE Execution!Resumes
    BY <1>5 DEF Execution!Resumes, Execution!TypeOK, Stages, Processes, ReadOut, NoMain, Execution!Outputs
  <1> QED BY <1>1, <1>2, <1>3, <1>4, <1>5

(* The executor looks at the process, and kills it.                            *)
LEMMA WatchingKeeps ==
    ASSUME ExecutionInv, Execution!FindsEnded \/ Execution!FindsRunning \/ Execution!WaitFails \/ Execution!Looks \/ Execution!Reaps
    PROVE  ExecutionInv'
  <1> USE DEF ExecutionInv
  <1>1. CASE Execution!FindsEnded
    BY <1>1 DEF Execution!FindsEnded, Execution!AfterExit, Execution!TypeOK, Stages, Processes, ReadOut, NoMain
  <1>2. CASE Execution!FindsRunning
    BY <1>2 DEF Execution!FindsRunning, Execution!TypeOK, Stages, Processes, ReadOut, NoMain
  <1>3. ASSUME NEW why \in {"cancelled", "timed out", "failed"}, Execution!Kill(why), pc \in {"wait", "look"},
               UNCHANGED <<system, at, pipes, readers, overdue, stop>>
        PROVE  ExecutionInv'
    <2>1. Execution!TypeOK' /\ Stages'
      BY <1>3 DEF Execution!Kill, Execution!KillsChild, Execution!TypeOK, Stages
    <2>2. Processes'
      BY <1>3 DEF Execution!Kill, Execution!KillsChild, Execution!TypeOK, Processes
    <2>3. ReadOut'
      BY <1>3 DEF Execution!Kill, Execution!KillsChild, Execution!TypeOK, Processes, ReadOut, NoMain
    <2> QED BY <2>1, <2>2, <2>3
  <1>4. CASE Execution!WaitFails
    BY <1>3, <1>4 DEF Execution!WaitFails
  <1>5. CASE Execution!Looks
    <2>1. CASE pc' = "reap"
      BY <1>3, <1>5, <2>1 DEF Execution!Looks
    <2>2. CASE pc' /= "reap"
      <3>1. pc = "look" /\ pc' = (IF system = "macos" THEN "drain" ELSE "wait")
            /\ UNCHANGED <<system, at, outcome, process, child, pipes, readers, overdue, stop>>
        BY <1>5, <2>2 DEF Execution!Looks, Execution!Kill
      <3> QED BY <3>1 DEF Execution!TypeOK, Stages, Processes, ReadOut, NoMain
    <2> QED BY <2>1, <2>2
  <1>6. CASE Execution!Reaps
    BY <1>6, ZenonT(60)
       DEF Execution!Reaps, Execution!AfterExit, Execution!TypeOK, Stages, Processes, ReadOut, NoMain
  <1> QED BY <1>1, <1>2, <1>4, <1>5, <1>6

(* The pipes are read to their end.                                            *)
LEMMA ReadingKeeps ==
    ASSUME Execution!CommandExecutionConstants, ExecutionInv,
           \/ Execution!Drains \/ Execution!Drained \/ Execution!ClosesJob \/ Execution!Joins
           \/ \E s \in Execution!Outputs : Execution!Reads(s) \/ Execution!ReaderEnds(s)
    PROVE  ExecutionInv'
  <1> USE DEF ExecutionInv
  <1>1. CASE Execution!Drains
    <2>1. at \in Execution!Outputs
      BY DEF Execution!TypeOK
    <2>2. Execution!TypeOK' /\ \A t \in Execution!Outputs : NoMain(t) => NoMain(t)'
      <3>1. pipes[at] /= <<>> /\ pipes' = [pipes EXCEPT ![at] = Tail(@)] /\ Execution!TypeOK
        BY <1>1 DEF Execution!Drains
      <3>2. /\ pipes' \in [Execution!Outputs -> Execution!BoundedSeq({"main", "child"}, PipeSize)]
            /\ \A t \in Execution!Outputs : NoMain(t) => NoMain(t)'
        BY <2>1, <3>1, ReadsFacts
      <3>3. UNCHANGED <<system, pc, at, outcome, process, child, readers, overdue, stop>>
        BY <1>1 DEF Execution!Drains
      <3>4. readers' \in [Execution!Outputs -> {"none", "reading", "ended"}]
        BY <3>3 DEF Execution!TypeOK
      <3> QED BY <3>1, <3>2, <3>3, <3>4, TypeKept
    <2>3. Stages' /\ Processes'
      BY <1>1 DEF Execution!Drains, Stages, Processes
    <2>4. ReadOut'
      BY <1>1, <2>2 DEF Execution!Drains, ReadOut, Execution!Outputs
    <2> QED BY <2>2, <2>3, <2>4
  <1>2. CASE Execution!Drained
    <2>1. NoMain(at) /\ at \in Execution!Outputs
      BY <1>2, EmptyHoldsNothing DEF Execution!Drained, Execution!TypeOK
    <2>2. Execution!TypeOK' /\ Stages' /\ Processes'
      <3>1. Execution!TypeOK'
        BY <1>2, ZenonT(60) DEF Execution!Drained, Execution!TypeOK, Execution!Outputs
      <3>2. Stages'
        BY <1>2 DEF Execution!Drained, Execution!TypeOK, Stages
      <3>3. Processes'
        BY <1>2 DEF Execution!Drained, Execution!TypeOK, Stages, Processes
      <3> QED BY <3>1, <3>2, <3>3
    <2>3. \A t \in Execution!Outputs : NoMain(t)' <=> NoMain(t)
      BY <1>2 DEF Execution!Drained, NoMain
    <2>4. ReadOut'
      BY <1>2, <2>1, <2>3 DEF Execution!Drained, ReadOut, Execution!Outputs
    <2> QED BY <2>2, <2>4
  <1>3. CASE Execution!ClosesJob
    BY <1>3, ZenonT(60)
       DEF Execution!ClosesJob, Execution!JobClosed, Execution!TypeOK, Stages, Processes, ReadOut, NoMain
  <1>4. CASE Execution!Joins
    <2>1. Execution!TypeOK' /\ Stages' /\ Processes'
      BY <1>4 DEF Execution!Joins, Execution!TypeOK, Stages, Processes, Execution!Outputs
    <2>2. \A t \in Execution!Outputs : NoMain(t)' <=> NoMain(t)
      BY <1>4 DEF Execution!Joins, NoMain
    <2>3. ReadOut'
      BY <1>4, <2>2 DEF Execution!Joins, Execution!TypeOK, ReadOut, Execution!Outputs
    <2> QED BY <2>1, <2>3
  <1>5. ASSUME NEW s \in Execution!Outputs, Execution!Reads(s) PROVE ExecutionInv'
    <2>1. Execution!TypeOK' /\ \A t \in Execution!Outputs : NoMain(t) => NoMain(t)'
      <3>1. pipes[s] /= <<>> /\ pipes' = [pipes EXCEPT ![s] = Tail(@)] /\ Execution!TypeOK
        BY <1>5 DEF Execution!Reads
      <3>2. /\ pipes' \in [Execution!Outputs -> Execution!BoundedSeq({"main", "child"}, PipeSize)]
            /\ \A t \in Execution!Outputs : NoMain(t) => NoMain(t)'
        BY <3>1, ReadsFacts
      <3>3. Execution!TypeOK'
        <4>1. UNCHANGED <<system, pc, at, outcome, process, child, readers, overdue, stop>>
          BY <1>5 DEF Execution!Reads
        <4>2. readers' \in [Execution!Outputs -> {"none", "reading", "ended"}]
          BY <4>1 DEF Execution!TypeOK
        <4> QED BY <3>2, <4>1, <4>2, TypeKept
      <3> QED BY <3>2, <3>3
    <2>2. Stages' /\ Processes'
      BY <1>5 DEF Execution!Reads, Stages, Processes
    <2>3. ReadOut'
      BY <1>5, <2>1 DEF Execution!Reads, ReadOut, Execution!Outputs
    <2> QED BY <2>1, <2>2, <2>3
  <1>6. ASSUME NEW s \in Execution!Outputs, Execution!ReaderEnds(s) PROVE ExecutionInv'
    <2>1. NoMain(s)
      BY <1>6, EmptyHoldsNothing DEF Execution!ReaderEnds
    <2>2. Execution!TypeOK' /\ Stages' /\ Processes'
      <3>1. Execution!TypeOK'
        <4>1. UNCHANGED <<system, pc, at, outcome, process, child, pipes, overdue, stop>>
          BY <1>6 DEF Execution!ReaderEnds
        <4>2. readers' \in [Execution!Outputs -> {"none", "reading", "ended"}]
          BY <1>6 DEF Execution!ReaderEnds, Execution!TypeOK
        <4>3. pipes' \in [Execution!Outputs -> Execution!BoundedSeq({"main", "child"}, PipeSize)]
          BY <4>1 DEF Execution!TypeOK
        <4> QED BY <4>1, <4>2, <4>3, TypeKept
      <3>2. Stages' /\ Processes'
        BY <1>6 DEF Execution!ReaderEnds, Stages, Processes
      <3> QED BY <3>1, <3>2
    <2>3. pc \notin {"start", "assign", "resume"} /\ process \notin {"running", "suspended"}
      BY <1>6 DEF Execution!ReaderEnds, Execution!Alive, Processes, Execution!TypeOK, ReadOut
    <2>4. \A t \in Execution!Outputs : NoMain(t)' <=> NoMain(t)
      BY <1>6 DEF Execution!ReaderEnds, NoMain
    <2>5. ReadOut'
      BY <1>6, <2>1, <2>3, <2>4, ZenonT(60)
         DEF Execution!ReaderEnds, Execution!TypeOK, ReadOut, Execution!Outputs
    <2> QED BY <2>2, <2>5
  <1> QED BY <1>1, <1>2, <1>3, <1>4, <1>5, <1>6

LEMMA ExecutionStep == Execution!CommandExecutionConstants /\ ExecutionInv /\ [Execution!Next]_Execution!vars => ExecutionInv'
  <1> SUFFICES ASSUME Execution!CommandExecutionConstants, ExecutionInv, [Execution!Next]_Execution!vars PROVE ExecutionInv'
    OBVIOUS
  <1>1. CASE UNCHANGED Execution!vars
    <2>1. Execution!TypeOK'
      <3>1. /\ UNCHANGED <<system, pc, at, outcome, process, child, overdue, stop>>
            /\ pipes' = pipes /\ readers' = readers
        BY <1>1, SMTT(60) DEF Execution!vars
      <3>2. /\ pipes \in [Execution!Outputs -> Execution!BoundedSeq({"main", "child"}, PipeSize)]
            /\ readers \in [Execution!Outputs -> {"none", "reading", "ended"}] /\ Execution!TypeOK
        BY DEF ExecutionInv, Execution!TypeOK
      <3> QED BY <3>1, <3>2, TypeKept
    <2>2. Stages' /\ Processes'
      BY <1>1 DEF Execution!vars, ExecutionInv, Stages, Processes
    <2>3. ReadOut'
      BY <1>1 DEF Execution!vars, ExecutionInv, ReadOut, NoMain
    <2> QED BY <2>1, <2>2, <2>3 DEF ExecutionInv
  <1>2. CASE Execution!Next
    BY <1>2, ProcessesKeep, BeginningKeeps, WatchingKeeps, ReadingKeeps DEF Execution!Next, Execution!Executor
  <1> QED BY <1>1, <1>2

LEMMA ExecutionPart ==
    ASSUME [Next]_vars PROVE [Execution!Next]_Execution!vars
  BY DEF Next, vars, command, Execution!vars

LEMMA ExecutionImplies ==
    ASSUME ExecutionInv PROVE CommandLeavesNothing
  <1>1. pc = "returned" => \A s \in Execution!Outputs : ~Execution!Contains(pipes[s], "main")
    BY DEF ExecutionInv, ReadOut, NoMain
  <1>2. Execution!Done => process \notin {"suspended", "running"}
    BY DEF ExecutionInv, Processes, Execution!Done
  <1>3. Execution!Done /\ (outcome /= "exited" \/ system = "windows") => child /= "running"
    BY DEF ExecutionInv, Execution!TypeOK, Stages, Processes, Execution!Done
  <1> QED BY <1>1, <1>2, <1>3 DEF CommandLeavesNothing, Execution!CommandLeavesNothing

(* execute() returns with everything read that the command wrote, and leaves no *)
(* process of a command it ended, whatever the size of a pipe and whenever the  *)
(* command writes, ends, is cancelled or runs out of time.                      *)
THEOREM NothingIsLeft == Spec => [](Execution!TypeOK /\ CommandLeavesNothing)
  <1>1. Init => ExecutionInv
    BY ExecutionInit, ExecutionAssumption DEF Init
  <1>2. ExecutionInv /\ [Next]_vars => ExecutionInv'
    BY ExecutionPart, ExecutionStep, ExecutionAssumption
  <1>3. ExecutionInv => Execution!TypeOK /\ CommandLeavesNothing
    BY ExecutionImplies DEF ExecutionInv
  <1> QED BY <1>1, <1>2, <1>3, PTL DEF Spec

-----------------------------------------------------------------------------
(* The streams of the TLS plane.                                               *)

(* A record that ends a frame with a message of a stream, and what the stream  *)
(* has of messages: those taken out of the buffer, and the last one sent.      *)
MuxRecords == [stream : Streams, n : Nat, part : Nat, of : Nat, good : BOOLEAN]
Carried(r, s) == r.stream = s /\ r.part = r.of /\ r.n /= 1
Flow == buffer \o wire
Seen(s) == got[s] \o messages[s]
Sending(s) == sender /= Mux!None /\ sender.stream = s
LastSent(s) == IF Sending(s) THEN wrote[s] - 1 ELSE wrote[s]

(* The messages under way come after those seen, in the order of the writer.   *)
Rising(flow, seen, last, s) ==
    /\ \A i \in DOMAIN seen : seen[i] >= 2 /\ seen[i] <= last
    /\ \A i, j \in DOMAIN seen : i < j => seen[i] < seen[j]
    /\ \A i \in DOMAIN flow : Carried(flow[i], s) =>
         /\ flow[i].n >= 2 /\ flow[i].n <= last
         /\ \A j \in DOMAIN seen : seen[j] < flow[i].n
         /\ \A j \in DOMAIN flow : i < j /\ Carried(flow[j], s) => flow[i].n < flow[j].n

(* Without a spill, each follows the one before it ...                         *)
Gapless(flow, seen, s) ==
    /\ \A i \in DOMAIN seen : seen[i] = i + 1
    /\ \A i \in DOMAIN flow : Carried(flow[i], s) /\ flow[i].good =>
         \/ flow[i].n = Len(seen) + 2
         \/ \E j \in DOMAIN flow : j < i /\ Carried(flow[j], s) /\ flow[j].n + 1 = flow[i].n

(* ... and, as long as the connection works, the last one sent is among them.  *)
Reaches(flow, seen, last, s) ==
    \/ last = 0
    \/ last = Len(seen) + 1
    \/ \E i \in DOMAIN flow : Carried(flow[i], s) /\ flow[i].n = last

MuxTypes ==
    /\ wrote \in [Streams -> Nat]
    /\ sender = Mux!None \/ sender \in [stream : Streams, part : Nat, of : Nat]
    /\ sender /= Mux!None => wrote[sender.stream] > 0
    /\ broken \in BOOLEAN /\ spilled \in BOOLEAN
    /\ wire \in Seq(MuxRecords) /\ buffer \in Seq(MuxRecords)
    /\ \A i \in DOMAIN buffer : buffer[i].good
    /\ messages \in [Streams -> Seq(Nat)] /\ got \in [Streams -> Seq(Nat)]

MuxInv ==
    /\ MuxTypes
    /\ \A s \in Streams :
         /\ Rising(Flow, Seen(s), LastSent(s), s)
         /\ ~spilled => Gapless(Flow, Seen(s), s)
         /\ ~spilled /\ ~broken => Reaches(Flow, Seen(s), LastSent(s), s)

-----------------------------------------------------------------------------
(* The records of the TLS plane.                                               *)

(* Where TCP's delivery has got to: the pieces after the records Schannel was  *)
(* given, as far as they have come, are with the handshake or with the reads.  *)
Total == (Flights + Messages) * Size
Bytes == {Records!Pieces[i] : i \in 1 .. Total}
RecordsInv ==
    /\ incoming \in Seq(Bytes) /\ encrypted \in Seq(Bytes)
    /\ fed \in Seq(Nat) /\ \A i \in DOMAIN fed : fed[i] = i
    /\ phase = "handshake" => encrypted = <<>>
    /\ phase = "open" => incoming = <<>>
    /\ phase \in {"handshake", "open", "failed"}
    /\ \E upto \in Len(fed) * Size .. Total :
         /\ incoming \o encrypted = SubSeq(Records!Pieces, Len(fed) * Size + 1, upto)
         /\ unsent = SubSeq(Records!Pieces, upto + 1, Total)
    /\ incoming = <<>> \/ encrypted = <<>>

-----------------------------------------------------------------------------
(* What a QUIC connection delivers.                                            *)

(* What came of a kind, and no message was read after one that was refused.    *)
Arriving(k) == read[k] \o inbox[k]
Skippable(k, library) == k = "datagram" \/ (k = "stream" /\ library = "network")
OfKind(k, delivery, came, over, given, errs, library) ==
    /\ \A i \in DOMAIN delivery : delivery[i] \in came
    /\ \A i, j \in DOMAIN delivery : i < j => delivery[i] /= delivery[j]
    /\ k /= "datagram" =>
         /\ \A i, j \in DOMAIN delivery : i < j => delivery[i] < delivery[j]
         /\ \A n \in came : \A m \in 1 .. n - 1 : m \in came
         /\ \A n \in came \ over : \E i \in DOMAIN delivery : delivery[i] = n
    /\ ~Skippable(k, library) => \A n \in over :
         /\ Inbox(library)!Place(k) \in errs
         /\ \A i \in DOMAIN given : given[i] < n
InboxInv(library) ==
    /\ arrived \in [Inbox(library)!Kinds -> SUBSET Nat] /\ refused \in [Inbox(library)!Kinds -> SUBSET Nat]
    /\ inbox \in [Inbox(library)!Kinds -> Seq(Nat)] /\ read \in [Inbox(library)!Kinds -> Seq(Nat)]
    /\ \A k \in Inbox(library)!Kinds :
         OfKind(k, Arriving(k), arrived[k], refused[k], read[k], errors, library)

SkipInv ==
  /\ MuxInv /\ RecordsInv
  /\ \A library \in Libraries : part.library = library => InboxInv(library)

-----------------------------------------------------------------------------
(* The buffer of the mux: how much of it is parsed, and what that delivers.    *)

(* Sequences appended to each other in either grouping.                        *)
LEMMA NatGrouping == \A x, y, z \in Seq(Nat) : (x \o y) \o z = x \o (y \o z)
  BY ConcatAssociative, SMTT(60)

LEMMA MaxUpTo ==
    ASSUME NEW n \in Nat, NEW S, S \subseteq 0 .. n, S /= {}
    PROVE  Mux!Max(S) \in S
  <1> DEFINE Above == {m \in Nat : \A x \in S : x <= m}
  <1>1. PICK m \in Above : \A other \in Above : m <= other
    <2>1. n \in Above
      OBVIOUS
    <2> QED BY <2>1, NatMin
  <1>2. m \in S
    <2>1. ASSUME m \notin S PROVE FALSE
      <3>1. m > 0
        <4>1. PICK x \in S : TRUE
          OBVIOUS
        <4> QED BY <1>1, <2>1, <4>1
      <3>2. m - 1 \in Above
        BY <1>1, <2>1, <3>1
      <3> QED BY <1>1, <3>1, <3>2
    <2> QED BY <2>1
  <1>3. \E x \in S : \A y \in S : x >= y
    BY <1>1, <1>2
  <1> QED BY <1>3 DEF Mux!Max

LEMMA ParsesUpTo ==
    ASSUME NEW b, b \in Seq(MuxRecords)
    PROVE  Mux!Parse(b).at \in 0 .. Len(b)
  <1> DEFINE ends == {i \in DOMAIN b : Mux!EndsFrame(b, i)}
             OpenAt(i) == known \cup {b[j].stream : j \in {k \in ends : k < i}}
             QueuedAt(i) == Mux!Queued + Mux!Cardinality({j \in ends : j < i /\ ~Mux!Opens(b[j])})
             refused_ == {i \in ends : ~Mux!Delivers(b[i], OpenAt(i), QueuedAt(i))}
             parsed == {i \in ends : \A j \in refused_ : i < j}
  <1>1. Mux!Parse(b).at = Mux!Max({0} \cup parsed)
    BY DEF Mux!Parse
  <1>2. Len(b) \in Nat /\ {0} \cup parsed \subseteq 0 .. Len(b) /\ {0} \cup parsed /= {}
    <2>1. Len(b) \in Nat /\ DOMAIN b = 1 .. Len(b)
      OBVIOUS
    <2>2. parsed \subseteq 1 .. Len(b)
      BY <2>1
    <2> QED BY <2>1, <2>2
  <1> HIDE DEF parsed
  <1>3. Mux!Max({0} \cup parsed) \in {0} \cup parsed
    BY <1>2, MaxUpTo
  <1> QED BY <1>1, <1>2, <1>3

(* What the frames up to the m-th record have delivered.                       *)
Adds(q, r, s) == IF Carried(r, s) THEN Append(q, r.n) ELSE q
Delivery(f, b, s, m) ==
    /\ f \in [0 .. m -> Seq(Nat)] /\ f[0] = <<>>
    /\ \A i \in 1 .. m : f[i] = Adds(f[i - 1], b[i], s)

LEMMA DeliveryExists ==
    ASSUME NEW b, b \in Seq(MuxRecords), NEW s, NEW m \in 0 .. Len(b)
    PROVE  \E f : Delivery(f, b, s, m)
  <1> DEFINE Missing == {k \in 0 .. Len(b) : ~\E f : Delivery(f, b, s, k)}
  <1>1. ASSUME Missing /= {} PROVE FALSE
    <2>1. PICK k \in Missing : \A other \in Missing : k <= other
      <3>1. Missing \subseteq Nat
        OBVIOUS
      <3> HIDE DEF Missing
      <3> QED BY <1>1, <3>1, NatMin
    <2>2. k /= 0
      <3>1. Delivery([i \in {0} |-> <<>>], b, s, 0)
        <4>1. 0 .. 0 = {0} /\ 1 .. 0 = {}
          OBVIOUS
        <4> QED BY <4>1 DEF Delivery
      <3> QED BY <2>1, <3>1
    <2>3. k \in 1 .. Len(b) /\ k - 1 \in 0 .. Len(b) /\ k - 1 \notin Missing
      BY <2>1, <2>2
    <2>4. PICK f : Delivery(f, b, s, k - 1)
      BY <2>3
    <2> DEFINE q == Adds(f[k - 1], b[k], s)
               g == [i \in 0 .. k |-> IF i = k THEN q ELSE f[i]]
    <2>5. q \in Seq(Nat)
      <3>1. f[k - 1] \in Seq(Nat)
        BY <2>3, <2>4 DEF Delivery
      <3>2. b[k] \in MuxRecords
        BY <2>3, ElementOfSeq
      <3>3. b[k].n \in Nat
        BY <3>2 DEF MuxRecords
      <3> QED BY <3>1, <3>3 DEF Adds
    <2>6. /\ g \in [0 .. k -> Seq(Nat)] /\ g[0] = <<>>
          /\ \A i \in 1 .. k : g[i] = Adds(g[i - 1], b[i], s)
      <3> HIDE DEF q
      <3>1. g \in [0 .. k -> Seq(Nat)]
        BY <2>3, <2>4, <2>5 DEF Delivery
      <3>2. g[0] = <<>>
        BY <2>3, <2>4 DEF Delivery
      <3>3. \A i \in 0 .. k - 1 : g[i] = f[i]
        BY <2>3
      <3>4. \A i \in 1 .. k - 1 : g[i] = Adds(g[i - 1], b[i], s)
        BY <2>3, <2>4, <3>3 DEF Delivery
      <3>5. g[k] = q /\ g[k - 1] = f[k - 1]
        BY <2>3
      <3>6. g[k] = Adds(g[k - 1], b[k], s)
        BY <3>5 DEF q
      <3>7. \A i \in 1 .. k : i \in 1 .. k - 1 \/ i = k
        BY <2>3
      <3> HIDE DEF g
      <3> QED BY <3>1, <3>2, <3>4, <3>6, <3>7
    <2> HIDE DEF g
    <2>7. Delivery(g, b, s, k)
      BY <2>6 DEF Delivery
    <2> QED BY <2>1, <2>7
  <1> QED BY <1>1

LEMMA DeliveredIsDelivery ==
    ASSUME NEW b, b \in Seq(MuxRecords), NEW end, end.at \in 0 .. Len(b), NEW s
    PROVE  \E f : Delivery(f, b, s, end.at) /\ Mux!Delivered(b, end, s) = f[end.at]
  <1> DEFINE m == end.at
             body(f) == [i \in 0 .. m |->
                           IF i = 0 THEN <<>>
                           ELSE IF b[i].stream = s /\ Mux!EndsFrame(b, i) /\ ~Mux!Opens(b[i])
                             THEN Append(f[i - 1], b[i].n)
                           ELSE f[i - 1]]
  <1>1. PICK f : Delivery(f, b, s, m)
    BY DeliveryExists
  <1>2. \A g : \A i \in 1 .. m : body(g)[i] = Adds(g[i - 1], b[i], s)
    <2> SUFFICES ASSUME NEW g, NEW i \in 1 .. m PROVE body(g)[i] = Adds(g[i - 1], b[i], s)
      OBVIOUS
    <2>1. i \in 0 .. m /\ i /= 0
      OBVIOUS
    <2>2. body(g)[i] = IF b[i].stream = s /\ Mux!EndsFrame(b, i) /\ ~Mux!Opens(b[i])
                         THEN Append(g[i - 1], b[i].n) ELSE g[i - 1]
      BY <2>1
    <2>3. b[i].stream = s /\ Mux!EndsFrame(b, i) /\ ~Mux!Opens(b[i]) <=> Carried(b[i], s)
      BY DEF Carried, Mux!EndsFrame, Mux!Opens
    <2> QED BY <2>2, <2>3, Zenon DEF Adds
  <1>3. f = body(f)
    <2>1. f \in [0 .. m -> Seq(Nat)]
      BY <1>1 DEF Delivery
    <2>2. \A i \in 1 .. m : f[i] = body(f)[i]
      BY <1>1, <1>2 DEF Delivery
    <2>3. f[0] = body(f)[0]
      BY <1>1 DEF Delivery
    <2>4. \A i \in 0 .. m : f[i] = body(f)[i]
      <3> HIDE DEF body
      <3> QED BY <2>2, <2>3
    <2> QED BY <2>1, <2>4
  <1> DEFINE g == CHOOSE g : g = body(g)
  <1>4. g = body(g)
    <2> HIDE DEF body
    <2> QED BY <1>3, Zenon
  <1>5. Mux!Delivered(b, end, s) = g[m]
    BY DEF Mux!Delivered
  <1> HIDE DEF g
  <1>6. Delivery(g, b, s, m)
    <2>1. \A i \in 1 .. m : g[i] = Adds(g[i - 1], b[i], s)
      BY <1>2, <1>4
    <2>2. g[0] = <<>>
      BY <1>4
    <2>3. DOMAIN g = 0 .. m /\ g = [i \in 0 .. m |-> g[i]]
      BY <1>4
    <2>4. \A i \in 0 .. m : g[i] = f[i]
      <3> DEFINE Differ == {i \in 0 .. m : g[i] /= f[i]}
      <3>1. ASSUME Differ /= {} PROVE FALSE
        <4>1. PICK i \in Differ : \A j \in Differ : i <= j
          <5>1. Differ \subseteq Nat
            OBVIOUS
          <5> HIDE DEF Differ
          <5> QED BY <3>1, <5>1, NatMin
        <4>2. i /= 0
          BY <1>1, <2>2, <4>1 DEF Delivery
        <4>3. i \in 1 .. m /\ i - 1 \in 0 .. m /\ i - 1 \notin Differ
          BY <4>1, <4>2
        <4>4. g[i - 1] = f[i - 1]
          BY <4>3
        <4>5. f[i] = Adds(f[i - 1], b[i], s)
          BY <1>1, <4>3 DEF Delivery
        <4> QED BY <2>1, <4>1, <4>3, <4>4, <4>5
      <3> QED BY <3>1
    <2>5. g \in [0 .. m -> Seq(Nat)]
      BY <1>1, <2>3, <2>4 DEF Delivery
    <2> QED BY <2>1, <2>2, <2>5 DEF Delivery
  <1> QED BY <1>5, <1>6


(* What the first m records deliver, in terms of the records: of those that    *)
(* carry a message of the stream each, in their order.                         *)
Taken(q, b, s, m) ==
    /\ q \in Seq(Nat)
    /\ \A j \in DOMAIN q : \E i \in 1 .. m : Carried(b[i], s) /\ q[j] = b[i].n
    /\ \A i \in 1 .. m : Carried(b[i], s) => \E j \in DOMAIN q : q[j] = b[i].n
    /\ \A i, j \in DOMAIN q : i < j => q[i] < q[j]
Ordered(b, s) ==
    \A i, j \in DOMAIN b : i < j /\ Carried(b[i], s) /\ Carried(b[j], s) => b[i].n < b[j].n

LEMMA TakenGrows ==
    ASSUME NEW b, b \in Seq(MuxRecords), NEW s, Ordered(b, s), NEW m \in 1 .. Len(b),
           NEW q, Taken(q, b, s, m - 1)
    PROVE  Taken(Adds(q, b[m], s), b, s, m)
  <1>1. b[m] \in MuxRecords /\ DOMAIN b = 1 .. Len(b)
    BY ElementOfSeq
  <1>2. b[m].n \in Nat
    BY <1>1 DEF MuxRecords
  <1>3. \A i \in 1 .. m : i \in 1 .. m - 1 \/ i = m
    OBVIOUS
  <1>4. CASE ~Carried(b[m], s)
    <2>1. Adds(q, b[m], s) = q
      BY <1>4 DEF Adds
    <2>2. \A i \in 1 .. m - 1 : i \in 1 .. m
      OBVIOUS
    <2>3. \A j \in DOMAIN q : \E i \in 1 .. m : Carried(b[i], s) /\ q[j] = b[i].n
      BY <2>2 DEF Taken
    <2>4. \A i \in 1 .. m : Carried(b[i], s) => \E j \in DOMAIN q : q[j] = b[i].n
      <3> SUFFICES ASSUME NEW i \in 1 .. m, Carried(b[i], s) PROVE \E j \in DOMAIN q : q[j] = b[i].n
        OBVIOUS
      <3>1. i \in 1 .. m - 1
        BY <1>3, <1>4
      <3> QED BY <3>1 DEF Taken
    <2>5. Taken(q, b, s, m)
      BY <2>3, <2>4 DEF Taken
    <2> QED BY <2>1, <2>5, Zenon
  <1>5. CASE Carried(b[m], s)
    <2> DEFINE r == Append(q, b[m].n)
    <2>1. Adds(q, b[m], s) = r
      BY <1>5 DEF Adds
    <2>2. q \in Seq(Nat) /\ Len(q) \in Nat
      BY DEF Taken
    <2>3. /\ r \in Seq(Nat) /\ DOMAIN r = 1 .. Len(q) + 1 /\ DOMAIN q = 1 .. Len(q)
          /\ \A j \in 1 .. Len(q) : r[j] = q[j]
          /\ r[Len(q) + 1] = b[m].n
      BY <1>2, <2>2, AppendProperties
    <2> HIDE DEF r
    <2>4. \A j \in DOMAIN q : q[j] < b[m].n
      <3> SUFFICES ASSUME NEW j \in DOMAIN q PROVE q[j] < b[m].n
        OBVIOUS
      <3>1. PICK i \in 1 .. m - 1 : Carried(b[i], s) /\ q[j] = b[i].n
        BY DEF Taken
      <3>2. i \in DOMAIN b /\ m \in DOMAIN b /\ i < m
        BY <1>1
      <3> QED BY <1>5, <3>1, <3>2 DEF Ordered
    <2>5. \A j \in DOMAIN r : \E i \in 1 .. m : Carried(b[i], s) /\ r[j] = b[i].n
      <3> SUFFICES ASSUME NEW j \in DOMAIN r
                   PROVE  \E i \in 1 .. m : Carried(b[i], s) /\ r[j] = b[i].n
        OBVIOUS
      <3>1. CASE j \in 1 .. Len(q)
        <4>1. PICK i \in 1 .. m - 1 : Carried(b[i], s) /\ q[j] = b[i].n
          BY <2>3, <3>1 DEF Taken
        <4> QED BY <2>3, <3>1, <4>1
      <3>2. CASE j = Len(q) + 1
        BY <1>5, <2>3, <3>2
      <3> QED BY <2>2, <2>3, <3>1, <3>2
    <2>6. \A i \in 1 .. m : Carried(b[i], s) => \E j \in DOMAIN r : r[j] = b[i].n
      <3> SUFFICES ASSUME NEW i \in 1 .. m, Carried(b[i], s) PROVE \E j \in DOMAIN r : r[j] = b[i].n
        OBVIOUS
      <3>1. CASE i \in 1 .. m - 1
        <4>1. PICK j \in DOMAIN q : q[j] = b[i].n
          BY <3>1 DEF Taken
        <4>2. j \in DOMAIN r /\ r[j] = q[j]
          BY <2>2, <2>3
        <4> QED BY <4>1, <4>2
      <3>2. CASE i = m
        <4>1. Len(q) + 1 \in DOMAIN r
          BY <2>2, <2>3
        <4> QED BY <2>3, <3>2, <4>1
      <3> QED BY <1>3, <3>1, <3>2
    <2>7. \A i, j \in DOMAIN r : i < j => r[i] < r[j]
      <3> SUFFICES ASSUME NEW i \in DOMAIN r, NEW j \in DOMAIN r, i < j PROVE r[i] < r[j]
        OBVIOUS
      <3>1. i \in 1 .. Len(q)
        BY <2>2, <2>3
      <3>2. CASE j \in 1 .. Len(q)
        BY <2>3, <3>1, <3>2 DEF Taken
      <3>3. CASE j = Len(q) + 1
        BY <2>3, <2>4, <3>1, <3>3
      <3> QED BY <2>2, <2>3, <3>2, <3>3
    <2> QED BY <2>1, <2>3, <2>5, <2>6, <2>7 DEF Taken
  <1> QED BY <1>4, <1>5

LEMMA DeliveredIsTaken ==
    ASSUME NEW b, b \in Seq(MuxRecords), NEW s, Ordered(b, s), NEW end, end.at \in 0 .. Len(b)
    PROVE  Taken(Mux!Delivered(b, end, s), b, s, end.at)
  <1>1. PICK f : Delivery(f, b, s, end.at) /\ Mux!Delivered(b, end, s) = f[end.at]
    BY DeliveredIsDelivery
  <1> DEFINE Wrong == {m \in 0 .. end.at : ~Taken(f[m], b, s, m)}
  <1>2. ASSUME Wrong /= {} PROVE FALSE
    <2>1. PICK m \in Wrong : \A other \in Wrong : m <= other
      <3>1. Wrong \subseteq Nat
        OBVIOUS
      <3> HIDE DEF Wrong
      <3> QED BY <1>2, <3>1, NatMin
    <2>2. m /= 0
      <3>1. Taken(<<>>, b, s, 0)
        BY DEF Taken
      <3> QED BY <1>1, <2>1, <3>1 DEF Delivery
    <2>3. m \in 1 .. end.at /\ m \in 1 .. Len(b) /\ m - 1 \in 0 .. end.at /\ m - 1 \notin Wrong
      BY <2>1, <2>2
    <2>4. Taken(f[m - 1], b, s, m - 1)
      BY <2>3
    <2>5. Taken(f[m], b, s, m)
      <3>1. Taken(Adds(f[m - 1], b[m], s), b, s, m)
        BY <2>3, <2>4, TakenGrows
      <3> QED BY <1>1, <2>3, <3>1 DEF Delivery
    <2> QED BY <2>1, <2>5
  <1>3. Taken(f[end.at], b, s, end.at)
    BY <1>2
  <1> QED BY <1>1, <1>3

(* If each record follows the one before it, so does each message taken.       *)
LEMMA TakenFollows ==
    ASSUME NEW b, b \in Seq(MuxRecords), NEW s, Ordered(b, s), NEW m \in 0 .. Len(b),
           NEW q, Taken(q, b, s, m), NEW seen \in Nat,
           \A i \in 1 .. m : Carried(b[i], s) =>
             \/ b[i].n = seen + 2
             \/ \E j \in DOMAIN b : j < i /\ Carried(b[j], s) /\ b[j].n + 1 = b[i].n
    PROVE  \A j \in DOMAIN q : q[j] = seen + j + 1
  <1> DEFINE Wrong == {j \in DOMAIN q : q[j] /= seen + j + 1}
  <1>0. q \in Seq(Nat) /\ Len(q) \in Nat /\ DOMAIN q = 1 .. Len(q) /\ \A j \in DOMAIN q : q[j] \in Nat
    BY ElementOfSeq DEF Taken
  <1>1. ASSUME Wrong /= {} PROVE FALSE
    <2>1. PICK j \in Wrong : \A other \in Wrong : j <= other
      <3>1. Wrong \subseteq Nat
        BY <1>0
      <3> HIDE DEF Wrong
      <3> QED BY <1>1, <3>1, NatMin
    <2>2. j \in DOMAIN q /\ \A k \in DOMAIN q : k < j => q[k] = seen + k + 1
      BY <1>0, <2>1
    <2>3. PICK i \in 1 .. m : Carried(b[i], s) /\ q[j] = b[i].n
      BY <2>2 DEF Taken
    <2>a. j \in 1 .. Len(q) /\ q[j] \in Nat /\ q[j] /= seen + j + 1
      BY <1>0, <2>1, <2>2
    <2>b. \A k, l \in DOMAIN q : k < l => q[k] < q[l]
      BY DEF Taken
    <2>4. CASE b[i].n = seen + 2
      <3>1. j = 1
        <4>1. ASSUME j > 1 PROVE FALSE
          <5>1. 1 \in DOMAIN q /\ q[1] = seen + 2
            <6>1. 1 \in 1 .. Len(q) /\ 1 < j
              BY <2>a, <4>1
            <6>2. 1 \in DOMAIN q
              BY <1>0, <6>1
            <6>3. q[1] = seen + 1 + 1
              BY <2>2, <6>1, <6>2
            <6> QED BY <6>2, <6>3
          <5>2. q[1] < q[j]
            BY <2>2, <2>b, <4>1, <5>1
          <5> QED BY <2>3, <2>4, <5>1, <5>2
        <4> QED BY <2>a, <4>1
      <3> QED BY <2>3, <2>4, <2>a, <3>1
    <2>5. ASSUME NEW h \in DOMAIN b, h < i, Carried(b[h], s), b[h].n + 1 = b[i].n
          PROVE  FALSE
      <3>1. h \in 1 .. m
        BY <2>5
      <3>2. PICK k \in DOMAIN q : q[k] = b[h].n
        BY <2>5, <3>1 DEF Taken
      <3>a. k \in 1 .. Len(q) /\ q[k] \in Nat /\ q[k] + 1 = q[j]
        BY <1>0, <2>3, <2>5, <3>2
      <3>3. k < j
        <4>1. ~(q[j] < q[k]) /\ q[j] /= q[k]
          BY <2>a, <3>a
        <4>2. ~(j < k)
          BY <2>2, <2>b, <3>2, <4>1
        <4> QED BY <2>a, <3>a, <4>1, <4>2
      <3>4. k = j - 1
        <4>1. ASSUME k < j - 1 PROVE FALSE
          <5>1. j - 1 \in 1 .. Len(q) /\ k < j - 1 /\ j - 1 < j
            BY <2>a, <3>a, <4>1
          <5>2. j - 1 \in DOMAIN q /\ q[j - 1] \in Nat
            BY <1>0, <5>1
          <5>3. q[k] < q[j - 1] /\ q[j - 1] < q[j]
            BY <2>2, <2>b, <3>2, <5>1, <5>2
          <5> QED BY <2>a, <3>a, <5>2, <5>3
        <4> QED BY <2>a, <3>a, <3>3, <4>1
      <3>5. q[k] = seen + k + 1
        BY <2>2, <3>2, <3>3
      <3> QED BY <2>a, <3>a, <3>4, <3>5
    <2> QED BY <2>3, <2>4, <2>5
  <1> QED BY <1>1


-----------------------------------------------------------------------------
(* What a record that is sent, lost or parsed does to a stream.                *)

LEMMA MuxRecordFacts ==
    ASSUME NEW r \in MuxRecords PROVE r.n \in Nat /\ r.good \in BOOLEAN
  BY DEF MuxRecords

LEMMA SentRises ==
    ASSUME NEW flow, flow \in Seq(MuxRecords), NEW seen, seen \in Seq(Nat), NEW s,
           NEW r \in MuxRecords, NEW last \in Nat, NEW next \in Nat, Rising(flow, seen, last, s),
           \/ ~Carried(r, s) /\ next = last
           \/ r.n = last + 1 /\ next = last + 1 /\ (Carried(r, s) \/ r.n = 1)
    PROVE  Rising(Append(flow, r), seen, next, s)
  <1> DEFINE more == Append(flow, r)
  <1>1. /\ Len(flow) \in Nat /\ DOMAIN flow = 1 .. Len(flow) /\ DOMAIN more = 1 .. Len(flow) + 1
        /\ \A i \in 1 .. Len(flow) : more[i] = flow[i]
        /\ more[Len(flow) + 1] = r
    BY AppendProperties
  <1>2. \A i \in DOMAIN seen : seen[i] \in Nat
    BY ElementOfSeq
  <1>3. \A i \in DOMAIN flow : flow[i].n \in Nat
    BY <1>1, ElementOfSeq, MuxRecordFacts
  <1>4. r.n \in Nat /\ last <= next /\ (Carried(r, s) => r.n = last + 1 /\ r.n >= 2 /\ r.n <= next)
    BY MuxRecordFacts DEF Carried
  <1> HIDE DEF more
  <1>5. \A i \in DOMAIN seen : seen[i] >= 2 /\ seen[i] <= next
    BY <1>2, <1>4 DEF Rising
  <1>6. \A i, j \in DOMAIN seen : i < j => seen[i] < seen[j]
    BY DEF Rising
  <1>7. ASSUME NEW i \in DOMAIN more, Carried(more[i], s)
        PROVE  /\ more[i].n >= 2 /\ more[i].n <= next
               /\ \A j \in DOMAIN seen : seen[j] < more[i].n
               /\ \A j \in DOMAIN more : i < j /\ Carried(more[j], s) => more[i].n < more[j].n
    <2>1. CASE i \in DOMAIN flow
      <3>1. more[i] = flow[i]
        BY <1>1, <2>1
      <3>2. /\ flow[i].n >= 2 /\ flow[i].n <= last
            /\ \A j \in DOMAIN seen : seen[j] < flow[i].n
            /\ \A j \in DOMAIN flow : i < j /\ Carried(flow[j], s) => flow[i].n < flow[j].n
        BY <1>7, <2>1, <3>1 DEF Rising
      <3>3. ASSUME NEW j \in DOMAIN more, i < j, Carried(more[j], s) PROVE more[i].n < more[j].n
        <4>1. CASE j \in DOMAIN flow
          BY <1>1, <3>1, <3>2, <3>3, <4>1
        <4>2. CASE j = Len(flow) + 1
          <5>1. more[j] = r
            BY <1>1, <4>2
          <5> QED BY <1>3, <1>4, <2>1, <3>1, <3>2, <3>3, <5>1
        <4> QED BY <1>1, <3>3, <4>1, <4>2
      <3> QED BY <1>3, <1>4, <2>1, <3>1, <3>2, <3>3
    <2>2. CASE i = Len(flow) + 1
      <3>1. more[i] = r
        BY <1>1, <2>2
      <3>2. \A j \in DOMAIN seen : seen[j] < r.n
        BY <1>2, <1>4, <1>7, <3>1 DEF Rising
      <3>3. \A j \in DOMAIN more : ~(i < j)
        BY <1>1, <2>2
      <3> QED BY <1>4, <1>7, <3>1, <3>2, <3>3
    <2> QED BY <1>1, <1>7, <2>1, <2>2
  <1>8. Rising(more, seen, next, s)
    BY <1>5, <1>6, <1>7 DEF Rising
  <1> QED BY <1>8 DEF more

LEMMA SentFollows ==
    ASSUME NEW flow, flow \in Seq(MuxRecords), NEW seen, seen \in Seq(Nat), NEW s,
           NEW r \in MuxRecords, NEW last \in Nat, NEW next \in Nat, Rising(flow, seen, last, s),
           \/ ~Carried(r, s) /\ next = last
           \/ r.n = last + 1 /\ next = last + 1 /\ (Carried(r, s) \/ r.n = 1),
           Gapless(flow, seen, s), r.good => Reaches(flow, seen, last, s)
    PROVE  /\ Gapless(Append(flow, r), seen, s)
           /\ r.good => Reaches(Append(flow, r), seen, next, s)
  <1> DEFINE more == Append(flow, r)
  <1>1. /\ Len(flow) \in Nat /\ DOMAIN flow = 1 .. Len(flow) /\ DOMAIN more = 1 .. Len(flow) + 1
        /\ \A i \in 1 .. Len(flow) : more[i] = flow[i]
        /\ more[Len(flow) + 1] = r
    BY AppendProperties
  <1>2. Len(seen) \in Nat /\ DOMAIN seen = 1 .. Len(seen) /\ r.n \in Nat
    BY MuxRecordFacts
  <1> HIDE DEF more
  <1>3. ASSUME last = 0 PROVE seen = <<>> /\ Len(seen) = 0
    <2>1. \A i \in DOMAIN seen : seen[i] \in Nat /\ seen[i] >= 2 /\ seen[i] <= 0
      BY <1>3, ElementOfSeq DEF Rising
    <2>2. DOMAIN seen = {}
      BY <2>1
    <2>3. Len(seen) = 0
      <3>1. 1 \notin 1 .. Len(seen)
        BY <1>2, <2>2
      <3> QED BY <1>2, <3>1
    <2> QED BY <2>3, EmptySeq
  <1>4. ASSUME NEW i \in DOMAIN more, Carried(more[i], s), more[i].good
        PROVE  \/ more[i].n = Len(seen) + 2
               \/ \E j \in DOMAIN more : j < i /\ Carried(more[j], s) /\ more[j].n + 1 = more[i].n
    <2>1. CASE i \in DOMAIN flow
      <3>1. more[i] = flow[i]
        BY <1>1, <2>1
      <3>2. CASE more[i].n = Len(seen) + 2
        BY <3>2
      <3>3. CASE \E j \in DOMAIN flow : j < i /\ Carried(flow[j], s) /\ flow[j].n + 1 = flow[i].n
        <4>1. PICK j \in DOMAIN flow : j < i /\ Carried(flow[j], s) /\ flow[j].n + 1 = flow[i].n
          BY <3>3
        <4>2. j \in DOMAIN more /\ more[j] = flow[j]
          BY <1>1
        <4> QED BY <3>1, <4>1, <4>2
      <3> QED BY <1>4, <2>1, <3>1, <3>2, <3>3 DEF Gapless
    <2>2. CASE i = Len(flow) + 1
      <3>1. more[i] = r
        BY <1>1, <2>2
      <3>2. r.n = last + 1 /\ r.n /= 1 /\ Reaches(flow, seen, last, s)
        BY <1>4, <3>1 DEF Carried
      <3>3. CASE last = Len(seen) + 1
        BY <1>2, <3>1, <3>2, <3>3
      <3>4. CASE \E j \in DOMAIN flow : Carried(flow[j], s) /\ flow[j].n = last
        <4>1. PICK j \in DOMAIN flow : Carried(flow[j], s) /\ flow[j].n = last
          BY <3>4
        <4>2. j \in DOMAIN more /\ more[j] = flow[j] /\ j < i
          BY <1>1, <2>2
        <4> QED BY <3>1, <3>2, <4>1, <4>2
      <3> QED BY <3>2, <3>3, <3>4 DEF Reaches
    <2> QED BY <1>1, <1>4, <2>1, <2>2
  <1>5. Gapless(more, seen, s)
    BY <1>4 DEF Gapless
  <1>6. ASSUME r.good PROVE Reaches(more, seen, next, s)
    <2>1. CASE next = last
      <3>1. CASE \E j \in DOMAIN flow : Carried(flow[j], s) /\ flow[j].n = last
        <4>1. PICK j \in DOMAIN flow : Carried(flow[j], s) /\ flow[j].n = last
          BY <3>1
        <4>2. j \in DOMAIN more /\ more[j] = flow[j]
          BY <1>1
        <4> QED BY <2>1, <4>1, <4>2 DEF Reaches
      <3>2. CASE last = 0 \/ last = Len(seen) + 1
        BY <2>1, <3>2 DEF Reaches
      <3> QED BY <1>6, <3>1, <3>2 DEF Reaches
    <2>2. CASE r.n = next /\ Carried(r, s)
      <3>1. Len(flow) + 1 \in DOMAIN more
        BY <1>1
      <3> QED BY <1>1, <2>2, <3>1 DEF Reaches
    <2>3. CASE next = last + 1 /\ r.n = last + 1 /\ r.n = 1
      <3>1. last = 0
        BY <2>3
      <3>2. next = Len(seen) + 1
        BY <1>3, <2>3, <3>1
      <3> QED BY <3>2 DEF Reaches
    <2> QED BY <2>1, <2>2, <2>3
  <1> QED BY <1>5, <1>6 DEF more

(* Records of which some are gone.                                             *)
LEMMA FewerRise ==
    ASSUME NEW flow, NEW rest, NEW seen, NEW s, NEW last, Rising(flow, seen, last, s),
           NEW h, \A i \in DOMAIN rest : h[i] \in DOMAIN flow /\ rest[i] = flow[h[i]],
           \A i, j \in DOMAIN rest : i < j => h[i] < h[j]
    PROVE  Rising(rest, seen, last, s)
  BY Zenon DEF Rising


(* The first records are parsed: their messages have been seen then.           *)
LEMMA SeenMore ==
    ASSUME NEW seen, seen \in Seq(Nat), NEW q, q \in Seq(Nat)
    PROVE  /\ seen \o q \in Seq(Nat) /\ Len(seen \o q) = Len(seen) + Len(q)
           /\ DOMAIN seen = 1 .. Len(seen) /\ DOMAIN q = 1 .. Len(q)
           /\ DOMAIN (seen \o q) = 1 .. Len(seen) + Len(q)
           /\ \A i \in DOMAIN seen : (seen \o q)[i] = seen[i] /\ seen[i] \in Nat
           /\ \A i \in DOMAIN q : (seen \o q)[Len(seen) + i] = q[i] /\ q[i] \in Nat
           /\ \A i \in DOMAIN (seen \o q) : i \in DOMAIN seen \/ i - Len(seen) \in DOMAIN q
           /\ Len(seen) \in Nat /\ Len(q) \in Nat
  <1>1. Len(seen) \in Nat /\ Len(q) \in Nat /\ DOMAIN seen = 1 .. Len(seen) /\ DOMAIN q = 1 .. Len(q)
    OBVIOUS
  <1>2. seen \o q \in Seq(Nat) /\ Len(seen \o q) = Len(seen) + Len(q)
    BY ConcatProperties
  <1>3. DOMAIN (seen \o q) = 1 .. Len(seen) + Len(q)
    BY <1>2, LenProperties
  <1>4. \A i \in 1 .. Len(seen) + Len(q) :
          (seen \o q)[i] = IF i <= Len(seen) THEN seen[i] ELSE q[i - Len(seen)]
    BY ConcatProperties
  <1>5. (\A i \in DOMAIN seen : seen[i] \in Nat) /\ (\A i \in DOMAIN q : q[i] \in Nat)
    BY ElementOfSeq
  <1>6. \A i \in DOMAIN seen : (seen \o q)[i] = seen[i]
    BY <1>1, <1>4
  <1>7. \A i \in DOMAIN q : (seen \o q)[Len(seen) + i] = q[i]
    <2> SUFFICES ASSUME NEW i \in DOMAIN q PROVE (seen \o q)[Len(seen) + i] = q[i]
      OBVIOUS
    <2>1. Len(seen) + i \in 1 .. Len(seen) + Len(q) /\ ~(Len(seen) + i <= Len(seen))
          /\ Len(seen) + i - Len(seen) = i
      BY <1>1
    <2> QED BY <1>4, <2>1
  <1>8. \A i \in DOMAIN (seen \o q) : i \in DOMAIN seen \/ i - Len(seen) \in DOMAIN q
    BY <1>1, <1>3
  <1> QED BY <1>1, <1>2, <1>3, <1>5, <1>6, <1>7, <1>8

LEMMA RestOf ==
    ASSUME NEW flow, flow \in Seq(MuxRecords), NEW place \in 0 .. Len(flow)
    PROVE  /\ SubSeq(flow, place + 1, Len(flow)) \in Seq(MuxRecords)
           /\ DOMAIN SubSeq(flow, place + 1, Len(flow)) = 1 .. Len(flow) - place
           /\ \A i \in 1 .. Len(flow) - place : SubSeq(flow, place + 1, Len(flow))[i] = flow[place + i]
           /\ Len(flow) \in Nat /\ DOMAIN flow = 1 .. Len(flow)
  <1>1. Len(flow) \in Nat /\ DOMAIN flow = 1 .. Len(flow)
    OBVIOUS
  <1>2. \A i \in place + 1 .. Len(flow) : flow[i] \in MuxRecords
    BY <1>1, ElementOfSeq
  <1> DEFINE rest == SubSeq(flow, place + 1, Len(flow))
  <1>3. /\ rest \in Seq(MuxRecords)
        /\ Len(rest) = IF place + 1 <= Len(flow) THEN Len(flow) - (place + 1) + 1 ELSE 0
        /\ \A i \in 1 .. Len(flow) - (place + 1) + 1 : rest[i] = flow[place + 1 + i - 1]
    <2>1. place + 1 \in Int /\ Len(flow) \in Int
      BY <1>1
    <2> QED BY <1>2, <2>1, SubSeqProperties
  <1> HIDE DEF rest
  <1>4. Len(rest) = Len(flow) - place /\ DOMAIN rest = 1 .. Len(rest)
    <2>1. DOMAIN rest = 1 .. Len(rest)
      BY <1>3, LenProperties
    <2>2. Len(rest) = IF place + 1 <= Len(flow) THEN Len(flow) - (place + 1) + 1 ELSE 0
      BY <1>3, SMTT(30)
    <2>3. PICK n \in Nat : n = Len(flow)
      BY <1>1
    <2>4. PICK m : m = Len(rest)
      OBVIOUS
    <2>5. m = IF place + 1 <= n THEN n - (place + 1) + 1 ELSE 0
      BY <2>2, <2>3, <2>4, Zenon
    <2>6. place \in 0 .. n
      BY <2>3, Zenon
    <2>7. m = n - place
      BY <2>5, <2>6
    <2> QED BY <2>1, <2>3, <2>4, <2>7, Zenon
  <1>5. \A i \in 1 .. Len(flow) - place : rest[i] = flow[place + i]
    <2> SUFFICES ASSUME NEW i \in 1 .. Len(flow) - place PROVE rest[i] = flow[place + i]
      OBVIOUS
    <2>1. i \in 1 .. Len(flow) - (place + 1) + 1 /\ place + 1 + i - 1 = place + i
      BY <1>1
    <2> QED BY <1>3, <2>1
  <1>6. rest \in Seq(MuxRecords) /\ DOMAIN rest = 1 .. Len(flow) - place
    BY <1>3, <1>4
  <1> QED BY <1>1, <1>5, <1>6 DEF rest

LEMMA ParsedRises ==
    ASSUME NEW flow, flow \in Seq(MuxRecords), NEW seen, seen \in Seq(Nat), NEW s, NEW last \in Nat,
           Rising(flow, seen, last, s), NEW place \in 0 .. Len(flow), NEW q, Taken(q, flow, s, place)
    PROVE  Rising(SubSeq(flow, place + 1, Len(flow)), seen \o q, last, s)
  <1> DEFINE rest == SubSeq(flow, place + 1, Len(flow))
             all == seen \o q
             h == [i \in 1 .. Len(flow) - place |-> place + i]
  <1>1. /\ DOMAIN rest = 1 .. Len(flow) - place /\ Len(flow) \in Nat /\ DOMAIN flow = 1 .. Len(flow)
        /\ \A i \in 1 .. Len(flow) - place : rest[i] = flow[place + i]
    BY RestOf
  <1>2. Rising(rest, seen, last, s)
    <2>3. \A i \in 1 .. Len(flow) - place : h[i] = place + i
      BY Zenon
    <2> HIDE DEF rest, h
    <2>4. PICK n \in Nat : n = Len(flow)
      BY <1>1
    <2>5. \A i \in 1 .. n - place : place + i \in 1 .. n
      BY <2>4
    <2>1. \A i \in DOMAIN rest : h[i] \in DOMAIN flow /\ rest[i] = flow[h[i]]
      BY <1>1, <2>3, <2>4, <2>5, Zenon
    <2>6. \A i, j \in 1 .. n - place : i < j => place + i < place + j
      BY <2>4
    <2>2. \A i, j \in DOMAIN rest : i < j => h[i] < h[j]
      <3> SUFFICES ASSUME NEW i \in DOMAIN rest, NEW j \in DOMAIN rest, i < j PROVE h[i] < h[j]
        OBVIOUS
      <3>1. i \in 1 .. n - place /\ j \in 1 .. n - place
        BY <1>1, <2>4, Zenon
      <3>2. h[i] = place + i /\ h[j] = place + j
        BY <2>3, <2>4, <3>1, Zenon
      <3>3. place + i < place + j
        BY <2>6, <3>1, Zenon
      <3> QED BY <3>2, <3>3, Zenon
    <2> QED BY <2>1, <2>2, FewerRise
  <1>3. /\ q \in Seq(Nat) /\ Len(seen) \in Nat
        /\ DOMAIN seen = 1 .. Len(seen) /\ DOMAIN q = 1 .. Len(q)
        /\ \A i \in DOMAIN seen : all[i] = seen[i] /\ seen[i] \in Nat
        /\ \A i \in DOMAIN q : all[Len(seen) + i] = q[i] /\ q[i] \in Nat
        /\ \A i \in DOMAIN all : i \in DOMAIN seen \/ i - Len(seen) \in DOMAIN q
    BY SeenMore DEF Taken
  <1>4. \A j \in DOMAIN q : /\ q[j] >= 2 /\ q[j] <= last
                            /\ \A i \in DOMAIN seen : seen[i] < q[j]
                            /\ \A i \in DOMAIN rest : Carried(rest[i], s) => q[j] < rest[i].n
    <2> SUFFICES ASSUME NEW j \in DOMAIN q
                 PROVE  /\ q[j] >= 2 /\ q[j] <= last
                        /\ \A i \in DOMAIN seen : seen[i] < q[j]
                        /\ \A i \in DOMAIN rest : Carried(rest[i], s) => q[j] < rest[i].n
      OBVIOUS
    <2>1. PICK k \in 1 .. place : Carried(flow[k], s) /\ q[j] = flow[k].n
      BY DEF Taken
    <2>2. k \in DOMAIN flow
      BY <1>1
    <2>3. /\ flow[k].n >= 2 /\ flow[k].n <= last
          /\ \A i \in DOMAIN seen : seen[i] < flow[k].n
          /\ \A i \in DOMAIN flow : k < i /\ Carried(flow[i], s) => flow[k].n < flow[i].n
      BY <2>1, <2>2 DEF Rising
    <2>4. ASSUME NEW i \in DOMAIN rest, Carried(rest[i], s) PROVE q[j] < rest[i].n
      <3>1. i \in 1 .. Len(flow) - place /\ rest[i] = flow[place + i]
        BY <1>1
      <3>2. place + i \in DOMAIN flow /\ k < place + i
        BY <1>1, <3>1
      <3> HIDE DEF rest
      <3> QED BY <2>1, <2>3, <2>4, <3>1, <3>2
    <2> HIDE DEF rest
    <2> QED BY <2>1, <2>3, <2>4
  <1> HIDE DEF rest, all
  <1>5. \A i \in DOMAIN all : all[i] >= 2 /\ all[i] <= last
    <2> SUFFICES ASSUME NEW i \in DOMAIN all PROVE all[i] >= 2 /\ all[i] <= last
      OBVIOUS
    <2>1. CASE i \in DOMAIN seen
      BY <1>3, <2>1 DEF Rising
    <2>2. CASE i - Len(seen) \in DOMAIN q
      <3>1. all[i] = q[i - Len(seen)]
        <4>1. PICK j \in DOMAIN q : j = i - Len(seen)
          BY <2>2
        <4>2. i = Len(seen) + j
          <5>1. j \in Nat
            BY <1>3
          <5>2. i \in Int
            BY <1>3, SeenMore DEF all
          <5> QED BY <1>3, <4>1, <5>1, <5>2
        <4> QED BY <1>3, <4>1, <4>2
      <3> QED BY <1>4, <2>2, <3>1
    <2> QED BY <1>3, <2>1, <2>2
  <1>6. \A i, j \in DOMAIN all : i < j => all[i] < all[j]
    <2> SUFFICES ASSUME NEW i \in DOMAIN all, NEW j \in DOMAIN all, i < j PROVE all[i] < all[j]
      OBVIOUS
    <2>0. i \in Nat /\ j \in Nat
      BY <1>3, SeenMore DEF all
    <2>1. CASE i \in DOMAIN seen /\ j \in DOMAIN seen
      <3>1. seen[i] < seen[j]
        BY <2>1 DEF Rising
      <3> QED BY <1>3, <2>1, <3>1
    <2>2. CASE i \in DOMAIN seen /\ j - Len(seen) \in DOMAIN q
      <3>1. PICK m \in DOMAIN q : m = j - Len(seen)
        BY <2>2
      <3>2. j = Len(seen) + m
        BY <1>3, <2>0, <3>1
      <3>3. all[j] = q[m] /\ all[i] = seen[i] /\ seen[i] < q[m]
        BY <1>3, <1>4, <2>2, <3>2
      <3> QED BY <3>3
    <2>3. CASE i - Len(seen) \in DOMAIN q /\ j - Len(seen) \in DOMAIN q
      <3>1. PICK k \in DOMAIN q, m \in DOMAIN q : k = i - Len(seen) /\ m = j - Len(seen)
        BY <2>3
      <3>2. i = Len(seen) + k /\ j = Len(seen) + m /\ k < m
        BY <1>3, <2>0, <3>1
      <3>3. q[k] < q[m]
        BY <3>2 DEF Taken
      <3> QED BY <1>3, <3>2, <3>3
    <2>4. ~(j \in DOMAIN seen /\ i - Len(seen) \in DOMAIN q)
      BY <1>3, <2>0
    <2> QED BY <1>3, <2>1, <2>2, <2>3, <2>4
  <1>7. ASSUME NEW i \in DOMAIN rest, Carried(rest[i], s)
        PROVE  /\ rest[i].n >= 2 /\ rest[i].n <= last
               /\ \A j \in DOMAIN all : all[j] < rest[i].n
               /\ \A j \in DOMAIN rest : i < j /\ Carried(rest[j], s) => rest[i].n < rest[j].n
    <2>1. ASSUME NEW j \in DOMAIN all PROVE all[j] < rest[i].n
      <3>1. CASE j \in DOMAIN seen
        BY <1>2, <1>3, <1>7, <3>1 DEF Rising
      <3>2. CASE j - Len(seen) \in DOMAIN q
        <4>1. PICK m \in DOMAIN q : m = j - Len(seen)
          BY <3>2
        <4>2. j = Len(seen) + m
          <5>1. j \in Nat
            BY SeenMore DEF all, Taken
          <5> QED BY <1>3, <4>1, <5>1
        <4> QED BY <1>3, <1>4, <1>7, <4>2
      <3> QED BY <1>3, <3>1, <3>2
    <2> QED BY <1>2, <1>7, <2>1 DEF Rising
  <1>8. Rising(rest, all, last, s)
    BY <1>5, <1>6, <1>7 DEF Rising
  <1> QED BY <1>8 DEF rest, all


LEMMA ParsedFollows ==
    ASSUME NEW flow, flow \in Seq(MuxRecords), NEW seen, seen \in Seq(Nat), NEW s, NEW last \in Nat,
           Rising(flow, seen, last, s), NEW place \in 0 .. Len(flow), NEW q, Taken(q, flow, s, place),
           Gapless(flow, seen, s), \A i \in 1 .. place : flow[i].good
    PROVE  /\ Gapless(SubSeq(flow, place + 1, Len(flow)), seen \o q, s)
           /\ Reaches(flow, seen, last, s)
              => Reaches(SubSeq(flow, place + 1, Len(flow)), seen \o q, last, s)
  <1> DEFINE rest == SubSeq(flow, place + 1, Len(flow))
             all == seen \o q
  <1>1. /\ DOMAIN rest = 1 .. Len(flow) - place /\ Len(flow) \in Nat /\ DOMAIN flow = 1 .. Len(flow)
        /\ \A i \in 1 .. Len(flow) - place : rest[i] = flow[place + i]
    BY RestOf
  <1>2. /\ q \in Seq(Nat) /\ Len(seen) \in Nat /\ Len(q) \in Nat
        /\ DOMAIN seen = 1 .. Len(seen) /\ DOMAIN q = 1 .. Len(q)
        /\ DOMAIN all = 1 .. Len(seen) + Len(q) /\ Len(all) = Len(seen) + Len(q)
        /\ \A i \in DOMAIN seen : all[i] = seen[i] /\ seen[i] \in Nat
        /\ \A i \in DOMAIN q : all[Len(seen) + i] = q[i] /\ q[i] \in Nat
        /\ \A i \in DOMAIN all : i \in DOMAIN seen \/ i - Len(seen) \in DOMAIN q
    BY SeenMore DEF Taken
  <1> HIDE DEF rest, all
  <1>3. Ordered(flow, s)
    BY DEF Rising, Ordered
  <1>4. \A j \in DOMAIN q : q[j] = Len(seen) + j + 1
    <2>1. ASSUME NEW i \in 1 .. place, Carried(flow[i], s)
          PROVE  \/ flow[i].n = Len(seen) + 2
                 \/ \E j \in DOMAIN flow : j < i /\ Carried(flow[j], s) /\ flow[j].n + 1 = flow[i].n
      <3>1. i \in DOMAIN flow
        BY <1>1
      <3> QED BY <2>1, <3>1 DEF Gapless
    <2> DEFINE count == Len(seen)
    <2>2. \A i \in 1 .. place : Carried(flow[i], s) =>
            \/ flow[i].n = count + 2
            \/ \E j \in DOMAIN flow : j < i /\ Carried(flow[j], s) /\ flow[j].n + 1 = flow[i].n
      BY <2>1
    <2>3. count \in Nat
      BY <1>2
    <2> HIDE DEF count
    <2>4. \A j \in DOMAIN q : q[j] = count + j + 1
      BY <1>3, <2>2, <2>3, TakenFollows, SMTT(30)
    <2> QED BY <2>4 DEF count
  (* Whatever comes after the records taken is the next one or later. *)
  <1>5. \A k \in 1 .. place : Carried(flow[k], s) =>
          \E j \in DOMAIN q : q[j] = flow[k].n
    BY DEF Taken
  <1>6. ASSUME NEW k \in 1 .. place, Carried(flow[k], s), NEW m \in Nat, flow[k].n = m,
               \A j \in DOMAIN q : q[j] <= m
        PROVE  m = Len(seen) + Len(q) + 1
    <2>1. PICK j \in DOMAIN q : q[j] = m
      BY <1>5, <1>6
    <2>2. j \in 1 .. Len(q) /\ m = Len(seen) + j + 1
      BY <1>2, <1>4, <2>1
    <2>3. j = Len(q)
      <3>1. ASSUME j < Len(q) PROVE FALSE
        <4>1. j + 1 \in 1 .. Len(q)
          BY <2>2, <3>1
        <4>2. q[j + 1] = Len(seen) + (j + 1) + 1 /\ q[j + 1] <= m
          BY <1>2, <1>4, <1>6, <4>1
        <4> QED BY <1>2, <2>2, <4>2
      <3> QED BY <1>2, <2>2, <3>1
    <2> QED BY <1>2, <2>2, <2>3
  <1>7. ASSUME NEW i \in DOMAIN rest, Carried(rest[i], s), rest[i].good
        PROVE  \/ rest[i].n = Len(all) + 2
               \/ \E j \in DOMAIN rest : j < i /\ Carried(rest[j], s) /\ rest[j].n + 1 = rest[i].n
    <2>1. i \in 1 .. Len(flow) - place /\ rest[i] = flow[place + i] /\ place + i \in DOMAIN flow
      BY <1>1
    <2>2. flow[place + i] \in MuxRecords /\ flow[place + i].n \in Nat
      BY <1>1, <2>1, ElementOfSeq, MuxRecordFacts
    <2>3. \A j \in DOMAIN q : q[j] < flow[place + i].n
      <3> SUFFICES ASSUME NEW j \in DOMAIN q PROVE q[j] < flow[place + i].n
        OBVIOUS
      <3>1. PICK k \in 1 .. place : Carried(flow[k], s) /\ q[j] = flow[k].n
        BY DEF Taken
      <3>2. k \in DOMAIN flow /\ k < place + i
        BY <1>1, <2>1
      <3> QED BY <1>7, <2>1, <3>1, <3>2 DEF Rising
    <2>4. CASE flow[place + i].n = Len(seen) + 2
      <3>1. Len(q) = 0
        <4>1. ASSUME Len(q) > 0 PROVE FALSE
          <5>1. 1 \in DOMAIN q
            BY <1>2, <4>1
          <5>2. q[1] = Len(seen) + 1 + 1 /\ q[1] < flow[place + i].n
            BY <1>4, <2>3, <5>1
          <5> QED BY <1>2, <2>4, <5>2
        <4> QED BY <1>2, <4>1
      <3> QED BY <1>2, <2>1, <2>4, <3>1
    <2>5. ASSUME NEW k \in DOMAIN flow, k < place + i, Carried(flow[k], s), flow[k].n + 1 = flow[place + i].n
          PROVE  \/ rest[i].n = Len(all) + 2
                 \/ \E j \in DOMAIN rest : j < i /\ Carried(rest[j], s) /\ rest[j].n + 1 = rest[i].n
      <3>1. CASE k > place
        <4>1. k - place \in DOMAIN rest /\ k - place < i
          BY <1>1, <2>1, <2>5, <3>1
        <4>2. rest[k - place] = flow[k]
          <5>1. k - place \in 1 .. Len(flow) - place /\ place + (k - place) = k
            BY <1>1, <3>1
          <5> QED BY <1>1, <5>1
        <4> QED BY <2>1, <2>5, <4>1, <4>2
      <3>2. CASE k \in 1 .. place
        <4>1. flow[k].n \in Nat
          BY <1>1, <2>5, ElementOfSeq, MuxRecordFacts
        <4>2. \A j \in DOMAIN q : q[j] <= flow[k].n
          BY <1>2, <2>2, <2>3, <2>5, <4>1
        <4>3. flow[k].n = Len(seen) + Len(q) + 1
          BY <1>6, <2>5, <3>2, <4>1, <4>2
        <4> QED BY <1>2, <2>1, <2>5, <4>3
      <3> QED BY <1>1, <2>5, <3>1, <3>2
    <2> QED BY <1>7, <2>1, <2>4, <2>5 DEF Gapless
  <1>8. \A i \in DOMAIN all : all[i] = i + 1
    <2> SUFFICES ASSUME NEW i \in DOMAIN all PROVE all[i] = i + 1
      OBVIOUS
    <2>1. CASE i \in DOMAIN seen
      BY <1>2, <2>1 DEF Gapless
    <2>2. CASE i - Len(seen) \in DOMAIN q
      <3>1. PICK j \in DOMAIN q : j = i - Len(seen)
        BY <2>2
      <3>2. i = Len(seen) + j /\ j \in Nat
        BY <1>2, <3>1
      <3>3. all[Len(seen) + j] = q[j] /\ q[j] = Len(seen) + j + 1
        BY <1>2, <1>4
      <3> QED BY <1>2, <3>2, <3>3
    <2> QED BY <1>2, <2>1, <2>2
  <1>9. Gapless(rest, all, s)
    BY <1>7, <1>8 DEF Gapless
  <1>10. ASSUME Reaches(flow, seen, last, s) PROVE Reaches(rest, all, last, s)
    <2>1. \A j \in DOMAIN q : q[j] <= last
      <3> SUFFICES ASSUME NEW j \in DOMAIN q PROVE q[j] <= last
        OBVIOUS
      <3>1. PICK k \in 1 .. place : Carried(flow[k], s) /\ q[j] = flow[k].n
        BY DEF Taken
      <3>2. k \in DOMAIN flow
        BY <1>1
      <3> QED BY <3>1, <3>2 DEF Rising
    <2>2. CASE last = 0
      BY <2>2 DEF Reaches
    <2>3. CASE last = Len(seen) + 1
      <3>1. Len(q) = 0
        <4>1. ASSUME Len(q) > 0 PROVE FALSE
          <5>1. 1 \in DOMAIN q
            BY <1>2, <4>1
          <5>2. q[1] = Len(seen) + 1 + 1 /\ q[1] <= last
            BY <1>4, <2>1, <5>1
          <5> QED BY <1>2, <2>3, <5>2
        <4> QED BY <1>2, <4>1
      <3>2. last = Len(all) + 1
        BY <1>2, <2>3, <3>1
      <3> QED BY <3>2 DEF Reaches
    <2>4. ASSUME NEW k \in DOMAIN flow, Carried(flow[k], s), flow[k].n = last
          PROVE  Reaches(rest, all, last, s)
      <3>1. CASE k > place
        <4>1. k - place \in 1 .. Len(flow) - place /\ place + (k - place) = k
          BY <1>1, <3>1
        <4>2. k - place \in DOMAIN rest /\ rest[k - place] = flow[k]
          BY <1>1, <4>1
        <4> QED BY <2>4, <4>2 DEF Reaches
      <3>2. CASE k \in 1 .. place
        <4>1. last = Len(seen) + Len(q) + 1
          BY <1>6, <2>1, <2>4, <3>2
        <4>2. last = Len(all) + 1
          BY <1>2, <4>1
        <4> QED BY <4>2 DEF Reaches
      <3> QED BY <1>1, <3>1, <3>2
    <2> QED BY <1>10, <2>2, <2>3, <2>4 DEF Reaches
  <1> QED BY <1>9, <1>10 DEF rest, all


-----------------------------------------------------------------------------
(* The steps of the mux.                                                       *)

(* What is taken from a queue and given to the reader stays what was seen.     *)
LEMMA HeadIsSeen ==
    ASSUME NEW s, s \in Seq(Nat), NEW q, q \in Seq(Nat), q /= <<>>
    PROVE  /\ Append(s, Head(q)) \o Tail(q) = s \o q
           /\ Append(s, Head(q)) \in Seq(Nat) /\ Tail(q) \in Seq(Nat)
  <1>1. /\ Head(q) \in Nat /\ Tail(q) \in Seq(Nat) /\ Len(Tail(q)) = Len(q) - 1
        /\ \A i \in 1 .. Len(Tail(q)) : Tail(q)[i] = q[i + 1]
    BY HeadTailProperties
  <1>2. Head(q) = q[1] /\ Len(q) \in Nat /\ Len(q) > 0 /\ Len(s) \in Nat
    BY EmptySeq
  <1>a. Len(q) \in Nat /\ Len(q) > 0 /\ Len(s) \in Nat
    BY <1>2
  <1> DEFINE t == Append(s, Head(q))
             r == Tail(q)
  <1>3. /\ t \in Seq(Nat) /\ Len(t) = Len(s) + 1
        /\ \A i \in 1 .. Len(s) : t[i] = s[i] /\ t[Len(s) + 1] = q[1]
        /\ t[Len(s) + 1] = q[1]
    BY <1>1, <1>2, AppendProperties
  <1>4. /\ r \in Seq(Nat) /\ Len(r) = Len(q) - 1 /\ \A i \in 1 .. Len(r) : r[i] = q[i + 1]
    BY <1>1
  <1> HIDE DEF t, r
  <1>5. /\ t \o r \in Seq(Nat) /\ Len(t \o r) = Len(t) + Len(r)
        /\ \A i \in 1 .. Len(t) + Len(r) : (t \o r)[i] = IF i <= Len(t) THEN t[i] ELSE r[i - Len(t)]
    BY <1>3, <1>4, ConcatProperties
  <1>6. /\ s \o q \in Seq(Nat) /\ Len(s \o q) = Len(s) + Len(q)
        /\ \A i \in 1 .. Len(s) + Len(q) : (s \o q)[i] = IF i <= Len(s) THEN s[i] ELSE q[i - Len(s)]
    BY ConcatProperties
  <1>7. Len(t \o r) = Len(s \o q)
    BY <1>2, <1>3, <1>4, <1>5, <1>6
  <1>8. \A i \in 1 .. Len(t \o r) : (t \o r)[i] = (s \o q)[i]
    <2> SUFFICES ASSUME NEW i \in 1 .. Len(s) + Len(q) PROVE (t \o r)[i] = (s \o q)[i]
      BY <1>6, <1>7
    <2>1. (t \o r)[i] = IF i <= Len(s) + 1 THEN t[i] ELSE r[i - (Len(s) + 1)]
      <3>1. Len(t) = Len(s) + 1
        BY <1>3
      <3>2. i \in 1 .. Len(t) + Len(r)
        BY <1>2, <1>4, <3>1
      <3>3. (t \o r)[i] = IF i <= Len(t) THEN t[i] ELSE r[i - Len(t)]
        BY <1>5, <3>2
      <3> QED BY <3>1, <3>3, Zenon
    <2>2. CASE i <= Len(s)
      BY <1>2, <1>3, <1>6, <2>1, <2>2
    <2>3. CASE i = Len(s) + 1
      <3>1. (t \o r)[i] = q[1]
        BY <1>2, <1>3, <2>1, <2>3
      <3>2. (s \o q)[i] = q[i - Len(s)] /\ i - Len(s) = 1
        BY <1>2, <1>6, <2>3
      <3> QED BY <3>1, <3>2
    <2>4. CASE i > Len(s) + 1
      <3>1. PICK k : k = i - (Len(s) + 1)
        OBVIOUS
      <3>2. k \in 1 .. Len(r) /\ k + 1 = i - Len(s)
        BY <1>a, <1>4, <2>4, <3>1
      <3>3. (t \o r)[i] = r[k]
        BY <1>a, <2>1, <2>4, <3>1
      <3>4. r[k] = q[k + 1]
        BY <1>4, <3>2
      <3>5. (s \o q)[i] = q[i - Len(s)]
        BY <1>a, <1>6, <2>4
      <3> QED BY <3>2, <3>3, <3>4, <3>5
    <2>5. i <= Len(s) \/ i = Len(s) + 1 \/ i > Len(s) + 1
      BY <1>a
    <2> QED BY <2>2, <2>3, <2>4, <2>5
  <1>9. t \o r = s \o q
    BY <1>5, <1>6, <1>7, <1>8, SeqEqual
  <1> QED BY <1>3, <1>4, <1>9 DEF t, r

LEMMA MuxInit == ASSUME Mux!Init PROVE MuxInv
  <1>1. /\ wrote = [s \in Streams |-> 0] /\ sender = Mux!None /\ broken = FALSE
        /\ wire = <<>> /\ buffer = <<>> /\ messages = [s \in Streams |-> <<>>]
        /\ got = [s \in Streams |-> <<>>] /\ spilled = FALSE
    BY DEF Mux!Init
  <1>2. Flow = <<>> /\ \A s \in Streams : Seen(s) = <<>> /\ LastSent(s) = 0
    BY <1>1 DEF Flow, Seen, LastSent, Sending
  <1>3. MuxTypes
    <2>1. wrote \in [Streams -> Nat]
      BY <1>1
    <2>2. wire \in Seq(MuxRecords) /\ buffer \in Seq(MuxRecords) /\ \A i \in DOMAIN buffer : buffer[i].good
      BY <1>1
    <2>3. <<>> \in Seq(Nat)
      OBVIOUS
    <2>4. messages \in [Streams -> Seq(Nat)] /\ got \in [Streams -> Seq(Nat)]
      BY <1>1, <2>3
    <2> QED BY <1>1, <2>1, <2>2, <2>4 DEF MuxTypes
  <1>4. \A s \in Streams : Rising(<<>>, <<>>, 0, s) /\ Gapless(<<>>, <<>>, s) /\ Reaches(<<>>, <<>>, 0, s)
    BY DEF Rising, Gapless, Reaches
  <1> QED BY <1>2, <1>3, <1>4 DEF MuxInv

LEMMA LastSentFacts ==
    ASSUME MuxTypes, NEW s \in Streams PROVE LastSent(s) \in Nat /\ wrote[s] \in Nat /\ LastSent(s) <= wrote[s]
  BY DEF MuxTypes, LastSent, Sending

LEMMA FlowFacts ==
    ASSUME MuxTypes
    PROVE  Flow \in Seq(MuxRecords) /\ \A s \in Streams : Seen(s) \in Seq(Nat)
  <1>1. Flow \in Seq(MuxRecords)
    BY ConcatProperties DEF MuxTypes, Flow
  <1>2. ASSUME NEW s \in Streams PROVE Seen(s) \in Seq(Nat)
    <2>1. got[s] \in Seq(Nat) /\ messages[s] \in Seq(Nat)
      BY DEF MuxTypes
    <2> QED BY <2>1, ConcatProperties DEF Seen
  <1> QED BY <1>1, <1>2

(* A step that moves no record and no message across the buffer.               *)
LEMMA QuietKeeps ==
    ASSUME MuxInv, MuxTypes', Flow' = Flow, \A s \in Streams : Seen(s)' = Seen(s),
           \A s \in Streams : LastSent(s)' = LastSent(s), broken' = broken, spilled' = spilled
    PROVE  MuxInv'
  <1>1. ASSUME NEW s \in Streams
        PROVE  /\ Rising(Flow', Seen(s)', LastSent(s)', s)
               /\ ~spilled' => Gapless(Flow', Seen(s)', s)
               /\ ~spilled' /\ ~broken' => Reaches(Flow', Seen(s)', LastSent(s)', s)
    <2>1. Seen(s)' = Seen(s) /\ LastSent(s)' = LastSent(s)
      OBVIOUS
    <2>2. /\ Rising(Flow, Seen(s), LastSent(s), s)
          /\ ~spilled => Gapless(Flow, Seen(s), s)
          /\ ~spilled /\ ~broken => Reaches(Flow, Seen(s), LastSent(s), s)
      BY DEF MuxInv
    <2> QED BY <2>1, <2>2, Zenon
  <1> QED BY <1>1, Zenon DEF MuxInv, Rising, Gapless, Reaches

LEMMA BeginKeeps ==
    ASSUME MuxInv, NEW t \in Streams, Mux!WriteBegins(t) PROVE MuxInv'
  <1>1. /\ sender = Mux!None /\ wrote' = [wrote EXCEPT ![t] = @ + 1]
        /\ broken' = broken /\ wire' = wire /\ buffer' = buffer /\ messages' = messages
        /\ got' = got /\ spilled' = spilled
    BY DEF Mux!WriteBegins, Mux!frameVars
  <1>2. PICK of \in {1, BufferBound} : sender' = [stream |-> t, part |-> 1, of |-> of]
    BY DEF Mux!WriteBegins
  <1>3. wrote \in [Streams -> Nat]
    BY DEF MuxInv, MuxTypes
  <1>4. sender' /= Mux!None
    <2>1. DOMAIN sender' = {"stream", "part", "of"} /\ DOMAIN Mux!None = {"stream"}
      BY <1>2 DEF Mux!None
    <2> QED BY <2>1
  <1>5. sender' \in [stream : Streams, part : Nat, of : Nat] /\ sender'.stream = t
    BY <1>2, MuxAssumption DEF Mux!StreamMuxConstants
  <1>6. MuxTypes'
    <2>1. wrote' \in [Streams -> Nat] /\ wrote'[t] > 0
      BY <1>1, <1>3
    <2> QED BY <1>1, <1>5, <2>1 DEF MuxInv, MuxTypes
  <1>7. ASSUME NEW s \in Streams PROVE LastSent(s)' = LastSent(s)
    <2>1. CASE s = t
      <3>1. LastSent(s)' = wrote'[s] - 1 /\ LastSent(s) = wrote[s]
        BY <1>1, <1>4, <1>5, <2>1 DEF LastSent, Sending
      <3> QED BY <1>1, <1>3, <2>1, <3>1
    <2>2. CASE s /= t
      <3>1. LastSent(s)' = wrote'[s] /\ LastSent(s) = wrote[s]
        BY <1>1, <1>5, <2>2 DEF LastSent, Sending
      <3> QED BY <1>1, <1>3, <2>2, <3>1
    <2> QED BY <2>1, <2>2
  <1>8. Flow' = Flow /\ \A s \in Streams : Seen(s)' = Seen(s)
    BY <1>1 DEF Flow, Seen
  <1> QED BY <1>1, <1>6, <1>7, <1>8, QuietKeeps

LEMMA FailKeeps ==
    ASSUME MuxInv, Mux!SendFails PROVE MuxInv'
  <1>1. /\ sender' = Mux!None /\ broken' = TRUE /\ wrote' = wrote /\ wire' = wire /\ buffer' = buffer
        /\ messages' = messages /\ got' = got /\ spilled' = spilled
    BY DEF Mux!SendFails, Mux!frameVars
  <1>2. MuxTypes'
    BY <1>1 DEF MuxInv, MuxTypes
  <1>3. Flow' = Flow /\ \A s \in Streams : Seen(s)' = Seen(s)
    BY <1>1 DEF Flow, Seen
  <1>4. ASSUME NEW s \in Streams PROVE Rising(Flow, Seen(s), LastSent(s)', s)
    <2>1. Rising(Flow, Seen(s), LastSent(s), s)
      BY DEF MuxInv
    <2>2. LastSent(s)' = wrote[s] /\ LastSent(s) <= wrote[s] /\ LastSent(s) \in Nat /\ wrote[s] \in Nat
      BY <1>1, LastSentFacts DEF MuxInv, LastSent, Sending
    <2>3. \A i \in DOMAIN Seen(s) : Seen(s)[i] \in Nat
      BY FlowFacts, ElementOfSeq DEF MuxInv
    <2>4. \A i \in DOMAIN Flow : Flow[i].n \in Nat
      BY FlowFacts, ElementOfSeq, MuxRecordFacts DEF MuxInv
    <2> QED BY <2>1, <2>2, <2>3, <2>4 DEF Rising
  <1>5. ASSUME NEW s \in Streams
        PROVE  /\ Rising(Flow', Seen(s)', LastSent(s)', s)
               /\ ~spilled' => Gapless(Flow', Seen(s)', s)
               /\ ~spilled' /\ ~broken' => Reaches(Flow', Seen(s)', LastSent(s)', s)
    <2>1. Seen(s)' = Seen(s) /\ (~spilled => Gapless(Flow, Seen(s), s))
      BY <1>3 DEF MuxInv
    <2> QED BY <1>1, <1>3, <1>4, <2>1, Zenon
  <1> QED BY <1>2, <1>5, Zenon DEF MuxInv, Rising, Gapless, Reaches


LEMMA SendKeeps ==
    ASSUME MuxInv, Mux!SendsRecord PROVE MuxInv'
  <1> DEFINE t == sender.stream
             r == [stream |-> t, n |-> wrote[t], part |-> sender.part, of |-> sender.of, good |-> ~broken]
  <1>1. /\ sender /= Mux!None /\ wrote' = wrote /\ broken' = broken /\ buffer' = buffer
        /\ messages' = messages /\ got' = got /\ spilled' = spilled
        /\ wire' = Append(wire, r)
        /\ sender' = IF sender.part = sender.of THEN Mux!None ELSE [sender EXCEPT !.part = @ + 1]
    BY DEF Mux!SendsRecord, Mux!frameVars, Mux!Record
  <1>2. sender \in [stream : Streams, part : Nat, of : Nat] /\ wrote \in [Streams -> Nat] /\ wrote[t] > 0
        /\ wire \in Seq(MuxRecords) /\ buffer \in Seq(MuxRecords) /\ broken \in BOOLEAN
    BY <1>1 DEF MuxInv, MuxTypes
  <1>3. t \in Streams /\ sender.part \in Nat /\ sender.of \in Nat /\ wrote[t] \in Nat
    BY <1>2
  <1>4. r \in MuxRecords /\ r.stream = t /\ r.n = wrote[t] /\ r.part = sender.part /\ r.of = sender.of
        /\ r.good = ~broken
    BY <1>2, <1>3 DEF MuxRecords
  <1> HIDE DEF r
  <1>5. \/ sender' = Mux!None
        \/ sender' \in [stream : Streams, part : Nat, of : Nat] /\ sender'.stream = t
    <2>1. CASE sender.part = sender.of
      <3>1. sender' = Mux!None
        BY <1>1, <2>1, Zenon
      <3> QED BY <3>1, Zenon
    <2>2. CASE sender.part /= sender.of
      <3>1. sender' = [sender EXCEPT !.part = sender.part + 1]
        BY <1>1, <2>2
      <3> QED BY <1>2, <1>3, <3>1
    <2> QED BY <2>1, <2>2
  <1>6. MuxTypes'
    <2>1. wire' \in Seq(MuxRecords)
      BY <1>1, <1>2, <1>4, AppendProperties
    <2>2. sender' /= Mux!None => wrote[sender'.stream] > 0
      BY <1>2, <1>5
    <2> QED BY <1>1, <1>5, <2>1, <2>2 DEF MuxInv, MuxTypes
  <1>7. Flow' = Append(Flow, r)
    <2>1. buffer \o Append(wire, r) = Append(buffer \o wire, r)
      <3>1. Append(wire, r) = wire \o <<r>> /\ Append(buffer \o wire, r) = (buffer \o wire) \o <<r>>
        BY <1>2, <1>4, AppendIsConcat, ConcatProperties
      <3>2. <<r>> \in Seq(MuxRecords)
        BY <1>4
      <3> QED BY <1>2, <3>1, <3>2, ConcatAssociative
    <2> QED BY <1>1, <2>1 DEF Flow
  <1>8. ASSUME NEW s \in Streams
        PROVE  \/ ~Carried(r, s) /\ LastSent(s)' = LastSent(s)
               \/ r.n = LastSent(s) + 1 /\ LastSent(s)' = LastSent(s) + 1 /\ (Carried(r, s) \/ r.n = 1)
    <2>1. CASE s /= t
      <3>1. LastSent(s) = wrote[s] /\ LastSent(s)' = wrote[s]
        BY <1>1, <1>5, <2>1 DEF LastSent, Sending
      <3>2. ~Carried(r, s)
        BY <1>4, <2>1 DEF Carried
      <3> QED BY <3>1, <3>2
    <2>2. CASE s = t /\ sender.part = sender.of
      <3>1. LastSent(s) = wrote[t] - 1 /\ LastSent(s)' = wrote[t]
        BY <1>1, <2>2 DEF LastSent, Sending
      <3>2. Carried(r, s) \/ r.n = 1
        BY <1>4, <2>2 DEF Carried
      <3> QED BY <1>3, <1>4, <3>1, <3>2
    <2>3. CASE s = t /\ sender.part /= sender.of
      <3>1. sender' = [sender EXCEPT !.part = sender.part + 1]
        BY <1>1, <2>3
      <3>2. sender' /= Mux!None
        <4>1. "part" \in DOMAIN sender' /\ "part" \notin DOMAIN Mux!None
          BY <1>2, <3>1 DEF Mux!None
        <4> QED BY <4>1
      <3>3. LastSent(s) = wrote[t] - 1 /\ LastSent(s)' = wrote[t] - 1
        BY <1>1, <1>2, <2>3, <3>1, <3>2 DEF LastSent, Sending
      <3>4. ~Carried(r, s)
        BY <1>4, <2>3 DEF Carried
      <3> QED BY <3>3, <3>4
    <2> QED BY <2>1, <2>2, <2>3
  <1>9. ASSUME NEW s \in Streams
        PROVE  /\ Rising(Flow', Seen(s)', LastSent(s)', s)
               /\ ~spilled' => Gapless(Flow', Seen(s)', s)
               /\ ~spilled' /\ ~broken' => Reaches(Flow', Seen(s)', LastSent(s)', s)
    <2>1. Seen(s)' = Seen(s) /\ Seen(s) \in Seq(Nat) /\ Flow \in Seq(MuxRecords)
      BY <1>1, FlowFacts DEF Seen, MuxInv
    <2>2. LastSent(s) \in Nat /\ LastSent(s)' \in Nat
      BY <1>8, LastSentFacts DEF MuxInv
    <2>3. PICK next \in Nat : next = LastSent(s)'
      BY <2>2
    <2>4. PICK last \in Nat : last = LastSent(s)
      BY <2>2
    <2>5. /\ Rising(Flow, Seen(s), last, s)
          /\ ~spilled => Gapless(Flow, Seen(s), s)
          /\ ~spilled /\ ~broken => Reaches(Flow, Seen(s), last, s)
      BY <2>4 DEF MuxInv
    <2>6. \/ ~Carried(r, s) /\ next = last
          \/ r.n = last + 1 /\ next = last + 1 /\ (Carried(r, s) \/ r.n = 1)
      BY <1>8, <2>3, <2>4
    <2>7. Rising(Append(Flow, r), Seen(s), next, s)
      BY <1>4, <2>1, <2>5, <2>6, SentRises
    <2>8. ASSUME ~spilled
          PROVE  /\ Gapless(Append(Flow, r), Seen(s), s)
                 /\ ~broken => Reaches(Append(Flow, r), Seen(s), next, s)
      <3>1. Gapless(Flow, Seen(s), s) /\ (r.good => Reaches(Flow, Seen(s), last, s))
        BY <1>4, <2>5, <2>8
      <3> QED BY <1>4, <2>1, <2>5, <2>6, <3>1, SentFollows
    <2> QED BY <1>1, <1>7, <2>1, <2>3, <2>7, <2>8, Zenon
  <1> QED BY <1>6, <1>9, Zenon DEF MuxInv, Rising, Gapless, Reaches

LEMMA TakeKeeps ==
    ASSUME MuxInv, NEW t \in Streams, Mux!Take(t), messages[t] /= <<>>,
           UNCHANGED <<wrote, sender, broken, wire, buffer, spilled>>
    PROVE  MuxInv'
  <1>1. /\ got' = [got EXCEPT ![t] = Append(got[t], Head(messages[t]))]
        /\ messages' = [messages EXCEPT ![t] = Tail(messages[t])]
    BY DEF Mux!Take
  <1>2. messages \in [Streams -> Seq(Nat)] /\ got \in [Streams -> Seq(Nat)]
    BY DEF MuxInv, MuxTypes
  <1>3. /\ Append(got[t], Head(messages[t])) \o Tail(messages[t]) = got[t] \o messages[t]
        /\ Append(got[t], Head(messages[t])) \in Seq(Nat) /\ Tail(messages[t]) \in Seq(Nat)
    BY <1>2, HeadIsSeen
  <1>4. MuxTypes'
    BY <1>1, <1>2, <1>3 DEF MuxInv, MuxTypes
  <1>5. Flow' = Flow /\ \A s \in Streams : LastSent(s)' = LastSent(s)
    BY DEF Flow, LastSent, Sending
  <1>6. ASSUME NEW s \in Streams PROVE Seen(s)' = Seen(s)
    <2>1. CASE s = t
      BY <1>1, <1>2, <1>3, <2>1 DEF Seen
    <2>2. CASE s /= t
      BY <1>1, <1>2, <2>2 DEF Seen
    <2> QED BY <2>1, <2>2
  <1> QED BY <1>4, <1>5, <1>6, QuietKeeps

LEMMA WireFacts ==
    ASSUME MuxTypes, wire /= <<>>
    PROVE  /\ Head(wire) = wire[1] /\ Head(wire) \in MuxRecords /\ Tail(wire) \in Seq(MuxRecords)
           /\ Len(wire) \in Nat /\ Len(wire) > 0 /\ Len(Tail(wire)) = Len(wire) - 1
           /\ \A i \in 1 .. Len(wire) - 1 : Tail(wire)[i] = wire[i + 1]
  <1>1. wire \in Seq(MuxRecords)
    BY DEF MuxTypes
  <1>2. Len(wire) \in Nat /\ Len(wire) > 0
    BY <1>1, EmptySeq
  <1>3. /\ Head(wire) \in MuxRecords /\ Tail(wire) \in Seq(MuxRecords) /\ Len(Tail(wire)) = Len(wire) - 1
        /\ \A i \in 1 .. Len(Tail(wire)) : Tail(wire)[i] = wire[i + 1]
    BY <1>1, HeadTailProperties
  <1> QED BY <1>2, <1>3

LEMMA SpillKeeps ==
    ASSUME MuxInv, NEW t \in Streams, Mux!PumpSpills(t) PROVE MuxInv'
  <1>1. /\ wire /= <<>> /\ wire' = Tail(wire) /\ spilled' = TRUE /\ wrote' = wrote /\ sender' = sender
        /\ broken' = broken /\ buffer' = buffer /\ messages' = messages /\ got' = got
    BY DEF Mux!PumpSpills, Mux!senderVars
  <1>2. MuxTypes
    BY DEF MuxInv
  <1>3. MuxTypes'
    BY <1>1, <1>2, WireFacts DEF MuxTypes
  <1>4. ASSUME NEW s \in Streams PROVE Rising(Flow', Seen(s), LastSent(s), s)
    <2> DEFINE n == Len(buffer)
               h == [i \in 1 .. n + (Len(wire) - 1) |-> IF i <= n THEN i ELSE i + 1]
    <2>1. buffer \in Seq(MuxRecords) /\ wire \in Seq(MuxRecords) /\ n \in Nat
      BY <1>2 DEF MuxTypes
    <2>2. /\ DOMAIN Flow = 1 .. n + Len(wire)
          /\ \A i \in 1 .. n + Len(wire) : Flow[i] = IF i <= n THEN buffer[i] ELSE wire[i - n]
      BY <2>1, ConcatProperties, LenProperties DEF Flow
    <2>3. /\ DOMAIN Flow' = 1 .. n + (Len(wire) - 1)
          /\ \A i \in 1 .. n + (Len(wire) - 1) : Flow'[i] = IF i <= n THEN buffer[i] ELSE Tail(wire)[i - n]
      <3>1. Flow' = buffer \o Tail(wire)
        BY <1>1 DEF Flow
      <3>2. Tail(wire) \in Seq(MuxRecords) /\ Len(Tail(wire)) = Len(wire) - 1
        BY <1>1, <1>2, WireFacts
      <3> QED BY <2>1, <3>1, <3>2, ConcatProperties, LenProperties
    <2>4. Len(wire) \in Nat /\ Len(wire) > 0 /\ \A i \in 1 .. Len(wire) - 1 : Tail(wire)[i] = wire[i + 1]
      BY <1>1, <1>2, WireFacts
    <2> HIDE DEF n
    <2>5. ASSUME NEW i \in DOMAIN Flow' PROVE h[i] \in DOMAIN Flow /\ Flow'[i] = Flow[h[i]]
      <3>0. i \in 1 .. n + (Len(wire) - 1)
        BY <2>3
      <3>1. CASE i <= n
        <4>1. h[i] = i /\ i \in 1 .. n + Len(wire)
          BY <2>1, <2>4, <3>0, <3>1
        <4> QED BY <2>2, <2>3, <3>0, <3>1, <4>1
      <3>2. CASE i > n
        <4>1. h[i] = i + 1 /\ i + 1 \in 1 .. n + Len(wire)
          BY <2>1, <2>4, <3>0, <3>2
        <4>2. PICK k \in 1 .. Len(wire) - 1 : i - n = k /\ i + 1 - n = k + 1
          BY <2>1, <2>4, <3>0, <3>2
        <4>3. Flow'[i] = Tail(wire)[k]
          BY <2>1, <2>3, <3>0, <3>2, <4>2
        <4>4. Flow[i + 1] = wire[k + 1]
          BY <2>1, <2>2, <3>0, <3>2, <4>1, <4>2
        <4> QED BY <2>2, <2>4, <4>1, <4>2, <4>3, <4>4
      <3> QED BY <2>1, <3>0, <3>1, <3>2
    <2>6. \A i, j \in DOMAIN Flow' : i < j => h[i] < h[j]
      BY <2>1, <2>3, <2>4
    <2> HIDE DEF h
    <2>7. Rising(Flow, Seen(s), LastSent(s), s)
      BY DEF MuxInv
    <2> QED BY <2>5, <2>6, <2>7, FewerRise
  <1>5. ASSUME NEW s \in Streams
        PROVE  /\ Rising(Flow', Seen(s)', LastSent(s)', s)
               /\ ~spilled' => Gapless(Flow', Seen(s)', s)
               /\ ~spilled' /\ ~broken' => Reaches(Flow', Seen(s)', LastSent(s)', s)
    <2>1. Seen(s)' = Seen(s) /\ LastSent(s)' = LastSent(s)
      BY <1>1 DEF Seen, LastSent, Sending
    <2> QED BY <1>1, <1>4, <2>1, Zenon
  <1> QED BY <1>3, <1>5, Zenon DEF MuxInv, Rising, Gapless, Reaches


(* The buffer with the next record is the beginning of the flow, and parsing   *)
(* takes away the beginning of that.                                           *)
LEMMA PumpedFlow ==
    ASSUME MuxTypes, wire /= <<>>, NEW b, b = Append(buffer, Head(wire))
    PROVE  /\ b \in Seq(MuxRecords) /\ Len(b) \in Nat /\ Len(b) <= Len(Flow)
           /\ \A i \in 1 .. Len(b) : b[i] = Flow[i]
           /\ \A place \in 0 .. Len(b) :
                SubSeq(b, place + 1, Len(b)) \o Tail(wire) = SubSeq(Flow, place + 1, Len(Flow))
  <1> DEFINE w == Tail(wire)
  <1>1. /\ Head(wire) = wire[1] /\ Head(wire) \in MuxRecords /\ w \in Seq(MuxRecords)
        /\ Len(wire) \in Nat /\ Len(wire) > 0 /\ Len(w) = Len(wire) - 1
        /\ \A i \in 1 .. Len(wire) - 1 : w[i] = wire[i + 1]
    BY WireFacts
  <1>2. buffer \in Seq(MuxRecords) /\ wire \in Seq(MuxRecords) /\ Len(buffer) \in Nat
    BY DEF MuxTypes
  <1>3. /\ b \in Seq(MuxRecords) /\ Len(b) = Len(buffer) + 1
        /\ \A i \in 1 .. Len(buffer) : b[i] = buffer[i]
        /\ b[Len(buffer) + 1] = wire[1]
    BY <1>1, <1>2, AppendProperties
  <1> HIDE DEF w
  <1>4. Flow = b \o w
    <2>1. wire = <<wire[1]>> \o w
      <3>1. /\ <<wire[1]>> \in Seq(MuxRecords) /\ Len(<<wire[1]>>) = 1 /\ <<wire[1]>>[1] = wire[1]
        BY <1>1
      <3>2. /\ <<wire[1]>> \o w \in Seq(MuxRecords) /\ Len(<<wire[1]>> \o w) = 1 + Len(w)
            /\ \A i \in 1 .. 1 + Len(w) : (<<wire[1]>> \o w)[i] = IF i <= 1 THEN <<wire[1]>>[i] ELSE w[i - 1]
        BY <1>1, <3>1, ConcatProperties
      <3>3. \A i \in 1 .. Len(wire) : (<<wire[1]>> \o w)[i] = wire[i]
        <4> SUFFICES ASSUME NEW i \in 1 .. Len(wire) PROVE (<<wire[1]>> \o w)[i] = wire[i]
          OBVIOUS
        <4>1. CASE i = 1
          BY <1>1, <3>1, <3>2, <4>1
        <4>2. CASE i > 1
          <5>1. PICK k \in 1 .. Len(wire) - 1 : k = i - 1 /\ k + 1 = i
            BY <1>1, <4>2
          <5>2. (<<wire[1]>> \o w)[i] = w[i - 1]
            BY <1>1, <3>2, <4>2
          <5> QED BY <1>1, <5>1, <5>2
        <4> QED BY <1>1, <4>1, <4>2
      <3>4. Len(<<wire[1]>> \o w) = Len(wire)
        BY <1>1, <3>2
      <3> QED BY <1>2, <3>2, <3>3, <3>4, SeqEqual
    <2>2. b = buffer \o <<wire[1]>>
      BY <1>1, <1>2, AppendIsConcat
    <2>3. <<wire[1]>> \in Seq(MuxRecords)
      BY <1>1
    <2>4. PICK x \in Seq(MuxRecords) : x = <<wire[1]>>
      BY <2>3
    <2>5. (buffer \o x) \o w = buffer \o (x \o w)
      <3>1. PICK u \in Seq(MuxRecords), v \in Seq(MuxRecords) : u = buffer /\ v = w
        BY <1>1, <1>2
      <3>2. (u \o x) \o v = u \o (x \o v)
        BY ConcatAssociative
      <3> QED BY <3>1, <3>2
    <2> QED BY <2>1, <2>2, <2>4, <2>5, Zenon DEF Flow
  <1>5. /\ Flow \in Seq(MuxRecords) /\ Len(Flow) = Len(b) + Len(w)
        /\ \A i \in 1 .. Len(b) + Len(w) : Flow[i] = IF i <= Len(b) THEN b[i] ELSE w[i - Len(b)]
    <2>1. b \in Seq(MuxRecords) /\ w \in Seq(MuxRecords)
      BY <1>1, <1>3
    <2>2. /\ b \o w \in Seq(MuxRecords) /\ Len(b \o w) = Len(b) + Len(w)
          /\ \A i \in 1 .. Len(b) + Len(w) : (b \o w)[i] = IF i <= Len(b) THEN b[i] ELSE w[i - Len(b)]
      BY <2>1, ConcatProperties
    <2> QED BY <1>4, <2>2, Zenon
  <1>6. Len(b) \in Nat /\ Len(w) \in Nat
    BY <1>1, <1>2, <1>3
  <1>7. ASSUME NEW place \in 0 .. Len(b)
        PROVE  SubSeq(b, place + 1, Len(b)) \o w = SubSeq(Flow, place + 1, Len(Flow))
    <2> DEFINE x == SubSeq(b, place + 1, Len(b))
               y == SubSeq(Flow, place + 1, Len(Flow))
    <2>1. /\ x \in Seq(MuxRecords) /\ DOMAIN x = 1 .. Len(b) - place
          /\ \A i \in 1 .. Len(b) - place : x[i] = b[place + i]
      BY <1>3, RestOf
    <2>2. place \in 0 .. Len(Flow)
      BY <1>5, <1>6
    <2>3. /\ y \in Seq(MuxRecords) /\ DOMAIN y = 1 .. Len(Flow) - place
          /\ \A i \in 1 .. Len(Flow) - place : y[i] = Flow[place + i]
      BY <1>5, <2>2, RestOf
    <2> HIDE DEF x, y
    <2>4. Len(x) = Len(b) - place /\ Len(y) = Len(b) - place + Len(w)
      <3>1. Len(x) \in Nat /\ DOMAIN x = 1 .. Len(x) /\ Len(y) \in Nat /\ DOMAIN y = 1 .. Len(y)
        <4>1. x \in Seq(MuxRecords) /\ y \in Seq(MuxRecords)
          BY <2>1, <2>3, Zenon
        <4> QED BY <4>1, LenProperties, Zenon
      <3>2. PICK m, n \in Nat : m = Len(b) /\ n = Len(w)
        BY <1>6, Zenon
      <3>3. PICK j, k \in Nat : j = Len(x) /\ k = Len(y)
        BY <3>1, Zenon
      <3>4. 1 .. j = 1 .. m - place /\ place \in 0 .. m
        BY <2>1, <3>1, <3>2, <3>3, Zenon
      <3>5. Len(Flow) = m + n
        BY <1>5, <3>2, Zenon
      <3>6. 1 .. k = 1 .. m + n - place
        <4>1. DOMAIN y = 1 .. k
          BY <3>1, <3>3, Zenon
        <4>2. DOMAIN y = 1 .. Len(Flow) - place
          BY <2>3, Zenon
        <4>3. DOMAIN y = 1 .. (m + n) - place
          BY <3>5, <4>2, Zenon
        <4> QED BY <4>1, <4>3, SMT
      <3>7. j = m - place
        BY <3>4
      <3>8. m + n - place \in Nat /\ m + n - place = m - place + n
        BY <3>4
      <3>9. k = m - place + n
        BY <3>6, <3>8
      <3> QED BY <3>2, <3>3, <3>7, <3>9, Zenon
    <2>5. /\ x \o w \in Seq(MuxRecords) /\ Len(x \o w) = Len(x) + Len(w)
          /\ \A i \in 1 .. Len(x) + Len(w) : (x \o w)[i] = IF i <= Len(x) THEN x[i] ELSE w[i - Len(x)]
      BY <1>1, <2>1, ConcatProperties
    <2>6. ASSUME NEW i \in 1 .. Len(b) - place + Len(w) PROVE (x \o w)[i] = y[i]
      <3>1. place + i \in 1 .. Len(b) + Len(w) /\ y[i] = Flow[place + i]
        BY <1>5, <1>6, <2>3
      <3>2. CASE i <= Len(b) - place
        <4>1. (x \o w)[i] = b[place + i]
          BY <1>6, <2>1, <2>4, <2>5, <3>2
        <4>2. Flow[place + i] = b[place + i]
          BY <1>5, <1>6, <3>1, <3>2
        <4> QED BY <3>1, <4>1, <4>2
      <3>3. CASE i > Len(b) - place
        <4>1. PICK k : k = i - (Len(b) - place) /\ k = place + i - Len(b)
          BY <1>6
        <4>2. (x \o w)[i] = w[k]
          BY <1>6, <2>4, <2>5, <3>3, <4>1
        <4>3. Flow[place + i] = w[k]
          BY <1>5, <1>6, <3>1, <3>3, <4>1
        <4> QED BY <3>1, <4>2, <4>3
      <3>4. i <= Len(b) - place \/ i > Len(b) - place
        BY <1>6
      <3> QED BY <3>2, <3>3, <3>4
    <2>7. x \o w = y
      <3>1. Len(x \o w) = Len(y)
        BY <1>6, <2>4, <2>5
      <3>2. \A i \in 1 .. Len(x \o w) : (x \o w)[i] = y[i]
        BY <2>4, <2>5, <2>6
      <3> QED BY <2>3, <2>5, <3>1, <3>2, SeqEqual
    <2> QED BY <2>7 DEF x, y
  <1>8. \A i \in 1 .. Len(b) : b[i] = Flow[i]
    BY <1>5, <1>6
  <1>9. Len(b) <= Len(Flow)
    BY <1>5, <1>6
  <1>10. \A place \in 0 .. Len(b) : SubSeq(b, place + 1, Len(b)) \o Tail(wire) = SubSeq(Flow, place + 1, Len(Flow))
    BY <1>7 DEF w
  <1> QED BY <1>3, <1>6, <1>8, <1>9, <1>10

LEMMA PumpKeeps ==
    ASSUME MuxInv, NEW t \in Streams, Mux!Pump(t) PROVE MuxInv'
  <1>0. MuxTypes /\ wire /= <<>> /\ Head(wire).good
    BY DEF MuxInv, Mux!Pump
  <1>1. PICK b : b = Append(buffer, Head(wire))
    OBVIOUS
  <1>2. PICK end : end = Mux!Parse(b)
    OBVIOUS
  <1>3. /\ buffer' = SubSeq(b, end.at + 1, Len(b)) /\ wire' = Tail(wire)
        /\ messages' = [s \in Streams |-> messages[s] \o Mux!Delivered(b, end, s)]
        /\ wrote' = wrote /\ sender' = sender /\ broken' = broken /\ got' = got /\ spilled' = spilled
    BY <1>1, <1>2 DEF Mux!Pump, Mux!Rest, Mux!senderVars
  <1>4. /\ b \in Seq(MuxRecords) /\ Len(b) \in Nat /\ Len(b) <= Len(Flow)
        /\ \A i \in 1 .. Len(b) : b[i] = Flow[i]
        /\ \A place \in 0 .. Len(b) :
             SubSeq(b, place + 1, Len(b)) \o Tail(wire) = SubSeq(Flow, place + 1, Len(Flow))
    BY <1>0, <1>1, PumpedFlow
  <1>5. PICK place \in 0 .. Len(b) : place = end.at
    BY <1>2, <1>4, ParsesUpTo
  <1>6. Flow \in Seq(MuxRecords) /\ Len(Flow) \in Nat /\ place \in 0 .. Len(Flow) /\ DOMAIN Flow = 1 .. Len(Flow)
    <2>1. Flow \in Seq(MuxRecords)
      BY <1>0, FlowFacts
    <2> QED BY <1>4, <2>1
  <1>7. Flow' = SubSeq(Flow, place + 1, Len(Flow))
    BY <1>3, <1>4, <1>5 DEF Flow
  <1>8. \A i \in DOMAIN b : b[i].good
    <2>1. buffer \in Seq(MuxRecords) /\ Len(buffer) \in Nat /\ Head(wire) \in MuxRecords
      BY <1>0, WireFacts DEF MuxTypes
    <2>2. /\ DOMAIN b = 1 .. Len(buffer) + 1 /\ \A i \in 1 .. Len(buffer) : b[i] = buffer[i]
          /\ b[Len(buffer) + 1] = Head(wire)
      BY <1>1, <2>1, AppendProperties, LenProperties
    <2>3. \A i \in 1 .. Len(buffer) : buffer[i].good
      BY <1>0, <2>1 DEF MuxTypes
    <2> QED BY <1>0, <2>1, <2>2, <2>3
  <1>9. ASSUME NEW s \in Streams PROVE Taken(Mux!Delivered(b, end, s), Flow, s, place)
    <2>1. Ordered(Flow, s)
      BY DEF MuxInv, Rising, Ordered
    <2>2. Ordered(b, s)
      <3>1. \A i \in DOMAIN b : i \in DOMAIN Flow /\ b[i] = Flow[i]
        BY <1>4, <1>6
      <3> QED BY <2>1, <3>1 DEF Ordered
    <2>3. Taken(Mux!Delivered(b, end, s), b, s, place)
      BY <1>4, <1>5, <2>2, DeliveredIsTaken
    <2>4. \A i \in 1 .. place : b[i] = Flow[i]
      BY <1>4
    <2> QED BY <2>3, <2>4 DEF Taken
  <1>10. MuxTypes'
    <2>1. wire' \in Seq(MuxRecords)
      BY <1>0, <1>3, WireFacts
    <2>2. /\ buffer' \in Seq(MuxRecords) /\ DOMAIN buffer' = 1 .. Len(b) - place
          /\ \A i \in 1 .. Len(b) - place : buffer'[i] = b[place + i]
      BY <1>3, <1>4, <1>5, RestOf
    <2>3. \A i \in DOMAIN buffer' : buffer'[i].good
      <3> SUFFICES ASSUME NEW i \in 1 .. Len(b) - place PROVE b[place + i].good
        BY <2>2
      <3>1. place + i \in DOMAIN b
        BY <1>4
      <3> QED BY <1>8, <3>1
    <2>4. messages' \in [Streams -> Seq(Nat)]
      <3>1. ASSUME NEW s \in Streams PROVE messages[s] \o Mux!Delivered(b, end, s) \in Seq(Nat)
        <4>1. messages[s] \in Seq(Nat) /\ Mux!Delivered(b, end, s) \in Seq(Nat)
          BY <1>0, <1>9 DEF MuxTypes, Taken
        <4> QED BY <4>1, ConcatProperties
      <3> QED BY <1>3, <3>1
    <2> QED BY <1>0, <1>3, <2>1, <2>2, <2>3, <2>4 DEF MuxTypes
  <1>11. ASSUME NEW s \in Streams
         PROVE  /\ Rising(Flow', Seen(s)', LastSent(s)', s)
                /\ ~spilled' => Gapless(Flow', Seen(s)', s)
                /\ ~spilled' /\ ~broken' => Reaches(Flow', Seen(s)', LastSent(s)', s)
    <2>1. PICK q : q = Mux!Delivered(b, end, s)
      OBVIOUS
    <2>2. Taken(q, Flow, s, place) /\ q \in Seq(Nat)
      BY <1>9, <2>1 DEF Taken
    <2>3. Seen(s) \in Seq(Nat) /\ Seen(s)' = Seen(s) \o q
      <3>1. got[s] \in Seq(Nat) /\ messages[s] \in Seq(Nat)
        BY <1>0 DEF MuxTypes
      <3>2. got[s] \o (messages[s] \o q) = (got[s] \o messages[s]) \o q
        <4>1. PICK g \in Seq(Nat), m \in Seq(Nat) : g = got[s] /\ m = messages[s]
          BY <3>1
        <4>2. PICK x \in Seq(Nat) : x = q
          BY <2>2
        <4>3. (g \o m) \o x = g \o (m \o x)
          BY NatGrouping, Zenon
        <4> QED BY <4>1, <4>2, <4>3, Zenon
      <3>3. Seen(s)' = got[s] \o (messages[s] \o q)
        BY <1>3, <2>1 DEF Seen
      <3> QED BY <1>0, <3>2, <3>3, FlowFacts DEF Seen
    <2>4. PICK last \in Nat : last = LastSent(s)
      BY <1>0, LastSentFacts
    <2>5. LastSent(s)' = last
      BY <1>3, <2>4 DEF LastSent, Sending
    <2>6. /\ Rising(Flow, Seen(s), last, s)
          /\ ~spilled => Gapless(Flow, Seen(s), s)
          /\ ~spilled /\ ~broken => Reaches(Flow, Seen(s), last, s)
      BY <2>4 DEF MuxInv
    <2>7. Rising(SubSeq(Flow, place + 1, Len(Flow)), Seen(s) \o q, last, s)
      BY <1>6, <2>2, <2>3, <2>6, ParsedRises
    <2>8. ASSUME ~spilled
          PROVE  /\ Gapless(SubSeq(Flow, place + 1, Len(Flow)), Seen(s) \o q, s)
                 /\ ~broken => Reaches(SubSeq(Flow, place + 1, Len(Flow)), Seen(s) \o q, last, s)
      <3>1. \A i \in 1 .. place : Flow[i].good
        <4> SUFFICES ASSUME NEW i \in 1 .. place PROVE Flow[i].good
          OBVIOUS
        <4>1. i \in 1 .. Len(b) /\ i \in DOMAIN b
          BY <1>4
        <4> QED BY <1>4, <1>8, <4>1
      <3> QED BY <1>6, <2>2, <2>3, <2>6, <2>8, <3>1, ParsedFollows
    <2> QED BY <1>3, <1>7, <2>3, <2>5, <2>7, <2>8, Zenon
  <1> QED BY <1>10, <1>11, Zenon DEF MuxInv, Rising, Gapless, Reaches

LEMMA MuxStep == ASSUME MuxInv, Mux!Next \/ UNCHANGED mux PROVE MuxInv'
  <1>1. ASSUME UNCHANGED <<wrote, sender, broken, wire, buffer, messages, got, spilled>> PROVE MuxInv'
    <2>1. MuxTypes'
      BY <1>1 DEF MuxInv, MuxTypes
    <2>2. Flow' = Flow /\ \A s \in Streams : Seen(s)' = Seen(s) /\ LastSent(s)' = LastSent(s)
      BY <1>1 DEF Flow, Seen, LastSent, Sending
    <2> QED BY <1>1, <2>1, <2>2, QuietKeeps
  <1>2. ASSUME NEW s \in Streams, Mux!ReadsQueued(s) PROVE MuxInv'
    BY <1>2, TakeKeeps DEF Mux!ReadsQueued, Mux!senderVars
  <1>3. ASSUME NEW s \in Streams, Mux!ReadsPumped(s) PROVE MuxInv'
    BY <1>3, TakeKeeps DEF Mux!ReadsPumped, Mux!Satisfied, Mux!senderVars
  <1>4. ASSUME NEW s \in Streams, Mux!Waits(s) \/ Mux!Locks(s) \/ Mux!TimesOut(s) PROVE MuxInv'
    BY <1>1, <1>4 DEF Mux!Waits, Mux!Locks, Mux!TimesOut, Mux!senderVars, Mux!frameVars
  <1>5. ASSUME NEW s \in Streams, Mux!AcceptsStream(s) \/ Mux!PumpFails(s) PROVE MuxInv'
    BY <1>1, <1>5 DEF Mux!AcceptsStream, Mux!PumpFails, Mux!senderVars, Mux!frameVars
  <1>6. CASE UNCHANGED mux
    BY <1>1, <1>6 DEF mux
  <1> QED
    BY <1>2, <1>3, <1>4, <1>5, <1>6, SendKeeps, FailKeeps, BeginKeeps, SpillKeeps, PumpKeeps DEF Mux!Next

LEMMA MuxImplies == ASSUME MuxInv PROVE Mux!ReadsAPrefix
  <1> SUFFICES ASSUME NEW s \in Streams, ~spilled
               PROVE  \A i \in DOMAIN Seen(s) : Seen(s)[i] = i + 1
    BY DEF Mux!ReadsAPrefix, Seen
  <1> QED BY DEF MuxInv, Gapless


-----------------------------------------------------------------------------
(* The records of the TLS plane, cut out of what TCP delivers.                 *)

Cut(k, upto) == SubSeq(Records!Pieces, k + 1, upto)

LEMMA TotalFacts ==
    /\ Size \in Nat /\ Size > 0 /\ Total \in Nat
    /\ \A n \in Nat : n * Size \in Nat /\ (n + 1) * Size = n * Size + Size
  <1>1. {Flights, Messages, Size} \subseteq Nat /\ Size > 0
    BY RecordsAssumption DEF Records!TlsRecordsConstants
  <1>2. \A a, b \in Nat : a * b \in Nat /\ (a + 1) * b = a * b + b
    OBVIOUS
  <1>3. Flights + Messages \in Nat
    BY <1>1
  <1> QED BY <1>1, <1>2, <1>3 DEF Total

LEMMA PiecesFacts ==
    Records!Pieces \in Seq(Bytes) /\ Len(Records!Pieces) = Total
  <1> DEFINE P == Records!Pieces
  <1>1. DOMAIN P = 1 .. Total
    BY DEF Records!Pieces, Total
  <1>2. P = [i \in 1 .. Total |-> P[i]]
    BY DEF Records!Pieces, Total
  <1>3. \A i \in 1 .. Total : P[i] \in Bytes
    BY DEF Bytes
  <1> HIDE DEF P
  <1>4. P \in [1 .. Total -> Bytes]
    BY <1>2, <1>3
  <1>5. P \in Seq(Bytes)
    BY <1>4, TotalFacts, IsASeq
  <1>6. Len(P) = Total
    BY <1>1, <1>5, TotalFacts, LenProperties
  <1> QED BY <1>5, <1>6 DEF P

LEMMA CutFacts ==
    ASSUME NEW k \in Nat, NEW upto \in k .. Total
    PROVE  /\ Cut(k, upto) \in Seq(Bytes) /\ Len(Cut(k, upto)) = upto - k
           /\ \A i \in 1 .. upto - k : Cut(k, upto)[i] = Records!Pieces[k + i]
  <1>1. \A i \in k + 1 .. upto : Records!Pieces[i] \in Bytes
    BY TotalFacts DEF Bytes
  <1>2. /\ Cut(k, upto) \in Seq(Bytes)
        /\ Len(Cut(k, upto)) = IF k + 1 <= upto THEN upto - (k + 1) + 1 ELSE 0
        /\ \A i \in 1 .. upto - (k + 1) + 1 : Cut(k, upto)[i] = Records!Pieces[k + 1 + i - 1]
    <2>1. k + 1 \in Int /\ upto \in Int
      BY TotalFacts
    <2> QED BY <1>1, <2>1, SubSeqProperties DEF Cut
  <1>3. Len(Cut(k, upto)) = upto - k
    BY <1>2, TotalFacts
  <1>4. ASSUME NEW i \in 1 .. upto - k PROVE Cut(k, upto)[i] = Records!Pieces[k + i]
    <2>1. i \in 1 .. upto - (k + 1) + 1 /\ k + 1 + i - 1 = k + i
      BY TotalFacts
    <2> QED BY <1>2, <2>1
  <1> QED BY <1>2, <1>3, <1>4

LEMMA CutOfCut ==
    ASSUME NEW k \in Nat, NEW upto \in k .. Total, NEW a \in Nat, NEW b \in a .. upto - k
    PROVE  SubSeq(Cut(k, upto), a + 1, b) = Cut(k + a, k + b)
  <1> DEFINE c == Cut(k, upto)
             d == SubSeq(c, a + 1, b)
             e == Cut(k + a, k + b)
  <1>1. c \in Seq(Bytes) /\ Len(c) = upto - k /\ \A i \in 1 .. upto - k : c[i] = Records!Pieces[k + i]
    BY CutFacts
  <1>2. k + a \in Nat /\ k + b \in k + a .. Total /\ k + b - (k + a) = b - a
    BY TotalFacts
  <1>3. e \in Seq(Bytes) /\ Len(e) = b - a /\ \A i \in 1 .. b - a : e[i] = Records!Pieces[k + a + i]
    <2>1. PICK x \in Nat, y \in Nat : x = k + a /\ y = k + b /\ y \in x .. Total
      BY <1>2, TotalFacts
    <2>2. /\ Cut(x, y) \in Seq(Bytes) /\ Len(Cut(x, y)) = y - x
          /\ \A i \in 1 .. y - x : Cut(x, y)[i] = Records!Pieces[x + i]
      BY <2>1, CutFacts
    <2> QED BY <1>2, <2>1, <2>2
  <1> HIDE DEF c
  <1>4. \A i \in a + 1 .. b : c[i] \in Bytes
    <2> SUFFICES ASSUME NEW i \in a + 1 .. b PROVE c[i] \in Bytes
      OBVIOUS
    <2>1. i \in 1 .. Len(c)
      BY <1>1, TotalFacts
    <2> QED BY <1>1, <2>1, ElementOfSeq
  <1>5. /\ d \in Seq(Bytes) /\ Len(d) = IF a + 1 <= b THEN b - (a + 1) + 1 ELSE 0
        /\ \A i \in 1 .. b - (a + 1) + 1 : d[i] = c[a + 1 + i - 1]
    <2>1. a + 1 \in Int /\ b \in Int
      BY TotalFacts
    <2> QED BY <1>4, <2>1, SubSeqProperties
  <1> HIDE DEF d, e
  <1>6. Len(d) = Len(e)
    BY <1>3, <1>5, TotalFacts
  <1>7. ASSUME NEW i \in 1 .. b - a PROVE d[i] = e[i]
    <2>1. i \in 1 .. b - (a + 1) + 1 /\ a + 1 + i - 1 = a + i /\ a + i \in 1 .. upto - k
          /\ k + (a + i) = k + a + i
      BY TotalFacts
    <2>2. d[i] = c[a + i]
      BY <1>5, <2>1
    <2>3. c[a + i] = Records!Pieces[k + a + i]
      BY <1>1, <2>1
    <2> QED BY <1>3, <2>2, <2>3
  <1>8. d = e
    <2>1. \A i \in 1 .. Len(d) : d[i] = e[i]
      BY <1>3, <1>6, <1>7
    <2> QED BY <1>3, <1>5, <1>6, <2>1, SeqEqual
  <1> QED BY <1>8 DEF d, e, c

LEMMA CutJoins ==
    ASSUME NEW k \in Nat, NEW m \in k .. Total, NEW upto \in m .. Total
    PROVE  Cut(k, m) \o Cut(m, upto) = Cut(k, upto)
  <1>1. k + 1 \in 1 .. Total + 1 /\ m \in (k + 1) - 1 .. Total /\ upto \in m .. Total
    BY TotalFacts
  <1> QED BY <1>1, PiecesFacts, ConcatAdjacentSubSeq DEF Cut

(* The piece at a place of a record says so.                                   *)
LEMMA PlaceOfPiece ==
    ASSUME NEW n \in Nat, NEW i \in 1 .. Size
    PROVE  (n * Size + i - 1) \div Size = n /\ (n * Size + i - 1) % Size = i - 1
  <1>1. PICK size \in Nat : size = Size /\ size > 0
    BY TotalFacts
  <1>2. \A a \in Nat, b \in Nat : b < size => (a * size + b) \div size = a /\ (a * size + b) % size = b
    <2> SUFFICES ASSUME NEW a \in Nat, NEW b \in Nat, b < size
                 PROVE  (a * size + b) \div size = a /\ (a * size + b) % size = b
      OBVIOUS
    <2>1. PICK k \in Nat : k = a * size
      OBVIOUS
    <2>2. PICK q \in Int, r \in Int : q = (k + b) \div size /\ r = (k + b) % size
      BY <1>1
    <2>3. k + b = size * q + r /\ 0 <= r /\ r < size
      BY <1>1, <2>2
    <2>4. ~(q >= a + 1)
      <3>1. ASSUME q >= a + 1 PROVE FALSE
        <4>1. size * q >= size * (a + 1)
          BY <1>1, <3>1
        <4>2. size * (a + 1) = k + size
          BY <1>1, <2>1
        <4>3. PICK p \in Int : p = size * q
          BY <1>1
        <4> QED BY <1>1, <2>3, <4>1, <4>2, <4>3
      <3> QED BY <3>1
    <2>5. ~(q <= a - 1)
      <3>1. ASSUME q <= a - 1 PROVE FALSE
        <4>1. size * q <= size * (a - 1)
          BY <1>1, <3>1
        <4>2. size * (a - 1) = k - size
          BY <1>1, <2>1
        <4>3. PICK p \in Int : p = size * q
          BY <1>1
        <4> QED BY <1>1, <2>3, <4>1, <4>2, <4>3
      <3> QED BY <3>1
    <2>6. q = a
      BY <2>2, <2>4, <2>5
    <2>7. r = b
      <3>1. size * q = k
        BY <1>1, <2>1, <2>6
      <3> QED BY <2>2, <2>3, <3>1
    <2> QED BY <2>1, <2>2, <2>6, <2>7
  <1>3. i - 1 \in Nat /\ i - 1 < size
    BY <1>1
  <1>4. (n * size + (i - 1)) \div size = n /\ (n * size + (i - 1)) % size = i - 1
    BY <1>2, <1>3
  <1>5. n * size + (i - 1) = n * size + i - 1
    <2>1. n * size \in Nat
      BY <1>1
    <2> QED BY <1>1, <2>1
  <1> QED BY <1>1, <1>4, <1>5


(* Schannel is given a record once all of it is there: the next one, whole.    *)
LEMMA RecordIsNext ==
    ASSUME NEW n \in Nat, NEW upto \in n * Size .. Total, NEW bytes, bytes = Cut(n * Size, upto),
           Records!Complete(bytes)
    PROVE  /\ Records!Whole(bytes) /\ Records!First(bytes) = n + 1
           /\ upto \in (n + 1) * Size .. Total /\ Records!Extra(bytes) = Cut((n + 1) * Size, upto)
  <1>1. PICK k \in Nat, size \in Nat :
          k = n * Size /\ size = Size /\ size > 0 /\ (n + 1) * Size = k + size
    BY TotalFacts
  <1>2. upto \in k .. Total
    BY <1>1
  <1>3. /\ bytes \in Seq(Bytes) /\ Len(bytes) = upto - k
        /\ \A i \in 1 .. upto - k : bytes[i] = Records!Pieces[k + i]
    BY <1>1, <1>2, CutFacts
  <1>4. size <= upto - k
    BY <1>1, <1>3 DEF Records!Complete
  <1>5. ASSUME NEW i \in 1 .. size PROVE bytes[i] = [record |-> n + 1, piece |-> i]
    <2>1. i \in 1 .. upto - k /\ k + i \in 1 .. Total
      BY <1>2, <1>4, TotalFacts
    <2>2. bytes[i] = Records!Pieces[k + i]
      BY <1>3, <2>1
    <2>3. Records!Pieces[k + i] = [record |-> ((k + i - 1) \div Size) + 1, piece |-> ((k + i - 1) % Size) + 1]
      BY <2>1 DEF Records!Pieces, Total
    <2>4. (k + i - 1) \div Size = n /\ (k + i - 1) % Size = i - 1
      BY <1>1, PlaceOfPiece
    <2>5. i - 1 + 1 = i
      OBVIOUS
    <2> QED BY <2>2, <2>3, <2>4, <2>5
  <1>6. Records!First(bytes) = n + 1 /\ bytes[1].piece = 1
    <2>1. 1 \in 1 .. size
      BY <1>1
    <2>2. bytes[1] = [record |-> n + 1, piece |-> 1]
      BY <1>5, <2>1
    <2> QED BY <2>2 DEF Records!First
  <1>7. Records!Whole(bytes)
    BY <1>1, <1>5, <1>6 DEF Records!Whole
  <1>8. Records!Extra(bytes) = Cut(k + size, upto)
    <2>1. SubSeq(Cut(k, upto), size + 1, upto - k) = Cut(k + size, k + (upto - k))
      <3>1. PICK b \in size .. upto - k : b = upto - k
        BY <1>2, <1>4, TotalFacts
      <3>2. SubSeq(Cut(k, upto), size + 1, b) = Cut(k + size, k + b)
        BY <1>2, CutOfCut
      <3> QED BY <3>1, <3>2
    <2>2. k + (upto - k) = upto
      BY <1>2, TotalFacts
    <2> QED BY <1>1, <1>3, <2>1, <2>2 DEF Records!Extra
  <1>9. upto \in (n + 1) * Size .. Total
    BY <1>1, <1>2, <1>4, TotalFacts
  <1> QED BY <1>1, <1>6, <1>7, <1>8, <1>9

(* TCP delivers some more.                                                     *)
LEMMA MoreArrives ==
    ASSUME NEW k \in Nat, NEW upto \in k .. Total, unsent = Cut(upto, Total), NEW m \in 1 .. Len(unsent)
    PROVE  /\ upto + m \in k .. Total
           /\ Cut(k, upto) \o Records!Arrived(m) = Cut(k, upto + m)
           /\ Records!Left(m) = Cut(upto + m, Total)
  <1>1. upto \in Nat /\ Total \in upto .. Total /\ Total \in Nat
    BY TotalFacts
  <1>2. Len(unsent) = Total - upto
    BY <1>1, CutFacts
  <1>3. m <= Total - upto /\ m \in Nat
    BY <1>1, <1>2
  <1>4. Records!Arrived(m) = Cut(upto, upto + m)
    <2>1. SubSeq(Cut(upto, Total), 0 + 1, m) = Cut(upto + 0, upto + m)
      <3>1. 0 \in Nat /\ m \in 0 .. Total - upto
        BY <1>1, <1>3
      <3> QED BY <1>1, <3>1, CutOfCut
    <2>2. 0 + 1 = 1 /\ upto + 0 = upto
      BY <1>1
    <2> QED BY <2>1, <2>2 DEF Records!Arrived
  <1>5. Records!Left(m) = Cut(upto + m, Total)
    <2>1. PICK b \in m .. Total - upto : b = Total - upto
      BY <1>1, <1>3
    <2>2. SubSeq(Cut(upto, Total), m + 1, b) = Cut(upto + m, upto + b)
      BY <1>1, <1>3, CutOfCut
    <2>3. upto + b = Total
      BY <1>1, <2>1
    <2> QED BY <1>2, <2>1, <2>2, <2>3 DEF Records!Left
  <1>6. upto + m \in upto .. Total
    BY <1>1, <1>3
  <1>7. Cut(k, upto) \o Cut(upto, upto + m) = Cut(k, upto + m)
    BY <1>1, <1>6, CutJoins
  <1> QED BY <1>1, <1>4, <1>5, <1>6, <1>7

LEMMA RecordsInit == ASSUME Records!Init PROVE RecordsInv
  <1>1. /\ unsent = Records!Pieces /\ incoming = <<>> /\ encrypted = <<>> /\ phase = "handshake" /\ fed = <<>>
    BY DEF Records!Init
  <1>2. 0 * Size = 0 /\ 0 \in 0 .. Total /\ Total \in Nat
    BY TotalFacts
  <1>3. Cut(0, 0) = <<>> /\ Cut(0, Total) = Records!Pieces
    BY <1>2, PiecesFacts, SubSeqFull, SubSeqEmpty DEF Cut
  <1>4. incoming \o encrypted = Cut(0, 0)
    BY <1>1, <1>3
  <1>5. /\ incoming \o encrypted = Cut(Len(fed) * Size, 0) /\ unsent = Cut(0, Total)
        /\ 0 \in Len(fed) * Size .. Total
    <2>1. Len(fed) * Size = 0
      BY <1>1, <1>2
    <2> QED BY <1>1, <1>2, <1>3, <1>4, <2>1
  <1>6. fed \in Seq(Nat) /\ \A i \in DOMAIN fed : fed[i] = i
    BY <1>1
  <1>7. \E upto \in Len(fed) * Size .. Total :
          /\ incoming \o encrypted = Cut(Len(fed) * Size, upto)
          /\ unsent = Cut(upto, Total)
    BY <1>5
  <1>8. incoming \in Seq(Bytes) /\ encrypted \in Seq(Bytes)
    BY <1>1
  <1> QED BY <1>1, <1>6, <1>7, <1>8 DEF RecordsInv, Cut


LEMMA FedGrows ==
    ASSUME fed \in Seq(Nat), \A i \in DOMAIN fed : fed[i] = i, NEW n, n = Len(fed) + 1,
           fed' = Append(fed, n)
    PROVE  fed' \in Seq(Nat) /\ Len(fed') = n /\ \A i \in DOMAIN fed' : fed'[i] = i
  <1>1. Len(fed) \in Nat /\ n \in Nat /\ DOMAIN fed = 1 .. Len(fed)
    OBVIOUS
  <1>2. /\ fed' \in Seq(Nat) /\ Len(fed') = n /\ DOMAIN fed' = 1 .. Len(fed) + 1
        /\ \A i \in 1 .. Len(fed) : fed'[i] = fed[i]
        /\ fed'[Len(fed) + 1] = n
    BY <1>1, AppendProperties, LenProperties
  <1> QED BY <1>1, <1>2

LEMMA RecordsStep == ASSUME RecordsInv, Records!Next \/ UNCHANGED records PROVE RecordsInv'
  <1>1. PICK upto \in Len(fed) * Size .. Total :
          /\ incoming \o encrypted = Cut(Len(fed) * Size, upto)
          /\ unsent = Cut(upto, Total)
    BY DEF RecordsInv, Cut
  <1>2. PICK n : n = Len(fed)
    OBVIOUS
  <1>3. /\ n \in Nat /\ fed \in Seq(Nat) /\ \A i \in DOMAIN fed : fed[i] = i
        /\ incoming = <<>> \/ encrypted = <<>>
        /\ phase = "handshake" => encrypted = <<>>
        /\ phase = "open" => incoming = <<>>
        /\ phase \in {"handshake", "open", "failed"}
    BY <1>2 DEF RecordsInv
  <1>4. upto \in n * Size .. Total /\ n * Size \in Nat /\ n + 1 \in Nat /\ upto \in Nat /\ Total \in Nat
    BY <1>1, <1>2, <1>3, TotalFacts
  <1>5. /\ encrypted = <<>> => incoming = Cut(n * Size, upto)
        /\ incoming = <<>> => encrypted = Cut(n * Size, upto)
    <2>1. incoming \in Seq(Bytes) /\ encrypted \in Seq(Bytes)
      BY DEF RecordsInv
    <2>2. ASSUME incoming = <<>> PROVE encrypted = Cut(n * Size, upto)
      BY <1>1, <1>2, <2>1, <2>2, ConcatEmptySeq
    <2>3. ASSUME encrypted = <<>> PROVE incoming = Cut(n * Size, upto)
      BY <1>1, <1>2, <2>1, <2>3, ConcatEmptySeq
    <2> QED BY <2>2, <2>3
  (* What a step has to show. *)
  <1>6. ASSUME NEW m \in Nat, m = Len(fed'), fed' \in Seq(Nat), \A i \in DOMAIN fed' : fed'[i] = i,
               NEW u \in m * Size .. Total, NEW bytes, bytes = Cut(m * Size, u), unsent' = Cut(u, Total),
               phase' \in {"handshake", "open", "failed"},
               \/ phase' /= "open" /\ encrypted' = <<>> /\ incoming' = bytes
               \/ phase' /= "handshake" /\ incoming' = <<>> /\ encrypted' = bytes
        PROVE  RecordsInv'
    <2>1. bytes \in Seq(Bytes)
      <3>1. m * Size \in Nat
        BY TotalFacts
      <3> QED BY <1>6, <3>1, CutFacts
    <2>2. incoming' \o encrypted' = bytes
      BY <1>6, <2>1, ConcatEmptySeq
    <2>3. /\ incoming' \o encrypted' = Cut(Len(fed') * Size, u) /\ u \in Len(fed') * Size .. Total
      BY <1>6, <2>2
    <2>4. incoming' \in Seq(Bytes) /\ encrypted' \in Seq(Bytes)
      <3>1. <<>> \in Seq(Bytes)
        OBVIOUS
      <3>2. \/ encrypted' = <<>> /\ incoming' = bytes
            \/ incoming' = <<>> /\ encrypted' = bytes
        BY <1>6
      <3> QED BY <2>1, <3>1, <3>2, Zenon
    <2> QED BY <1>6, <2>3, <2>4 DEF RecordsInv, Cut, Bytes, Records!Pieces, Total
  <1>7. CASE UNCHANGED records
    BY <1>7 DEF records, RecordsInv, Bytes, Records!Pieces
  <1>8. CASE Records!LegsExhausted
    BY <1>8 DEF Records!LegsExhausted, RecordsInv, Bytes, Records!Pieces
  <1>9. CASE Records!Leg
    <2>1. /\ phase = "handshake" /\ encrypted = <<>> /\ incoming = Cut(n * Size, upto)
      BY <1>3, <1>5, <1>9 DEF Records!Leg
    <2>2. CASE Records!Complete(incoming) /\ fed' = Append(fed, IF Records!Whole(incoming) THEN Records!First(incoming) ELSE 0)
      <3>1. /\ Records!Whole(incoming) /\ Records!First(incoming) = n + 1
            /\ upto \in (n + 1) * Size .. Total /\ Records!Extra(incoming) = Cut((n + 1) * Size, upto)
        BY <1>3, <1>4, <2>1, <2>2, RecordIsNext
      <3>2. fed' = Append(fed, n + 1)
        BY <2>2, <3>1, Zenon
      <3>3. fed' \in Seq(Nat) /\ Len(fed') = n + 1 /\ \A i \in DOMAIN fed' : fed'[i] = i
        BY <1>2, <1>3, <3>2, FedGrows
      <3>4. CASE phase' = "open" /\ encrypted' = Records!Preserved(incoming) /\ incoming' = <<>> /\ UNCHANGED unsent
        <4>1. encrypted' = Cut((n + 1) * Size, upto) /\ unsent' = Cut(upto, Total)
          BY <1>1, <3>1, <3>4 DEF Records!Preserved
        <4> QED BY <1>4, <1>6, <3>1, <3>3, <3>4, <4>1
      <3>5. CASE UNCHANGED <<phase, encrypted>> /\ incoming' = Records!Preserved(incoming) /\ UNCHANGED unsent
        <4>1. incoming' = Cut((n + 1) * Size, upto) /\ unsent' = Cut(upto, Total)
          BY <1>1, <3>1, <3>5 DEF Records!Preserved
        <4> QED BY <1>4, <1>6, <2>1, <3>1, <3>3, <3>5, <4>1
      <3>6. ASSUME UNCHANGED <<phase, encrypted>>, Records!Preserved(incoming) = <<>>, NEW m \in 1 .. Len(unsent),
                   incoming' = Records!Arrived(m), unsent' = Records!Left(m)
            PROVE  RecordsInv'
        <4>1. PICK k \in Nat : k = (n + 1) * Size
          BY <1>4, TotalFacts
        <4>2. /\ upto + m \in k .. Total /\ Cut(k, upto) \o Records!Arrived(m) = Cut(k, upto + m)
              /\ Records!Left(m) = Cut(upto + m, Total)
          BY <1>1, <3>1, <3>6, <4>1, MoreArrives
        <4>3. Cut(k, upto) = <<>>
          BY <3>1, <3>6, <4>1 DEF Records!Preserved
        <4>4. Records!Arrived(m) = Cut(k, upto + m)
          <5>1. Records!Arrived(m) \in Seq(Bytes)
            <6>1. unsent \in Seq(Bytes)
              BY <1>1, <1>4, CutFacts
            <6>2. \A i \in 1 .. m : unsent[i] \in Bytes
              <7> SUFFICES ASSUME NEW i \in 1 .. m PROVE unsent[i] \in Bytes
                OBVIOUS
              <7>1. i \in 1 .. Len(unsent)
                BY <3>6, <6>1
              <7> QED BY <6>1, <7>1, ElementOfSeq
            <6>3. 1 \in Int /\ m \in Int
              BY <3>6, <6>1
            <6> QED BY <6>2, <6>3, SubSeqProperties DEF Records!Arrived
          <5> QED BY <4>2, <4>3, <5>1, ConcatEmptySeq
        <4>5. PICK u \in (n + 1) * Size .. Total : u = upto + m
          BY <4>1, <4>2
        <4>6. incoming' = Cut((n + 1) * Size, u) /\ unsent' = Cut(u, Total)
          BY <3>6, <4>1, <4>2, <4>4, <4>5
        <4> QED BY <1>4, <1>6, <2>1, <3>3, <3>6, <4>6
      <3> QED BY <1>9, <2>2, <3>4, <3>5, <3>6 DEF Records!Leg
    <2>3. ASSUME ~Records!Complete(incoming), NEW m \in 1 .. Len(unsent),
                 incoming' = incoming \o Records!Arrived(m), unsent' = Records!Left(m),
                 UNCHANGED <<phase, encrypted, fed>>
          PROVE  RecordsInv'
      <3>1. /\ upto + m \in n * Size .. Total
            /\ Cut(n * Size, upto) \o Records!Arrived(m) = Cut(n * Size, upto + m)
            /\ Records!Left(m) = Cut(upto + m, Total)
        BY <1>1, <1>4, <2>3, MoreArrives
      <3>2. PICK u \in n * Size .. Total : u = upto + m
        BY <3>1
      <3>3. incoming' = Cut(n * Size, u) /\ unsent' = Cut(u, Total)
        BY <2>1, <2>3, <3>1, <3>2
      <3> QED BY <1>2, <1>3, <1>6, <2>1, <2>3, <3>3
    <2>4. Records!Complete(incoming) \/ ~Records!Complete(incoming)
      OBVIOUS
    <2> QED BY <1>9, <2>2, <2>3, <2>4 DEF Records!Leg
  <1>10. CASE Records!ReadPending
    <2>1. /\ phase = "open" /\ incoming = <<>> /\ encrypted = Cut(n * Size, upto) /\ Records!Complete(encrypted)
          /\ fed' = Append(fed, IF Records!Whole(encrypted) THEN Records!First(encrypted) ELSE 0)
          /\ encrypted' = Records!Extra(encrypted) /\ unsent' = unsent /\ incoming' = incoming /\ phase' = phase
      BY <1>3, <1>5, <1>10 DEF Records!ReadPending
    <2>2. /\ Records!Whole(encrypted) /\ Records!First(encrypted) = n + 1
          /\ upto \in (n + 1) * Size .. Total /\ Records!Extra(encrypted) = Cut((n + 1) * Size, upto)
      BY <1>3, <1>4, <2>1, RecordIsNext
    <2>3. fed' = Append(fed, n + 1)
      BY <2>1, <2>2, Zenon
    <2>4. fed' \in Seq(Nat) /\ Len(fed') = n + 1 /\ \A i \in DOMAIN fed' : fed'[i] = i
      BY <1>2, <1>3, <2>3, FedGrows
    <2> QED BY <1>1, <1>4, <1>6, <2>1, <2>2, <2>4
  <1>11. CASE Records!ReadMore
    <2>1. /\ phase = "open" /\ incoming = <<>> /\ encrypted = Cut(n * Size, upto)
          /\ incoming' = incoming /\ phase' = phase /\ fed' = fed
      BY <1>3, <1>5, <1>11 DEF Records!ReadMore
    <2>2. PICK m \in 1 .. Len(unsent) :
            encrypted' = encrypted \o Records!Arrived(m) /\ unsent' = Records!Left(m)
      BY <1>11 DEF Records!ReadMore
    <2>3. /\ upto + m \in n * Size .. Total
          /\ Cut(n * Size, upto) \o Records!Arrived(m) = Cut(n * Size, upto + m)
          /\ Records!Left(m) = Cut(upto + m, Total)
      BY <1>1, <1>4, <2>2, MoreArrives
    <2>4. PICK u \in n * Size .. Total : u = upto + m
      BY <2>3
    <2>5. encrypted' = Cut(n * Size, u) /\ unsent' = Cut(u, Total)
      BY <2>1, <2>2, <2>3, <2>4
    <2> QED BY <1>2, <1>3, <1>6, <2>1, <2>5
  <1> QED BY <1>7, <1>8, <1>9, <1>10, <1>11 DEF Records!Next

LEMMA RecordsImplies == ASSUME RecordsInv PROVE Records!EveryRecordOnce
  <1>1. PICK upto \in Len(fed) * Size .. Total :
          /\ incoming \o encrypted = Cut(Len(fed) * Size, upto)
          /\ unsent = Cut(upto, Total)
    BY DEF RecordsInv, Cut
  <1>2. Len(fed) \in Nat
    BY DEF RecordsInv
  <1>3. PICK k \in Nat : k = Len(fed) * Size
    BY <1>2, TotalFacts
  <1>4. upto \in k .. Total /\ Total \in upto .. Total
    BY <1>1, <1>3, TotalFacts
  <1>5. Cut(k, upto) \o Cut(upto, Total) = Cut(k, Total)
    BY <1>4, CutJoins
  <1>6. (incoming \o encrypted) \o unsent = SubSeq(Records!Pieces, Len(fed) * Size + 1, Len(Records!Pieces))
    BY <1>1, <1>3, <1>5, PiecesFacts DEF Cut
  <1> QED BY <1>6 DEF RecordsInv, Records!EveryRecordOnce


-----------------------------------------------------------------------------
(* The receivers of a QUIC connection.                                         *)

LEMMA InboxInit ==
    ASSUME NEW library \in Libraries, NEW other \in Libraries, Inbox(other)!Init PROVE InboxInv(library)
  <1>1. /\ arrived = [k \in Inbox(library)!Kinds |-> {}] /\ inbox = [k \in Inbox(library)!Kinds |-> <<>>]
        /\ read = [k \in Inbox(library)!Kinds |-> <<>>] /\ refused = [k \in Inbox(library)!Kinds |-> {}]
    BY DEF Inbox!Init, Inbox!Kinds
  <1>2. <<>> \in Seq(Nat) /\ {} \in SUBSET Nat
    OBVIOUS
  <1>3. /\ arrived \in [Inbox(library)!Kinds -> SUBSET Nat] /\ refused \in [Inbox(library)!Kinds -> SUBSET Nat]
        /\ inbox \in [Inbox(library)!Kinds -> Seq(Nat)] /\ read \in [Inbox(library)!Kinds -> Seq(Nat)]
    BY <1>1, <1>2
  <1>4. ASSUME NEW k \in Inbox(library)!Kinds
        PROVE  arrived[k] = {} /\ refused[k] = {} /\ Arriving(k) = <<>> /\ read[k] = <<>>
    BY <1>1, <1>4 DEF Arriving
  <1> QED BY <1>3, <1>4 DEF InboxInv, OfKind


(* What arrives is the next of its kind; it is put behind the others, or       *)
(* refused, which for what may not be skipped is an error.                     *)
IsNext(k, n, came) == n \in Nat \ {0} /\ n \notin came /\ (k /= "datagram" => \A m \in 1 .. n - 1 : m \in came)

LEMMA NextIsLargest ==
    ASSUME NEW k, k /= "datagram", NEW came, came \subseteq Nat, NEW n, IsNext(k, n, came),
           \A x \in came : \A m \in 1 .. x - 1 : m \in came
    PROVE  \A x \in came : x < n
  <1> SUFFICES ASSUME NEW x \in came PROVE x < n
    OBVIOUS
  <1>1. x \in Nat /\ n \in Nat /\ n >= 1 /\ x /= n
    BY DEF IsNext
  <1>2. ASSUME n < x PROVE FALSE
    <2>1. n \in 1 .. x - 1
      BY <1>1, <1>2
    <2> QED BY <2>1 DEF IsNext
  <1> QED BY <1>1, <1>2

LEMMA CameNext ==
    ASSUME NEW k, k /= "datagram", NEW came, came \subseteq Nat, NEW n, IsNext(k, n, came),
           \A x \in came : \A m \in 1 .. x - 1 : m \in came
    PROVE  \A x \in came \cup {n} : \A m \in 1 .. x - 1 : m \in came \cup {n}
  BY DEF IsNext

LEMMA Refuses ==
    ASSUME NEW k, NEW delivery, NEW came, came \subseteq Nat, NEW over, NEW given, NEW errs, NEW library,
           OfKind(k, delivery, came, over, given, errs, library), NEW n, IsNext(k, n, came),
           NEW more, errs \subseteq more, ~Skippable(k, library) => Inbox(library)!Place(k) \in more,
           \A i \in DOMAIN given : given[i] \in came
    PROVE  OfKind(k, delivery, came \cup {n}, over \cup {n}, given, more, library)
  <1>1. \A i \in DOMAIN delivery : delivery[i] \in came \cup {n}
    BY DEF OfKind
  <1>2. ASSUME k /= "datagram"
        PROVE  /\ \A i, j \in DOMAIN delivery : i < j => delivery[i] < delivery[j]
               /\ \A x \in came \cup {n} : \A m \in 1 .. x - 1 : m \in came \cup {n}
               /\ \A x \in (came \cup {n}) \ (over \cup {n}) : \E i \in DOMAIN delivery : delivery[i] = x
    <2>1. \A x \in came : \A m \in 1 .. x - 1 : m \in came
      BY <1>2 DEF OfKind
    <2> QED BY <1>2, <2>1, CameNext DEF OfKind
  <1>3. ASSUME ~Skippable(k, library), NEW x \in over \cup {n}
        PROVE  Inbox(library)!Place(k) \in more /\ \A i \in DOMAIN given : given[i] < x
    <2>1. k /= "datagram"
      BY <1>3 DEF Skippable
    <2>2. \A y \in came : y < n
      BY <2>1, NextIsLargest DEF OfKind
    <2>3. CASE x = n
      BY <1>3, <2>2, <2>3
    <2>4. CASE x \in over
      BY <1>3, <2>4 DEF OfKind
    <2> QED BY <1>3, <2>3, <2>4
  <1> QED BY <1>1, <1>2, <1>3 DEF OfKind

LEMMA Queues ==
    ASSUME NEW k, NEW delivery, delivery \in Seq(Nat), NEW came, came \subseteq Nat, NEW over, NEW given,
           NEW errs, NEW library, OfKind(k, delivery, came, over, given, errs, library),
           NEW n, IsNext(k, n, came)
    PROVE  OfKind(k, Append(delivery, n), came \cup {n}, over, given, errs, library)
  <1> DEFINE more == Append(delivery, n)
  <1>1. n \in Nat /\ n \notin came /\ Len(delivery) \in Nat
    BY DEF IsNext
  <1>2. /\ DOMAIN delivery = 1 .. Len(delivery) /\ DOMAIN more = 1 .. Len(delivery) + 1
        /\ \A i \in 1 .. Len(delivery) : more[i] = delivery[i]
        /\ more[Len(delivery) + 1] = n
    BY <1>1, AppendProperties, LenProperties
  <1> HIDE DEF more
  <1>3. \A i \in DOMAIN delivery : delivery[i] \in came
    BY DEF OfKind
  <1>4. \A i \in DOMAIN more : more[i] \in came \cup {n}
    BY <1>1, <1>2, <1>3
  <1>5. \A i, j \in DOMAIN more : i < j => more[i] /= more[j]
    <2> SUFFICES ASSUME NEW i \in DOMAIN more, NEW j \in DOMAIN more, i < j PROVE more[i] /= more[j]
      OBVIOUS
    <2>1. i \in DOMAIN delivery /\ more[i] = delivery[i] /\ more[i] \in came
      BY <1>1, <1>2, <1>3
    <2>2. CASE j \in DOMAIN delivery
      <3>1. delivery[i] /= delivery[j]
        BY <2>1, <2>2 DEF OfKind
      <3> QED BY <1>2, <2>1, <2>2, <3>1
    <2>3. CASE j = Len(delivery) + 1
      BY <1>1, <1>2, <2>1, <2>3
    <2> QED BY <1>1, <1>2, <2>2, <2>3
  <1>6. ASSUME k /= "datagram"
        PROVE  /\ \A i, j \in DOMAIN more : i < j => more[i] < more[j]
               /\ \A x \in came \cup {n} : \A m \in 1 .. x - 1 : m \in came \cup {n}
               /\ \A x \in (came \cup {n}) \ over : \E i \in DOMAIN more : more[i] = x
    <2>1. \A x \in came : \A m \in 1 .. x - 1 : m \in came
      BY <1>6 DEF OfKind
    <2>2. \A x \in came : x < n
      BY <1>6, <2>1, NextIsLargest
    <2>3. ASSUME NEW i \in DOMAIN more, NEW j \in DOMAIN more, i < j PROVE more[i] < more[j]
      <3>1. i \in DOMAIN delivery /\ more[i] = delivery[i] /\ more[i] \in came
        BY <1>1, <1>2, <1>3, <2>3
      <3>2. CASE j \in DOMAIN delivery
        <4>1. delivery[i] < delivery[j]
          BY <1>6, <2>3, <3>1, <3>2 DEF OfKind
        <4> QED BY <1>2, <3>1, <3>2, <4>1
      <3>3. CASE j = Len(delivery) + 1
        BY <1>1, <1>2, <2>2, <3>1, <3>3
      <3> QED BY <1>1, <1>2, <3>2, <3>3
    <2>4. ASSUME NEW x \in (came \cup {n}) \ over PROVE \E i \in DOMAIN more : more[i] = x
      <3>1. CASE x = n
        <4>1. Len(delivery) + 1 \in DOMAIN more
          BY <1>1, <1>2
        <4> QED BY <1>2, <3>1, <4>1
      <3>2. CASE x \in came
        <4>1. PICK i \in DOMAIN delivery : delivery[i] = x
          BY <1>6, <2>4, <3>2 DEF OfKind
        <4>2. i \in DOMAIN more /\ more[i] = x
          BY <1>1, <1>2, <4>1
        <4> QED BY <4>2
      <3> QED BY <2>4, <3>1, <3>2
    <2> QED BY <1>6, <2>1, <2>3, <2>4, CameNext
  <1>7. ~Skippable(k, library) => \A x \in over :
          Inbox(library)!Place(k) \in errs /\ \A i \in DOMAIN given : given[i] < x
    BY DEF OfKind
  <1>8. OfKind(k, more, came \cup {n}, over, given, errs, library)
    BY <1>4, <1>5, <1>6, <1>7 DEF OfKind
  <1> QED BY <1>8 DEF more


LEMMA InboxStays ==
    ASSUME NEW library \in Libraries, InboxInv(library), UNCHANGED <<arrived, inbox, read, refused>>,
           errors \subseteq errors'
    PROVE  InboxInv(library)'
  <1>1. ASSUME NEW k \in Inbox(library)!Kinds
        PROVE  OfKind(k, Arriving(k), arrived[k], refused[k], read[k], errors', library)
    <2>1. OfKind(k, Arriving(k), arrived[k], refused[k], read[k], errors, library)
      BY DEF InboxInv
    <2> QED BY <2>1 DEF OfKind
  <1>2. \A k \in Inbox(library)!Kinds : Arriving(k)' = Arriving(k)
    BY DEF Arriving
  <1> QED BY <1>1, <1>2 DEF InboxInv, OfKind, Inbox!Kinds

LEMMA ArrivingFacts ==
    ASSUME NEW library \in Libraries, InboxInv(library), NEW k \in Inbox(library)!Kinds
    PROVE  /\ read[k] \in Seq(Nat) /\ inbox[k] \in Seq(Nat) /\ Arriving(k) \in Seq(Nat)
           /\ arrived[k] \subseteq Nat
           /\ \A i \in DOMAIN read[k] : i \in DOMAIN Arriving(k) /\ Arriving(k)[i] = read[k][i] /\ read[k][i] \in Nat
           /\ \A i \in DOMAIN read[k] : i \in Nat /\ \A j \in DOMAIN Arriving(k) : j < i => j \in DOMAIN read[k]
  <1>1. read[k] \in Seq(Nat) /\ inbox[k] \in Seq(Nat) /\ arrived[k] \in SUBSET Nat
    BY DEF InboxInv
  <1>2. PICK r \in Seq(Nat), q \in Seq(Nat) : r = read[k] /\ q = inbox[k]
    BY <1>1
  <1>3. /\ r \o q \in Seq(Nat) /\ DOMAIN r = 1 .. Len(r) /\ DOMAIN (r \o q) = 1 .. Len(r) + Len(q)
        /\ \A i \in DOMAIN r : (r \o q)[i] = r[i] /\ r[i] \in Nat
        /\ Len(r) \in Nat /\ Len(q) \in Nat
    BY SeenMore
  <1>4. \A i \in DOMAIN r : i \in DOMAIN (r \o q) /\ i \in Nat /\ \A j \in DOMAIN (r \o q) : j < i => j \in DOMAIN r
    BY <1>3
  <1> QED BY <1>1, <1>2, <1>3, <1>4 DEF Arriving

LEMMA ReadsKeep ==
    ASSUME NEW library \in Libraries, InboxInv(library), NEW kind \in Inbox(library)!Kinds,
           Inbox(library)!Reads(kind)
    PROVE  InboxInv(library)'
  <1> DEFINE K == Inbox(library)!Kinds
  <1>1. /\ Inbox(library)!Place(kind) \notin errors /\ inbox[kind] /= <<>>
        /\ read' = [read EXCEPT ![kind] = Append(read[kind], Head(inbox[kind]))]
        /\ inbox' = [inbox EXCEPT ![kind] = Tail(inbox[kind])]
        /\ arrived' = arrived /\ refused' = refused /\ errors' = errors
    BY DEF Inbox!Reads, Inbox!MayRead
  <1>2. /\ arrived \in [K -> SUBSET Nat] /\ refused \in [K -> SUBSET Nat]
        /\ inbox \in [K -> Seq(Nat)] /\ read \in [K -> Seq(Nat)]
    BY DEF InboxInv
  <1> HIDE DEF K
  <1>3. /\ Append(read[kind], Head(inbox[kind])) \o Tail(inbox[kind]) = read[kind] \o inbox[kind]
        /\ Append(read[kind], Head(inbox[kind])) \in Seq(Nat) /\ Tail(inbox[kind]) \in Seq(Nat)
    <2>1. PICK r \in Seq(Nat), q \in Seq(Nat) : r = read[kind] /\ q = inbox[kind]
      BY <1>2 DEF K
    <2> QED BY <1>1, <2>1, HeadIsSeen
  <1>4. inbox' \in [K -> Seq(Nat)] /\ read' \in [K -> Seq(Nat)]
    BY <1>1, <1>2, <1>3
  <1>5. ASSUME NEW k \in K
        PROVE  OfKind(k, Arriving(k)', arrived'[k], refused'[k], read'[k], errors', library)
    <2>0. OfKind(k, Arriving(k), arrived[k], refused[k], read[k], errors, library)
      BY DEF InboxInv, K
    <2>1. Arriving(k)' = Arriving(k)
      <3>1. CASE k = kind
        BY <1>1, <1>2, <1>3, <3>1 DEF Arriving
      <3>2. CASE k /= kind
        BY <1>1, <1>2, <3>2 DEF Arriving
      <3> QED BY <3>1, <3>2
    <2>2. CASE k = kind
      <3>1. ~Skippable(k, library) => refused[k] = {}
        BY <1>1, <2>0, <2>2 DEF OfKind
      <3> QED BY <1>1, <2>0, <2>1, <3>1 DEF OfKind
    <2>3. CASE k /= kind
      <3>1. read'[k] = read[k]
        BY <1>1, <1>2, <2>3
      <3> QED BY <1>1, <2>0, <2>1, <3>1
    <2> QED BY <2>2, <2>3
  <1> QED BY <1>1, <1>2, <1>4, <1>5 DEF InboxInv, OfKind, Inbox!Kinds, K

LEMMA ArrivesKeeps ==
    ASSUME NEW library \in Libraries, InboxInv(library), NEW kind \in Inbox(library)!Kinds,
           NEW n \in Inbox(library)!Sent, Inbox(library)!Arrives(kind, n)
    PROVE  InboxInv(library)'
  <1> DEFINE K == Inbox(library)!Kinds
  <1>1. /\ arrived' = [arrived EXCEPT ![kind] = arrived[kind] \cup {n}] /\ read' = read
        /\ Inbox(library)!InOrder(kind, n)
        /\ library = "network" /\ kind = "message" => ~Inbox(library)!Full(kind) /\ "stream" \notin errors
    BY DEF Inbox!Arrives
  <1>2. /\ arrived \in [K -> SUBSET Nat] /\ refused \in [K -> SUBSET Nat]
        /\ inbox \in [K -> Seq(Nat)] /\ read \in [K -> Seq(Nat)]
    BY DEF InboxInv
  <1>3. IsNext(kind, n, arrived[kind]) /\ n \in Nat
    BY <1>1, QuicAssumption DEF IsNext, Inbox!InOrder, Inbox!Sent, Inbox!QuicInboxConstants
  <1> HIDE DEF K
  <1>4. arrived' \in [K -> SUBSET Nat]
    <2>1. arrived[kind] \cup {n} \in SUBSET Nat
      BY <1>2, <1>3 DEF K
    <2> QED BY <1>1, <1>2, <2>1
  <1>5. OfKind(kind, Arriving(kind), arrived[kind], refused[kind], read[kind], errors, library)
        /\ arrived[kind] \subseteq Nat /\ Arriving(kind) \in Seq(Nat)
        /\ \A i \in DOMAIN read[kind] : read[kind][i] \in arrived[kind]
    BY ArrivingFacts DEF InboxInv, OfKind
  <1>6. ASSUME NEW k \in K, k /= kind, inbox'[k] = inbox[k], refused'[k] = refused[k], errors \subseteq errors'
        PROVE  OfKind(k, Arriving(k)', arrived'[k], refused'[k], read'[k], errors', library)
    <2>1. OfKind(k, Arriving(k), arrived[k], refused[k], read[k], errors, library)
      BY DEF InboxInv, K
    <2>2. Arriving(k)' = Arriving(k) /\ arrived'[k] = arrived[k] /\ read'[k] = read[k]
      BY <1>1, <1>2, <1>6 DEF Arriving
    <2> QED BY <1>6, <2>1, <2>2 DEF OfKind
  <1>7. ASSUME refused' = [refused EXCEPT ![kind] = refused[kind] \cup {n}], inbox' = inbox,
               errors \subseteq errors', ~Skippable(kind, library) => Inbox(library)!Place(kind) \in errors'
        PROVE  InboxInv(library)'
    <2>1. refused' \in [K -> SUBSET Nat]
      <3>1. refused[kind] \cup {n} \in SUBSET Nat
        BY <1>2, <1>3 DEF K
      <3> QED BY <1>2, <1>7, <3>1
    <2>2. ASSUME NEW k \in K
          PROVE  OfKind(k, Arriving(k)', arrived'[k], refused'[k], read'[k], errors', library)
      <3>1. CASE k = kind
        <4>1. /\ Arriving(k)' = Arriving(kind) /\ arrived'[k] = arrived[kind] \cup {n}
              /\ refused'[k] = refused[kind] \cup {n} /\ read'[k] = read[kind]
          BY <1>1, <1>2, <1>7, <3>1 DEF Arriving
        <4>2. OfKind(kind, Arriving(kind), arrived[kind] \cup {n}, refused[kind] \cup {n}, read[kind], errors', library)
          BY <1>3, <1>5, <1>7, Refuses
        <4> QED BY <3>1, <4>1, <4>2
      <3>2. CASE k /= kind
        <4>1. inbox'[k] = inbox[k] /\ refused'[k] = refused[k]
          BY <1>2, <1>7, <3>2
        <4> QED BY <1>6, <1>7, <3>2, <4>1
      <3> QED BY <3>1, <3>2
    <2> QED BY <1>1, <1>2, <1>4, <1>7, <2>1, <2>2 DEF InboxInv, OfKind, Inbox!Kinds, K
  <1>8. ASSUME inbox' = [inbox EXCEPT ![kind] = Append(inbox[kind], n)], refused' = refused, errors' = errors
        PROVE  InboxInv(library)'
    <2>0. PICK r \in Seq(Nat), q \in Seq(Nat) : r = read[kind] /\ q = inbox[kind]
      BY <1>2 DEF K
    <2>1. Append(q, n) \in Seq(Nat) /\ r \o Append(q, n) = Append(r \o q, n)
      <3>1. Append(q, n) = q \o <<n>> /\ Append(r \o q, n) = (r \o q) \o <<n>> /\ Append(q, n) \in Seq(Nat)
        BY <1>3, AppendIsConcat, AppendProperties, ConcatProperties
      <3>2. <<n>> \in Seq(Nat)
        BY <1>3
      <3>3. (r \o q) \o <<n>> = r \o (q \o <<n>>)
        BY <3>2, NatGrouping, Zenon
      <3> QED BY <3>1, <3>3, Zenon
    <2>2. inbox' \in [K -> Seq(Nat)]
      BY <1>2, <1>8, <2>0, <2>1
    <2>3. ASSUME NEW k \in K
          PROVE  OfKind(k, Arriving(k)', arrived'[k], refused'[k], read'[k], errors', library)
      <3>1. CASE k = kind
        <4>1. /\ Arriving(k)' = Append(Arriving(kind), n) /\ arrived'[k] = arrived[kind] \cup {n}
              /\ refused'[k] = refused[kind] /\ read'[k] = read[kind]
          BY <1>1, <1>2, <1>8, <2>0, <2>1, <3>1 DEF Arriving
        <4>2. OfKind(kind, Append(Arriving(kind), n), arrived[kind] \cup {n}, refused[kind], read[kind], errors, library)
          BY <1>3, <1>5, Queues
        <4> QED BY <1>8, <3>1, <4>1, <4>2
      <3>2. CASE k /= kind
        <4>1. inbox'[k] = inbox[k] /\ refused'[k] = refused[k] /\ errors \subseteq errors'
          BY <1>2, <1>8, <3>2
        <4> QED BY <1>6, <3>2, <4>1
      <3> QED BY <3>1, <3>2
    <2> QED BY <1>1, <1>2, <1>4, <1>8, <2>2, <2>3 DEF InboxInv, OfKind, Inbox!Kinds, K
  <1>9. CASE /\ kind = "message" /\ "stream" \in errors
             /\ refused' = [refused EXCEPT ![kind] = @ \cup {n}] /\ UNCHANGED <<inbox, errors>>
    <2>1. Inbox(library)!Place(kind) \in errors'
      BY <1>9 DEF Inbox!Place
    <2> QED BY <1>7, <1>9, <2>1
  <1>10. CASE /\ ~(kind = "message" /\ "stream" \in errors) /\ Inbox(library)!Full(kind)
              /\ refused' = [refused EXCEPT ![kind] = @ \cup {n}]
              /\ errors' = Inbox(library)!Overflows(kind) /\ UNCHANGED inbox
    <2>1. errors \subseteq errors'
      BY <1>10 DEF Inbox!Overflows
    <2>2. ~Skippable(kind, library) => library = "msquic"
      <3>1. kind \in {"stream", "message", "datagram"} /\ library \in {"msquic", "network"}
        BY DEF Inbox!Kinds, Libraries
      <3> QED BY <1>1, <1>10, <3>1 DEF Skippable
    <2>3. library = "msquic" => Inbox(library)!Place(kind) \in errors'
      BY <1>10 DEF Inbox!Overflows
    <2> QED BY <1>7, <1>10, <2>1, <2>2, <2>3
  <1>11. CASE /\ inbox' = [inbox EXCEPT ![kind] = Append(@, n)] /\ UNCHANGED <<refused, errors>>
    BY <1>8, <1>11
  <1> QED BY <1>9, <1>10, <1>11 DEF Inbox!Arrives

LEMMA InboxStep ==
    ASSUME NEW library \in Libraries, InboxInv(library), Inbox(library)!Next PROVE InboxInv(library)'
  <1>1. ASSUME Inbox(library)!Aborted \/ Inbox(library)!Ends \/ Inbox(library)!Closes
               \/ Inbox(library)!ReadTimesOut
        PROVE  InboxInv(library)'
    <2>1. UNCHANGED <<arrived, inbox, read, refused>> /\ errors \subseteq errors'
      BY <1>1 DEF Inbox!Aborted, Inbox!Ends, Inbox!Closes, Inbox!ReadTimesOut
    <2> QED BY <2>1, InboxStays
  <1> QED BY <1>1, ReadsKeep, ArrivesKeeps DEF Inbox!Next

LEMMA InboxImplies ==
    ASSUME NEW library \in Libraries, InboxInv(library) PROVE Inbox(library)!ReadsNothingPastRefused
  <1> SUFFICES ASSUME NEW k \in Inbox(library)!Kinds
               PROVE  /\ \A i, j \in DOMAIN read[k] : read[k][i] = read[k][j] => i = j
                      /\ k /= "datagram" =>
                           \A i \in DOMAIN read[k] : \A n \in 1 .. read[k][i] - 1 :
                             \/ \E j \in 1 .. i : read[k][j] = n
                             \/ k = "stream" /\ library = "network" /\ n \in refused[k]
    BY DEF Inbox!ReadsNothingPastRefused
  <1>1. OfKind(k, Arriving(k), arrived[k], refused[k], read[k], errors, library)
    BY DEF InboxInv
  <1>2. /\ \A i \in DOMAIN read[k] : i \in DOMAIN Arriving(k) /\ Arriving(k)[i] = read[k][i] /\ read[k][i] \in Nat
        /\ \A i \in DOMAIN read[k] : i \in Nat /\ \A j \in DOMAIN Arriving(k) : j < i => j \in DOMAIN read[k]
        /\ Arriving(k) \in Seq(Nat)
    BY ArrivingFacts
  <1>3. ASSUME NEW i \in DOMAIN read[k], NEW j \in DOMAIN read[k], read[k][i] = read[k][j] PROVE i = j
    <2>1. ~(i < j) /\ ~(j < i)
      BY <1>1, <1>2, <1>3 DEF OfKind
    <2> QED BY <1>2, <2>1
  <1>4. ASSUME k /= "datagram", NEW i \in DOMAIN read[k], NEW n \in 1 .. read[k][i] - 1
        PROVE  \/ \E j \in 1 .. i : read[k][j] = n
               \/ k = "stream" /\ library = "network" /\ n \in refused[k]
    <2>1. i \in DOMAIN Arriving(k) /\ Arriving(k)[i] = read[k][i] /\ read[k][i] \in Nat /\ i \in Nat
      BY <1>2
    <2>2. n \in arrived[k] /\ n < read[k][i] /\ n \in Nat
      BY <1>1, <1>4, <2>1 DEF OfKind
    <2>3. CASE n \in refused[k]
      <3>1. Skippable(k, library)
        <4>1. ASSUME ~Skippable(k, library) PROVE FALSE
          <5>1. read[k][i] < n
            BY <1>1, <2>3, <4>1 DEF OfKind
          <5> QED BY <2>1, <2>2, <5>1
        <4> QED BY <4>1
      <3> QED BY <1>4, <2>3, <3>1 DEF Skippable
    <2>4. CASE n \notin refused[k]
      <3>1. PICK j \in DOMAIN Arriving(k) : Arriving(k)[j] = n
        BY <1>1, <1>4, <2>2, <2>4 DEF OfKind
      <3>2. j \in Nat /\ j >= 1
        BY <1>2
      <3>3. j < i
        <4>1. j /= i /\ ~(i < j)
          <5>1. ASSUME i < j PROVE FALSE
            <6>1. Arriving(k)[i] < Arriving(k)[j]
              BY <1>1, <1>4, <2>1, <5>1 DEF OfKind
            <6> QED BY <2>1, <2>2, <3>1, <6>1
          <5> QED BY <2>1, <2>2, <3>1, <5>1
        <4> QED BY <2>1, <3>2, <4>1
      <3>4. j \in DOMAIN read[k] /\ j \in 1 .. i
        BY <1>2, <2>1, <3>2, <3>3
      <3> QED BY <1>2, <3>1, <3>4
    <2> QED BY <2>3, <2>4
  <1> QED BY <1>3, <1>4

-----------------------------------------------------------------------------
(* The three together.                                                         *)

LEMMA InboxPart ==
    ASSUME [Next]_vars, NEW library \in Libraries, part'.library = library
    PROVE  part.library = library /\ (Inbox(library)!Next \/ UNCHANGED receiver)
  <1>1. CASE UNCHANGED <<receiver, part>>
    BY <1>1
  <1>2. ASSUME NEW other \in Libraries, Is("inbox", other), Inbox(other)!Next, UNCHANGED part
        PROVE  part.library = library /\ Inbox(library)!Next
    <2>1. part.library = other
      BY <1>2 DEF Is
    <2> QED BY <1>2, <2>1
  <1> QED BY <1>1, <1>2 DEF Next, vars

LEMMA StreamsPart ==
    ASSUME [Next]_vars
    PROVE  (Mux!Next \/ UNCHANGED mux) /\ (Records!Next \/ UNCHANGED records)
  <1>1. Mux!Next \/ UNCHANGED mux
    BY DEF Next, vars
  <1>2. Records!Next \/ UNCHANGED records
    BY DEF Next, vars
  <1> QED BY <1>1, <1>2

(* What is lost or refused is never followed by what came after it, for any    *)
(* number of streams, messages and records of any size, and with either QUIC   *)
(* library. parse_frames() leaves a frame it cannot deliver in the buffer with *)
(* all that is behind it; the handshake and receive_plain() give Schannel      *)
(* every record once and in order; a QUIC receiver that refused a message has  *)
(* failed before anything behind it is read, but for Network.framework's       *)
(* stream, whose next message is read.                                         *)
THEOREM NothingSkipped == Spec => []NothingIsSkipped
  <1>1. Init => SkipInv
    <2> SUFFICES ASSUME Init PROVE SkipInv
      OBVIOUS
    <2>1. MuxInv /\ RecordsInv
      BY MuxInit, RecordsInit DEF Init
    <2>2. ASSUME NEW library \in Libraries PROVE InboxInv(library)
      <3>1. PICK other \in Libraries : Inbox(other)!Init
        BY DEF Init
      <3> QED BY <3>1, InboxInit
    <2> QED BY <2>1, <2>2 DEF SkipInv
  <1>2. SkipInv /\ [Next]_vars => SkipInv'
    <2> SUFFICES ASSUME SkipInv, [Next]_vars PROVE SkipInv'
      OBVIOUS
    <2>1. MuxInv' /\ RecordsInv'
      BY StreamsPart, MuxStep, RecordsStep DEF SkipInv
    <2>2. ASSUME NEW library \in Libraries, part'.library = library
          PROVE  InboxInv(library)'
      <3>1. InboxInv(library) /\ (Inbox(library)!Next \/ UNCHANGED receiver)
        BY <2>2, InboxPart DEF SkipInv
      <3>2. ASSUME UNCHANGED receiver PROVE InboxInv(library)'
        <4>1. UNCHANGED <<arrived, inbox, read, refused>> /\ errors \subseteq errors'
          BY <3>2 DEF receiver
        <4> QED BY <3>1, <4>1, InboxStays
      <3> QED BY <3>1, <3>2, InboxStep
    <2> QED BY <2>1, <2>2 DEF SkipInv
  <1>3. SkipInv => NothingIsSkipped
    <2> SUFFICES ASSUME SkipInv PROVE NothingIsSkipped
      OBVIOUS
    <2>1. Records!EveryRecordOnce /\ Mux!ReadsAPrefix
      BY RecordsImplies, MuxImplies DEF SkipInv
    <2>2. ASSUME NEW library \in Libraries, Is("inbox", library)
          PROVE  Inbox(library)!ReadsNothingPastRefused
      <3>1. part.library = library
        BY <2>2 DEF Is
      <3> QED BY <3>1, InboxImplies DEF SkipInv
    <2> QED BY <2>1, <2>2 DEF NothingIsSkipped
  <1> QED BY <1>1, <1>2, <1>3, PTL DEF Spec
=============================================================================
