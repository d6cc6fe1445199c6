----------------------------- MODULE PairedDevice -----------------------------
(* The device a node trusts.  One state file holds it; three commands of the   *)
(* node, each a process of its own, read and write that file: pair-once opens  *)
(* a confirmation window and writes the device it confirmed, pairing-revoke    *)
(* marks it revoked, serve-once loads it and opens a session for it.  A write  *)
(* is staged, flushed and moved over the file, and any process may die between *)
(* two of those steps.                                                         *)
EXTENDS Naturals, FiniteSets

CONSTANTS
    Commands,       \* slots for processes; a slot is used again and again
    Fingerprints,   \* certificate fingerprints a device may present
    Configured,     \* the fingerprint of the configured device, or None
    None,           \* no configured device
    MaxAttempts     \* confirmations a pairing window takes

\* What the constants must be; the model-checking module assumes it.
PairedDeviceConstants ==
    /\ None \notin Fingerprints
    /\ Configured \in Fingerprints \cup {None}
    /\ MaxAttempts \in Nat \ {0}

VARIABLES
    stored,     \* content of the pairing state file
    staged,     \* content of the staging file beside it
    command,    \* what each process does: its role and its next step
    held,       \* the device each process loaded or is about to write
    attempts,   \* confirmations served by each pairing window
    standing    \* what the commands have established: a history variable

vars == <<stored, staged, command, held, attempts, standing>>

Device == [is : {"device"}, fingerprint : Fingerprints, revoked : BOOLEAN]
Paired(f) == [is |-> "device", fingerprint |-> f, revoked |-> FALSE]
Revoked(device) == [device EXCEPT !.revoked = TRUE]
Absent == [is |-> "absent"]
Torn == [is |-> "torn"]             \* created, not yet written
Files == Device \cup {Absent, Torn}

Idle == [role |-> "none", step |-> "idle"]
At(p, role, step) == command[p] = [role |-> role, step |-> step]
Goto(p, role, step) == command' = [command EXCEPT ![p] = [role |-> role, step |-> step]]
Exit(p) == command' = [command EXCEPT ![p] = Idle]

Exists(file) == file.is /= "absent"
Loads(file) == file.is = "device"   \* deserialize throws on a torn file

Administrative(p) == command[p].role \in {"pair", "revoke"}
\* The administrator runs one pairing command at a time: nothing in the store
\* keeps two of them apart.
Alone(p) == \A q \in Commands \ {p} : ~Administrative(q)

-----------------------------------------------------------------------------
(* PairingStore::persist, one action per operation on the files.              *)

Blocked(fresh) == Exists(staged) \/ (fresh /\ Exists(stored))

\* The staging file must not exist; create() wants no state file either.
Check(p, role, fresh) ==
    /\ At(p, role, IF fresh THEN "create" ELSE "replace")
    /\ UNCHANGED <<stored, staged, held, attempts, standing>>
    /\ IF Blocked(fresh)
         THEN IF role = "pair" THEN Goto(p, role, "window") ELSE Exit(p)
         ELSE Goto(p, role, "open")

Open(p, role) ==
    /\ At(p, role, "open")
    /\ staged' = Torn
    /\ Goto(p, role, "write")
    /\ UNCHANGED <<stored, held, attempts, standing>>

Write(p, role) ==
    /\ At(p, role, "write")
    /\ staged' = held[p]
    /\ Goto(p, role, "move")
    /\ UNCHANGED <<stored, held, attempts, standing>>

Move(p, role) ==
    /\ At(p, role, "move")
    /\ stored' = staged
    /\ staged' = Absent
    /\ Goto(p, role, "acknowledge")
    /\ standing' = IF ~Loads(staged) THEN standing
                   ELSE [is |-> IF staged.revoked THEN "revoking" ELSE "paired",
                         fingerprint |-> staged.fingerprint]
    /\ UNCHANGED <<held, attempts>>

-----------------------------------------------------------------------------
(* pair-once: the window is opened only where no active device is stored.     *)

PairStart(p, f) ==
    /\ command[p] = Idle /\ Alone(p)
    /\ Exists(stored) => Loads(stored) /\ stored.revoked
    /\ held' = [held EXCEPT ![p] = Paired(f)]
    /\ attempts' = [attempts EXCEPT ![p] = 0]
    /\ Goto(p, "pair", "window")
    /\ UNCHANGED <<stored, staged, standing>>

Budget(p) == attempts[p] < MaxAttempts

\* A confirmation: the window's budget is spent whatever the request holds;
\* the right code, device and certificate go on to the store.
Confirm(p, right) ==
    /\ At(p, "pair", "window")
    /\ Budget(p)
    /\ attempts' = [attempts EXCEPT ![p] = @ + 1]
    /\ \/ /\ right /\ ~Exists(stored)
          /\ Goto(p, "pair", "create")
       \/ /\ right /\ Loads(stored) /\ stored.revoked
          /\ Goto(p, "pair", "replace")
       \/ /\ right => (Exists(stored) /\ ~(Loads(stored) /\ stored.revoked))
          /\ UNCHANGED command
    /\ UNCHANGED <<stored, staged, held, standing>>

\* The window expires, or the process has answered its request and ends.
PairEnd(p) ==
    /\ At(p, "pair", "window")
    /\ Exit(p)
    /\ UNCHANGED <<stored, staged, held, attempts, standing>>

PairAcknowledge(p) ==
    /\ At(p, "pair", "acknowledge")
    /\ Exit(p)
    /\ UNCHANGED <<stored, staged, held, attempts, standing>>

-----------------------------------------------------------------------------
(* pairing-revoke: the configured device is written first if none is stored.  *)

RevokeStart(p) ==
    /\ command[p] = Idle /\ Alone(p)
    /\ UNCHANGED <<stored, staged, attempts, standing>>
    /\ \/ /\ ~Exists(stored) /\ Configured /= None
          /\ held' = [held EXCEPT ![p] = Paired(Configured)]
          /\ Goto(p, "revoke", "create")
       \/ /\ Loads(stored)
          /\ Goto(p, "revoke", "mark")
          /\ UNCHANGED held

Mark(p) ==
    /\ At(p, "revoke", "mark")
    /\ Loads(stored)
    /\ held' = [held EXCEPT ![p] = Revoked(stored)]
    /\ Goto(p, "revoke", IF stored.revoked THEN "acknowledge" ELSE "replace")
    /\ UNCHANGED <<stored, staged, attempts, standing>>

\* After create() the command goes on to revoke what it wrote.
RevokeAcknowledge(p) ==
    /\ At(p, "revoke", "acknowledge")
    /\ IF held[p].revoked
         THEN /\ standing' = [is |-> "revoked", fingerprint |-> held[p].fingerprint]
              /\ Exit(p)
         ELSE Goto(p, "revoke", "mark") /\ UNCHANGED standing
    /\ UNCHANGED <<stored, staged, held, attempts>>

-----------------------------------------------------------------------------
(* serve-once: the device is loaded once, before the listener exists.         *)

\* The configuration asked although the store answers.
TrustedByEither == (Loads(stored) /\ ~stored.revoked) \/ Configured /= None

\* active_paired_device: the store goes before the configuration.
ActiveDevice == IF Exists(stored) THEN stored ELSE Paired(Configured)
Trusted == IF Exists(stored) THEN Loads(stored) /\ ~stored.revoked
                             ELSE Configured /= None

ServeStart(p) ==
    /\ command[p] = Idle
    /\ Trusted
    /\ held' = [held EXCEPT ![p] = ActiveDevice]
    /\ Goto(p, "serve", "listen")
    /\ UNCHANGED <<stored, staged, attempts, standing>>

\* The listener admits the certificate of the device that was loaded, whatever
\* the file holds by then.
Accept(p) ==
    /\ At(p, "serve", "listen")
    /\ Goto(p, "serve", "session")
    /\ UNCHANGED <<stored, staged, held, attempts, standing>>

ServeEnd(p) ==
    /\ At(p, "serve", "listen") \/ At(p, "serve", "session")
    /\ Exit(p)
    /\ UNCHANGED <<stored, staged, held, attempts, standing>>

\* A process may die at any step; what it staged stays.
Crash(p) ==
    /\ Administrative(p)
    /\ Exit(p)
    /\ UNCHANGED <<stored, staged, held, attempts, standing>>

-----------------------------------------------------------------------------
Init ==
    /\ stored = Absent /\ staged = Absent
    /\ command = [p \in Commands |-> Idle]
    /\ held = [p \in Commands |-> Absent]
    /\ attempts = [p \in Commands |-> 0]
    /\ standing = [is |-> "configured", fingerprint |-> Configured]

Persist(p) ==
    \E role \in {"pair", "revoke"} :
        \/ \E fresh \in BOOLEAN : Check(p, role, fresh)
        \/ Open(p, role) \/ Write(p, role) \/ Move(p, role)

Next ==
    \E p \in Commands :
        \/ Persist(p)
        \/ \E f \in Fingerprints : PairStart(p, f)
        \/ \E right \in BOOLEAN : Confirm(p, right)
        \/ PairEnd(p) \/ PairAcknowledge(p)
        \/ RevokeStart(p) \/ Mark(p) \/ RevokeAcknowledge(p)
        \/ ServeStart(p) \/ Accept(p) \/ ServeEnd(p) \/ Crash(p)

Spec == Init /\ [][Next]_vars

-----------------------------------------------------------------------------
(* Properties.                                                                *)

Roles == {[role |-> "none", step |-> "idle"]}
           \cup [role : {"pair"}, step : {"window", "create", "replace", "open",
                                          "write", "move", "acknowledge"}]
           \cup [role : {"revoke"}, step : {"create", "mark", "replace", "open",
                                            "write", "move", "acknowledge"}]
           \cup [role : {"serve"}, step : {"listen", "session"}]
Standings == [is : {"configured", "paired", "revoking", "revoked"},
              fingerprint : Fingerprints \cup {None}]

TypeOK ==
    /\ stored \in Files /\ staged \in Files
    /\ command \in [Commands -> Roles]
    /\ held \in [Commands -> Device \cup {Absent}]
    /\ attempts \in [Commands -> 0 .. MaxAttempts]
    /\ standing \in Standings

\* The state file follows the commands, whatever died between two steps: from
\* the moment pairing-revoke reports success no process can start to serve,
\* until another confirmed pairing has been moved into the file; and a device
\* once paired stays trusted until a revoked record has been moved over it. A
\* configured device, a staging file left by a crash or a second create would
\* each be a way to lose one of the two.
TrustFollowsCommands ==
    /\ standing.is = "revoked" => ~Trusted
    /\ standing.is = "paired" =>
         stored = Paired(standing.fingerprint)
    /\ standing.is = "configured" => ~Exists(stored)
    /\ stored.is /= "torn"

=============================================================================
