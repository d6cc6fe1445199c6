------------------------------ MODULE NodeProofs ------------------------------
(* Proofs about the parts of a node. Every part has an inductive invariant of  *)
(* its own; a step of the node is a step of one part and leaves the others.    *)
EXTENDS MCNode, Sequences, FiniteSets, WellFoundedInduction, FiniteSetTheorems, SequenceTheorems, TLAPS

-----------------------------------------------------------------------------
(* A set of numbers that is not empty has a smallest one.                      *)
LEMMA NatMin ==
    ASSUME NEW S, S \subseteq Nat, S /= {}
    PROVE  \E x \in S : \A y \in S : x <= y
  <1>1. IsWellFoundedOn(OpToRel(<, Nat), Nat)
    BY NatLessThanWellFounded
  <1>2. PICK x \in S : \A y \in S : ~(<<y, x>> \in OpToRel(<, Nat))
    BY <1>1, WFMin
  <1>3. \A y \in S : ~(y < x)
    BY <1>2 DEF OpToRel
  <1> QED BY <1>3

-----------------------------------------------------------------------------
(* The pairing file.                                                           *)

(* What a command is about to write is a device once it has been confirmed or  *)
(* loaded, and what it has staged or moved is that device.                     *)
Persists(p) ==
    /\ command[p].step \in {"window", "create", "replace", "open", "write", "move", "acknowledge"} =>
          held[p] \in Pairing!Device
    /\ command[p].step = "move" => staged = held[p]
    /\ command[p].step = "acknowledge" => stored = held[p]
(* One administrative command at a time.                                       *)
OneAdministers ==
    \A p, q \in Commands : Pairing!Administrative(p) /\ Pairing!Administrative(q) => p = q
PairingInv ==
    /\ Pairing!TypeOK
    /\ stored.is /= "torn"
    /\ OneAdministers
    /\ \A p \in Commands : Pairing!Administrative(p) => Persists(p)
    /\ standing.is = "revoked" => stored \in Pairing!Device /\ stored.revoked
    /\ standing.is = "paired" => stored = Pairing!Paired(standing.fingerprint)
    /\ standing.is = "configured" => stored = Pairing!Absent

LEMMA PairingInit == Pairing!PairedDeviceConstants /\ Pairing!Init => PairingInv
  BY DEF Pairing!PairedDeviceConstants, Pairing!Init, PairingInv, Pairing!TypeOK, OneAdministers, Persists,
         Pairing!Files, Pairing!Absent, Pairing!Roles, Pairing!Idle, Pairing!Standings,
         Pairing!Administrative, Pairing!Loads, Pairing!Device

LEMMA FileFacts ==
    ASSUME NEW content \in Pairing!Files
    PROVE  /\ content.is \in {"device", "absent", "torn"}
           /\ Pairing!Loads(content) <=> content \in Pairing!Device
           /\ Pairing!Exists(content) <=> content /= Pairing!Absent
           /\ content.is = "torn" <=> content = Pairing!Torn
           /\ content.is = "absent" <=> content = Pairing!Absent
  BY DEF Pairing!Files, Pairing!Absent, Pairing!Torn, Pairing!Loads, Pairing!Exists, Pairing!Device

LEMMA DeviceFacts ==
    ASSUME NEW device \in Pairing!Device
    PROVE  /\ device.fingerprint \in Fingerprints /\ device.revoked \in BOOLEAN /\ device.is = "device"
           /\ device \in Pairing!Files /\ device /= Pairing!Absent
           /\ ~device.revoked => device = Pairing!Paired(device.fingerprint)
           /\ Pairing!Revoked(device) \in Pairing!Device /\ Pairing!Revoked(device).revoked
           /\ device.revoked => Pairing!Revoked(device) = device
  <1>1. PICK f \in Fingerprints, revoked \in BOOLEAN :
          device = [is |-> "device", fingerprint |-> f, revoked |-> revoked]
    BY DEF Pairing!Device
  <1>2. Pairing!Revoked(device) \in Pairing!Device /\ Pairing!Revoked(device).revoked
    BY DEF Pairing!Revoked, Pairing!Device
  <1>5. device.revoked => Pairing!Revoked(device) = device
    BY DEF Pairing!Revoked, Pairing!Device
  <1>3. ~device.revoked => device = Pairing!Paired(device.fingerprint)
    BY <1>1 DEF Pairing!Paired
  <1>4. device /= Pairing!Absent
    BY <1>1 DEF Pairing!Absent
  <1>6. device.fingerprint \in Fingerprints /\ device.revoked \in BOOLEAN /\ device.is = "device"
    BY DEF Pairing!Device
  <1> QED BY <1>2, <1>3, <1>4, <1>5, <1>6 DEF Pairing!Files

LEMMA PairedFacts ==
    ASSUME NEW f \in Fingerprints
    PROVE  Pairing!Paired(f) \in Pairing!Device /\ ~Pairing!Paired(f).revoked
  BY DEF Pairing!Paired, Pairing!Device

(* What a process does is one of these.                                        *)
LEMMA RoleFacts ==
    /\ \A step \in {"window", "create", "replace", "open", "write", "move", "acknowledge"} :
          [role |-> "pair", step |-> step] \in Pairing!Roles
    /\ \A step \in {"create", "mark", "replace", "open", "write", "move", "acknowledge"} :
          [role |-> "revoke", step |-> step] \in Pairing!Roles
    /\ \A step \in {"listen", "session"} : [role |-> "serve", step |-> step] \in Pairing!Roles
    /\ Pairing!Idle \in Pairing!Roles
  BY DEF Pairing!Roles, Pairing!Idle

(* A command moves on: the others keep what they hold, and the file is right   *)
(* for it.                                                                     *)
LEMMA CommandMoves ==
    ASSUME PairingInv, NEW p \in Commands, NEW next \in Pairing!Roles,
           command' = [command EXCEPT ![p] = next],
           NEW device \in Pairing!Device \cup {Pairing!Absent},
           held' = [held EXCEPT ![p] = device],
           attempts' \in [Commands -> 0 .. MaxAttempts],
           stored' = stored, staged' \in Pairing!Files,
           next.role \in {"pair", "revoke"} =>
              /\ Pairing!Administrative(p) \/ Pairing!Alone(p)
              /\ next.step \in {"window", "create", "replace", "open", "write", "move", "acknowledge"} =>
                     device \in Pairing!Device
              /\ next.step = "move" => staged' = device
              /\ next.step = "acknowledge" => stored = device,
           staged' /= staged => Pairing!Administrative(p),
           standing' = standing
    PROVE  PairingInv'
  <1>1. Pairing!TypeOK'
    BY DEF PairingInv, Pairing!TypeOK
  <1>2. \A q \in Commands : command'[q] = IF q = p THEN next ELSE command[q]
    BY DEF PairingInv, Pairing!TypeOK
  <1>3. \A q \in Commands : held'[q] = IF q = p THEN device ELSE held[q]
    BY DEF PairingInv, Pairing!TypeOK
  <1>4. OneAdministers'
    BY <1>2 DEF PairingInv, OneAdministers, Pairing!Administrative, Pairing!Alone
  <1>5. ASSUME NEW q \in Commands, Pairing!Administrative(q)' PROVE Persists(q)'
    <2>1. CASE q = p
      BY <1>2, <1>3, <1>5, <2>1 DEF Persists, Pairing!Administrative
    <2>2. CASE q /= p
      <3>1. Persists(q) /\ Pairing!Administrative(q)
        BY <1>2, <1>5, <2>2 DEF PairingInv, Pairing!Administrative
      <3>2. staged' = staged
        BY <2>2, <3>1 DEF PairingInv, OneAdministers
      <3> QED BY <1>2, <1>3, <2>2, <3>1, <3>2 DEF Persists
    <2> QED BY <2>1, <2>2
  <1> QED BY <1>1, <1>4, <1>5 DEF PairingInv

LEMMA PairingStep ==
    ASSUME Pairing!PairedDeviceConstants, PairingInv, Pairing!Next PROVE PairingInv'
  <1> SUFFICES ASSUME NEW p \in Commands,
                 \/ Pairing!Persist(p)
                 \/ \E f \in Fingerprints : Pairing!PairStart(p, f)
                 \/ \E right \in BOOLEAN : Pairing!Confirm(p, right)
                 \/ Pairing!PairEnd(p) \/ Pairing!PairAcknowledge(p)
                 \/ Pairing!RevokeStart(p) \/ Pairing!Mark(p) \/ Pairing!RevokeAcknowledge(p)
                 \/ Pairing!ServeStart(p) \/ Pairing!Accept(p) \/ Pairing!ServeEnd(p) \/ Pairing!Crash(p)
               PROVE PairingInv'
    BY DEF Pairing!Next
  <1> USE DEF Pairing!Goto, Pairing!Exit, Pairing!At
  <1>0. /\ stored \in Pairing!Files /\ staged \in Pairing!Files
        /\ held \in [Commands -> Pairing!Device \cup {Pairing!Absent}]
        /\ held[p] \in Pairing!Device \cup {Pairing!Absent}
        /\ attempts \in [Commands -> 0 .. MaxAttempts]
        /\ stored \in Pairing!Device \cup {Pairing!Absent}
        /\ command \in [Commands -> Pairing!Roles]
        /\ held = [held EXCEPT ![p] = held[p]]
        /\ Pairing!Administrative(p) => Persists(p)
    BY FileFacts DEF PairingInv, Pairing!TypeOK, Pairing!Files
  <1> USE <1>0
  <1>1. ASSUME NEW role \in {"pair", "revoke"}, NEW fresh \in BOOLEAN, Pairing!Check(p, role, fresh)
        PROVE  PairingInv'
    <2>1. Pairing!Administrative(p) /\ held[p] \in Pairing!Device
      BY <1>1 DEF Pairing!Check, Pairing!Administrative, Persists
    <2>2. PICK next \in Pairing!Roles :
            /\ command' = [command EXCEPT ![p] = next]
            /\ next.step \notin {"move", "acknowledge"}
      BY <1>1, RoleFacts DEF Pairing!Check, Pairing!Idle
    <2> QED BY <1>1, <2>1, <2>2, CommandMoves DEF Pairing!Check
  <1>2. ASSUME NEW role \in {"pair", "revoke"}, Pairing!Open(p, role)
        PROVE  PairingInv'
    <2>1. Pairing!Administrative(p) /\ held[p] \in Pairing!Device
      BY <1>2 DEF Pairing!Open, Pairing!Administrative, Persists
    <2> DEFINE next == [role |-> role, step |-> "write"]
    <2>2. next \in Pairing!Roles /\ next.step = "write" /\ Pairing!Torn \in Pairing!Files
      BY RoleFacts DEF Pairing!Files
    <2>3. command' = [command EXCEPT ![p] = next]
      BY <1>2 DEF Pairing!Open
    <2> HIDE DEF next
    <2> QED BY <1>2, <2>1, <2>2, <2>3, CommandMoves DEF Pairing!Open
  <1>3. ASSUME NEW role \in {"pair", "revoke"}, Pairing!Write(p, role)
        PROVE  PairingInv'
    <2>1. Pairing!Administrative(p) /\ held[p] \in Pairing!Device
      BY <1>3 DEF Pairing!Write, Pairing!Administrative, Persists
    <2> DEFINE next == [role |-> role, step |-> "move"]
    <2>2. next \in Pairing!Roles /\ next.step = "move" /\ held[p] \in Pairing!Files
      BY <2>1, RoleFacts, DeviceFacts
    <2>3. command' = [command EXCEPT ![p] = next]
      BY <1>3 DEF Pairing!Write
    <2> HIDE DEF next
    <2> QED BY <1>3, <2>1, <2>2, <2>3, CommandMoves DEF Pairing!Write
  <1>4. ASSUME NEW role \in {"pair", "revoke"}, Pairing!Move(p, role)
        PROVE  PairingInv'
    <2>1. Pairing!Administrative(p) /\ held[p] \in Pairing!Device /\ staged = held[p]
      BY <1>4 DEF Pairing!Move, Pairing!Administrative, Persists
    <2> DEFINE next == [role |-> role, step |-> "acknowledge"]
    <2>2. next \in Pairing!Roles /\ next.step = "acknowledge"
      BY RoleFacts
    <2>3. command' = [command EXCEPT ![p] = next]
      BY <1>4 DEF Pairing!Move
    <2> HIDE DEF next
    <2>4. stored' = held[p] /\ stored' \in Pairing!Device /\ staged' = Pairing!Absent /\ held' = held /\ attempts' = attempts
      BY <1>4, <2>1 DEF Pairing!Move
    <2>5. standing' = [is |-> IF held[p].revoked THEN "revoking" ELSE "paired",
                       fingerprint |-> held[p].fingerprint]
      BY <1>4, <2>1, DeviceFacts DEF Pairing!Move, Pairing!Loads
    <2>6. Pairing!TypeOK'
      BY <2>1, <2>2, <2>3, <2>4, <2>5, DeviceFacts DEF PairingInv, Pairing!TypeOK, Pairing!Files, Pairing!Standings
    <2>7. OneAdministers'
      BY <2>1, <2>3, <2>2 DEF PairingInv, OneAdministers, Pairing!Administrative
    <2>8. ASSUME NEW q \in Commands, Pairing!Administrative(q)' PROVE Persists(q)'
      <3>1. q = p
        BY <2>1, <2>3, <2>8 DEF PairingInv, OneAdministers, Pairing!Administrative
      <3> QED BY <2>1, <2>2, <2>3, <2>4, <3>1 DEF Persists
    <2>9. /\ stored'.is /= "torn"
          /\ standing'.is = "paired" => stored' = Pairing!Paired(standing'.fingerprint)
          /\ standing'.is \notin {"revoked", "configured"}
      BY <2>1, <2>4, <2>5, DeviceFacts
    <2> QED BY <2>6, <2>7, <2>8, <2>9 DEF PairingInv
  <1>5. ASSUME NEW f \in Fingerprints, Pairing!PairStart(p, f) PROVE PairingInv'
    <2> DEFINE next == [role |-> "pair", step |-> "window"]
    <2>1. next \in Pairing!Roles /\ next.step = "window"
      BY RoleFacts
    <2>2. command' = [command EXCEPT ![p] = next]
      BY <1>5 DEF Pairing!PairStart
    <2> HIDE DEF next
    <2>3. attempts' \in [Commands -> 0 .. MaxAttempts]
      BY <1>5 DEF Pairing!PairStart, Pairing!PairedDeviceConstants
    <2> QED BY <1>5, <2>1, <2>2, <2>3, PairedFacts, CommandMoves DEF Pairing!PairStart
  <1>6. ASSUME NEW right \in BOOLEAN, Pairing!Confirm(p, right) PROVE PairingInv'
    <2>1. Pairing!Administrative(p) /\ command[p] = [role |-> "pair", step |-> "window"]
      BY <1>6 DEF Pairing!Confirm, Pairing!Administrative
    <2>2. attempts' \in [Commands -> 0 .. MaxAttempts]
      BY <1>6 DEF Pairing!Confirm, Pairing!Budget, Pairing!PairedDeviceConstants
    <2>0. command = [command EXCEPT ![p] = [role |-> "pair", step |-> "window"]]
      BY <2>1
    <2>3. PICK step \in {"window", "create", "replace"} :
            command' = [command EXCEPT ![p] = [role |-> "pair", step |-> step]]
      <3>1. \/ command' = [command EXCEPT ![p] = [role |-> "pair", step |-> "create"]]
            \/ command' = [command EXCEPT ![p] = [role |-> "pair", step |-> "replace"]]
            \/ command' = command
        BY <1>6 DEF Pairing!Confirm
      <3> QED BY <3>1, <2>0
    <2> DEFINE next == [role |-> "pair", step |-> step]
    <2>4. next \in Pairing!Roles /\ next.step = step
      BY RoleFacts
    <2>5. held[p] \in Pairing!Device
      BY <2>1 DEF Persists
    <2>6. UNCHANGED <<stored, staged, held, standing>> /\ command' = [command EXCEPT ![p] = next]
      BY <1>6, <2>3 DEF Pairing!Confirm
    <2> HIDE DEF next
    <2>7. PairingInv'
      BY <2>1, <2>2, <2>4, <2>5, <2>6, CommandMoves
    <2> QED BY <2>7
  <1>7. ASSUME Pairing!RevokeStart(p) PROVE PairingInv'
    <2>1. CASE ~Pairing!Exists(stored) /\ Configured /= NoDevice /\ held' = [held EXCEPT ![p] = Pairing!Paired(Configured)]
               /\ command' = [command EXCEPT ![p] = [role |-> "revoke", step |-> "create"]]
      <3> DEFINE next == [role |-> "revoke", step |-> "create"]
      <3>1. next \in Pairing!Roles /\ next.step = "create"
        BY RoleFacts
      <3>2. Configured \in Fingerprints
        BY <2>1 DEF Pairing!PairedDeviceConstants
      <3> HIDE DEF next
      <3> QED BY <1>7, <2>1, <3>1, <3>2, PairedFacts, CommandMoves DEF Pairing!RevokeStart, next
    <2>2. CASE /\ held' = held
               /\ command' = [command EXCEPT ![p] = [role |-> "revoke", step |-> "mark"]]
      <3> DEFINE next == [role |-> "revoke", step |-> "mark"]
      <3>1. next \in Pairing!Roles /\ next.step = "mark"
        BY RoleFacts
      <3> HIDE DEF next
      <3> QED BY <1>7, <2>2, <3>1, CommandMoves DEF Pairing!RevokeStart, next
    <2> QED BY <1>7, <2>1, <2>2 DEF Pairing!RevokeStart
  <1>8. ASSUME Pairing!Mark(p) PROVE PairingInv'
    <2>1. Pairing!Administrative(p) /\ stored \in Pairing!Device
      BY <1>8, FileFacts DEF Pairing!Mark, Pairing!Administrative
    <2> DEFINE step == IF stored.revoked THEN "acknowledge" ELSE "replace"
               next == [role |-> "revoke", step |-> step]
    <2>2. next \in Pairing!Roles /\ next.step = step
      BY RoleFacts
    <2>3. /\ command' = [command EXCEPT ![p] = next]
          /\ held' = [held EXCEPT ![p] = Pairing!Revoked(stored)]
          /\ UNCHANGED <<stored, staged, attempts, standing>>
      BY <1>8 DEF Pairing!Mark
    <2>4. Pairing!Revoked(stored) \in Pairing!Device /\ (stored.revoked => Pairing!Revoked(stored) = stored)
      BY <2>1, DeviceFacts
    <2> HIDE DEF next
    <2> QED BY <2>1, <2>2, <2>3, <2>4, CommandMoves
  <1>9. ASSUME Pairing!RevokeAcknowledge(p) PROVE PairingInv'
    <2>1. /\ Pairing!Administrative(p) /\ held[p] \in Pairing!Device /\ stored = held[p]
          /\ command[p].step = "acknowledge"
      BY <1>9 DEF Pairing!RevokeAcknowledge, Pairing!Administrative, Persists
    <2>2. CASE ~held[p].revoked
      <3> DEFINE next == [role |-> "revoke", step |-> "mark"]
      <3>1. next \in Pairing!Roles /\ next.step = "mark"
        BY RoleFacts
      <3>2. /\ command' = [command EXCEPT ![p] = next]
            /\ UNCHANGED <<stored, staged, held, attempts, standing>>
        BY <1>9, <2>2 DEF Pairing!RevokeAcknowledge
      <3> HIDE DEF next
      <3> QED BY <2>1, <3>1, <3>2, CommandMoves
    <2>3. CASE held[p].revoked
      <3>1. /\ command' = [command EXCEPT ![p] = Pairing!Idle]
            /\ UNCHANGED <<stored, staged, held, attempts>>
            /\ standing' = [is |-> "revoked", fingerprint |-> held[p].fingerprint]
        BY <1>9, <2>3 DEF Pairing!RevokeAcknowledge
      <3>2. Pairing!TypeOK'
        BY <2>1, <3>1, RoleFacts, DeviceFacts DEF PairingInv, Pairing!TypeOK, Pairing!Standings
      <3>3. \A q \in Commands : Pairing!Administrative(q)' => q /= p /\ Pairing!Administrative(q) /\ command'[q] = command[q]
        BY <3>1 DEF Pairing!Administrative, Pairing!Idle
      <3>4. OneAdministers'
        BY <3>3 DEF PairingInv, OneAdministers
      <3>5. ASSUME NEW q \in Commands, Pairing!Administrative(q)' PROVE Persists(q)'
        BY <3>1, <3>3, <3>5 DEF PairingInv, Persists
      <3> QED BY <2>1, <2>3, <3>1, <3>2, <3>4, <3>5 DEF PairingInv
    <2> QED BY <2>2, <2>3
  <1>10. ASSUME Pairing!ServeStart(p) PROVE PairingInv'
    <2> DEFINE next == [role |-> "serve", step |-> "listen"]
    <2>1. next \in Pairing!Roles /\ next.role = "serve"
      BY RoleFacts
    <2>2. command' = [command EXCEPT ![p] = next]
      BY <1>10 DEF Pairing!ServeStart
    <2>3. Pairing!ActiveDevice \in Pairing!Device
      BY <1>10, PairedFacts, FileFacts DEF Pairing!ServeStart, Pairing!ActiveDevice, Pairing!Trusted, Pairing!PairedDeviceConstants
    <2> HIDE DEF next
    <2> QED BY <1>10, <2>1, <2>2, <2>3, CommandMoves DEF Pairing!ServeStart
  <1>11. ASSUME Pairing!PairEnd(p) \/ Pairing!PairAcknowledge(p) \/ Pairing!ServeEnd(p) \/ Pairing!Crash(p)
        PROVE PairingInv'
    <2>1. Pairing!Idle \in Pairing!Roles /\ Pairing!Idle.role = "none"
      BY RoleFacts DEF Pairing!Idle
    <2> QED BY <1>11, <2>1, CommandMoves
         DEF Pairing!PairEnd, Pairing!PairAcknowledge, Pairing!ServeEnd, Pairing!Crash
  <1>12. ASSUME Pairing!Accept(p) PROVE PairingInv'
    <2> DEFINE next == [role |-> "serve", step |-> "session"]
    <2>1. next \in Pairing!Roles /\ next.role = "serve"
      BY RoleFacts
    <2>2. command' = [command EXCEPT ![p] = next]
      BY <1>12 DEF Pairing!Accept
    <2> HIDE DEF next
    <2> QED BY <1>12, <2>1, <2>2, CommandMoves DEF Pairing!Accept
  <1> QED BY <1>1, <1>2, <1>3, <1>4, <1>5, <1>6, <1>7, <1>8, <1>9, <1>10, <1>11, <1>12 DEF Pairing!Persist

LEMMA PairingImplies ==
    ASSUME Pairing!PairedDeviceConstants, PairingInv PROVE TrustFollowsCommands
  BY FileFacts DEF TrustFollowsCommands, Pairing!TrustFollowsCommands, PairingInv, Pairing!Trusted,
     Pairing!Exists, Pairing!Absent, Pairing!TypeOK, Pairing!Loads

LEMMA PairingPart ==
    ASSUME [Next]_<<pairing, control, build, download, agent, history, trace, part>>
    PROVE  Pairing!Next \/ UNCHANGED pairing
  BY DEF Next

(* Whatever dies between two steps, no process starts to serve after a         *)
(* revocation was reported, and a paired device stays trusted until a revoked  *)
(* record is moved over it.                                                    *)
THEOREM TrustCorrect == Spec => []TrustFollowsCommands
  <1>1. Init => PairingInv
    BY PairingInit, PairingAssumption DEF Init
  <1>2. PairingInv /\ [Next]_<<pairing, control, build, download, agent, history, trace, part>> => PairingInv'
    <2>1. CASE UNCHANGED pairing
      BY <2>1 DEF PairingInv, Pairing!TypeOK, OneAdministers, Persists, Pairing!Administrative, pairing
    <2> QED BY <2>1, PairingPart, PairingStep, PairingAssumption
  <1>3. PairingInv => TrustFollowsCommands
    BY PairingImplies, PairingAssumption
  <1> QED BY <1>1, <1>2, <1>3, PTL DEF Spec

-----------------------------------------------------------------------------
(* The sessions and their audit trail.                                         *)

Lines == [events : SUBSET Control!Events, ended : BOOLEAN]
AuditLogs == [memory : Seq(Control!Events), journal : Seq(Lines), faults : Nat]
Shown(journal) == UNION {journal[i].events : i \in DOMAIN journal}
Written(l) == Shown(l.journal)
LogSound(l) ==
    /\ l \in AuditLogs
    /\ \A i \in DOMAIN l.memory : l.memory[i] \in Written(l)
    /\ \A i \in 1 .. Len(l.memory) - 1 : l.memory[i].at <= l.memory[i + 1].at
    /\ \A i \in DOMAIN l.journal : i < Len(l.journal) => l.journal[i].ended

OpenedAt(s, at) ==
    [process |-> process, at |-> at, session |-> s, action |-> "opened", result |-> "allowed"]
Grants == {Control!None} \cup [state : {"open", "closed"}, workspace : Workspaces, expires : Nat]
ControlType ==
    /\ now \in 0 .. MaxTime /\ process \in Nat
    /\ session \in [Sessions -> Grants]
    /\ active \subseteq Sessions /\ IsFiniteSet(active)
    /\ \A s \in active : session[s].state /= "none"

(* A session that is not closed has no end in the journal, and one that is     *)
(* served and open was opened there.                                           *)
Recorded ==
    /\ \A event \in Written(log) : event.process <= process
    /\ \A s \in Sessions, event \in Written(log) :
          event.process = process /\ event.session = s /\ event.action = "closed"
             => session[s].state = "closed"
    /\ \A s \in active : session[s].state = "open" => \E at \in 0 .. MaxTime : OpenedAt(s, at) \in Written(log)
ControlInv == ControlType /\ LogSound(log) /\ Recorded

LEMMA WriteKeeps ==
    ASSUME NEW l \in AuditLogs, NEW events \in SUBSET Control!Events, NEW ended \in BOOLEAN
    PROVE  /\ Control!Write(l, events, ended) \in AuditLogs
           /\ Control!Write(l, events, ended).memory = l.memory
           /\ Control!Write(l, events, ended).faults = l.faults
           /\ Written(Control!Write(l, events, ended)) = Written(l) \cup events
           /\ (\A i \in DOMAIN l.journal : i < Len(l.journal) => l.journal[i].ended) =>
                 \A i \in DOMAIN Control!Write(l, events, ended).journal :
                    i < Len(Control!Write(l, events, ended).journal) => Control!Write(l, events, ended).journal[i].ended
  <1> DEFINE journal == l.journal
             next == Control!Extend(journal, events, ended)
             made == Control!Write(l, events, ended)
  <1>1. journal \in Seq(Lines) /\ Len(journal) \in Nat /\ DOMAIN journal = 1 .. Len(journal)
        /\ l.memory \in Seq(Control!Events) /\ l.faults \in Nat
    BY DEF AuditLogs
  <1>2. made = [l EXCEPT !.journal = next]
    BY DEF Control!Write
  <1>3. /\ next \in Seq(Lines)
        /\ Shown(next) = Shown(journal) \cup events
        /\ (\A i \in DOMAIN journal : i < Len(journal) => journal[i].ended) =>
              \A i \in DOMAIN next : i < Len(next) => next[i].ended
    <2>1. CASE journal /= <<>> /\ ~Control!Last(journal).ended
      <3> DEFINE n == Len(journal)
                 line == [events |-> journal[n].events \cup events, ended |-> ended]
      <3>1. n \in DOMAIN journal /\ journal[n] \in Lines
        BY <1>1, <2>1
      <3>2. line \in Lines /\ line.events = journal[n].events \cup events
        BY <3>1 DEF Lines
      <3>3. next = [journal EXCEPT ![n] = line]
        BY <2>1 DEF Control!Extend
      <3> HIDE DEF line, next, n
      <3>4. next \in Seq(Lines) /\ Len(next) = Len(journal) /\ DOMAIN next = DOMAIN journal
        BY <1>1, <3>1, <3>2, <3>3
      <3>5. \A i \in DOMAIN journal : next[i] = IF i = n THEN line ELSE journal[i]
        BY <3>1, <3>3
      <3>6. Shown(next) = Shown(journal) \cup events
        BY <3>1, <3>2, <3>4, <3>5 DEF Shown
      <3>7. ASSUME \A i \in DOMAIN journal : i < Len(journal) => journal[i].ended,
                   NEW i \in DOMAIN next, i < Len(next)
            PROVE  next[i].ended
        BY <1>1, <3>4, <3>5, <3>7 DEF n
      <3> QED BY <3>4, <3>6, <3>7
    <2>2. CASE ~(journal /= <<>> /\ ~Control!Last(journal).ended)
      <3> DEFINE line == [events |-> events, ended |-> ended]
      <3>1. line \in Lines /\ line.events = events
        BY DEF Lines
      <3>2. next = Append(journal, line)
        BY <2>2 DEF Control!Extend
      <3> HIDE DEF line, next
      <3>3. /\ next \in Seq(Lines) /\ Len(next) = Len(journal) + 1 /\ DOMAIN next = 1 .. Len(next)
            /\ next[Len(next)] = line
            /\ \A i \in DOMAIN journal : i \in DOMAIN next /\ next[i] = journal[i]
        BY <1>1, <3>1, <3>2
      <3>4. \A i \in DOMAIN next : i \in DOMAIN journal \/ i = Len(next)
        BY <1>1, <3>3
      <3>5. Shown(next) = Shown(journal) \cup events
        <4>1. Len(next) \in DOMAIN next
          BY <1>1, <3>3
        <4> QED BY <3>1, <3>3, <3>4, <4>1 DEF Shown
      <3>6. ASSUME \A i \in DOMAIN journal : i < Len(journal) => journal[i].ended,
                   NEW i \in DOMAIN next, i < Len(next)
            PROVE  next[i].ended
        <4>1. i \in DOMAIN journal /\ next[i] = journal[i] /\ journal[i] \in Lines
          BY <1>1, <3>3, <3>4, <3>6
        <4>2. CASE i < Len(journal)
          BY <3>6, <4>1, <4>2
        <4>3. CASE i = Len(journal)
          <5>1. Control!Last(journal) = journal[i] /\ journal /= <<>>
            BY <1>1, <4>1, <4>3 DEF Control!Last
          <5> QED BY <2>2, <4>1, <5>1
        <4> QED BY <1>1, <4>1, <4>2, <4>3
      <3> QED BY <3>3, <3>5, <3>6
    <2> QED BY <2>1, <2>2
  <1> HIDE DEF next
  <1>4. made \in AuditLogs /\ made.memory = l.memory /\ made.faults = l.faults /\ made.journal = next
    BY <1>1, <1>2, <1>3 DEF AuditLogs
  <1> HIDE DEF made
  <1>5. Written(made) = Written(l) \cup events
    BY <1>3, <1>4 DEF Written
  <1> QED BY <1>3, <1>4, <1>5 DEF made

LEMMA RememberKeeps ==
    ASSUME NEW l, LogSound(l), NEW event \in Control!Events, event \in Written(l), Control!Ordered(l, event)
    PROVE  /\ LogSound(Control!Remember(l, event))
           /\ Written(Control!Remember(l, event)) = Written(l)
  <1> DEFINE old == l.memory
             all == Append(old, event)
             kept == Control!Trim(all)
             made == Control!Remember(l, event)
  <1>1. l \in AuditLogs /\ old \in Seq(Control!Events) /\ Len(old) \in Nat /\ DOMAIN old = 1 .. Len(old)
    BY DEF LogSound, AuditLogs
  <1>2. MaxEvents \in Nat /\ MaxEvents > 0
    BY ControlAssumption DEF Control!NodeControlConstants
  <1>3. /\ all \in Seq(Control!Events) /\ Len(all) = Len(old) + 1 /\ all[Len(all)] = event
        /\ DOMAIN all = 1 .. Len(all) /\ \A i \in DOMAIN old : all[i] = old[i]
    BY <1>1
  <1>4. \A i \in DOMAIN all : all[i] \in Written(l)
    BY <1>1, <1>3 DEF LogSound
  <1>5. \A i \in 1 .. Len(all) - 1 : all[i].at <= all[i + 1].at
    <2> TAKE i \in 1 .. Len(all) - 1
    <2>1. CASE i < Len(old)
      <3>1. i \in 1 .. Len(old) - 1 /\ i \in DOMAIN old /\ i + 1 \in DOMAIN old
        BY <1>1, <1>3, <2>1
      <3>2. old[i].at <= old[i + 1].at
        BY <3>1 DEF LogSound
      <3> QED BY <1>3, <3>1, <3>2
    <2>2. CASE i = Len(old)
      <3>1. i \in DOMAIN old /\ old /= <<>> /\ i + 1 = Len(all)
        BY <1>1, <1>3, <2>2
      <3>2. old[i].at <= event.at
        BY <2>2, <3>1 DEF Control!Ordered, Control!Last
      <3> QED BY <1>3, <3>1, <3>2
    <2> QED BY <1>1, <1>3, <2>1, <2>2
  <1> HIDE DEF all
  <1>6. /\ kept \in Seq(Control!Events)
        /\ \A i \in DOMAIN kept : kept[i] \in Written(l)
        /\ \A i \in 1 .. Len(kept) - 1 : kept[i].at <= kept[i + 1].at
    <2>1. CASE Len(all) <= MaxEvents
      BY <1>3, <1>4, <1>5, <2>1 DEF Control!Trim
    <2>2. CASE ~(Len(all) <= MaxEvents)
      <3> DEFINE d == Len(all) - MaxEvents
      <3>1. d \in Nat /\ d + MaxEvents = Len(all) /\ Len(all) \in Nat
        BY <1>1, <1>2, <1>3, <2>2
      <3>2. kept = SubSeq(all, d + 1, Len(all))
        BY <2>2 DEF Control!Trim
      <3> HIDE DEF d, kept
      <3>3. kept \in Seq(Control!Events) /\ Len(kept) = MaxEvents /\ DOMAIN kept = 1 .. MaxEvents
            /\ \A i \in 1 .. MaxEvents : kept[i] = all[d + i] /\ d + i \in DOMAIN all
        BY <1>2, <1>3, <3>1, <3>2
      <3>4. \A i \in 1 .. MaxEvents - 1 : d + i \in 1 .. Len(all) - 1 /\ (d + i) + 1 = d + (i + 1) /\ i + 1 \in 1 .. MaxEvents
        BY <1>2, <3>1
      <3>5. \A i \in DOMAIN kept : kept[i] \in Written(l)
        BY <1>4, <3>3
      <3>6. ASSUME NEW i \in 1 .. Len(kept) - 1 PROVE kept[i].at <= kept[i + 1].at
        <4>1. i \in 1 .. MaxEvents - 1 /\ i \in 1 .. MaxEvents
          BY <1>2, <3>3
        <4>2. kept[i] = all[d + i] /\ kept[i + 1] = all[(d + i) + 1] /\ d + i \in 1 .. Len(all) - 1
          BY <3>3, <3>4, <4>1
        <4> QED BY <1>5, <4>2
      <3> QED BY <3>3, <3>5, <3>6
    <2> QED BY <2>1, <2>2
  <1> HIDE DEF kept
  <1>7. made = [l EXCEPT !.memory = kept]
    BY DEF Control!Remember, kept, all
  <1>8. made \in AuditLogs /\ made.memory = kept /\ made.journal = l.journal
    BY <1>1, <1>6, <1>7 DEF AuditLogs
  <1> HIDE DEF made
  <1>9. Written(made) = Written(l)
    BY <1>8 DEF Written
  <1>10. LogSound(made)
    BY <1>6, <1>8, <1>9 DEF LogSound
  <1> QED BY <1>9, <1>10 DEF made

(* Whatever an append comes to, the log is sound and only this event is new.   *)
LEMMA AppendsKeeps ==
    ASSUME NEW l, LogSound(l), NEW event \in Control!Events, NEW o \in Control!Appends(l, event)
    PROVE  /\ LogSound(o.log) /\ Written(l) \subseteq Written(o.log)
           /\ Written(o.log) \subseteq Written(l) \cup {event}
           /\ o.end = "done" => event \in Written(o.log)
  <1>1. /\ l \in AuditLogs /\ \A i \in DOMAIN l.memory : l.memory[i] \in Written(l)
    BY DEF LogSound
  <1>2. ASSUME NEW m \in AuditLogs, m.memory = l.memory, m.journal = l.journal,
               NEW events \in SUBSET {event}, NEW ended \in BOOLEAN
        PROVE  /\ LogSound(Control!Write(m, events, ended))
               /\ Written(Control!Write(m, events, ended)) = Written(l) \cup events
               /\ Control!Write(m, events, ended).memory = l.memory
    <2>1. Written(m) = Written(l) /\ \A i \in DOMAIN m.journal : i < Len(m.journal) => m.journal[i].ended
      BY <1>2 DEF Written, LogSound
    <2>2. events \in SUBSET Control!Events
      BY <1>2
    <2> DEFINE w == Control!Write(m, events, ended)
    <2>3. /\ w \in AuditLogs /\ w.memory = m.memory /\ Written(w) = Written(m) \cup events
          /\ \A i \in DOMAIN w.journal : i < Len(w.journal) => w.journal[i].ended
      BY <1>2, <2>1, <2>2, WriteKeeps
    <2> HIDE DEF w
    <2>4. LogSound(w)
      BY <1>1, <1>2, <2>1, <2>3 DEF LogSound
    <2> QED BY <1>2, <2>1, <2>3, <2>4 DEF w
  <1>3. CASE ~Control!Ordered(l, event)
    BY <1>3 DEF Control!Appends
  <1>4. CASE Control!Ordered(l, event)
    <2> DEFINE done == Control!Remember(Control!Write(l, {event}, TRUE), event)
               spent == [l EXCEPT !.faults = @ - 1]
    <2>1. CASE o = [log |-> done, end |-> "done"]
      <3> DEFINE w == Control!Write(l, {event}, TRUE)
      <3>1. LogSound(w) /\ Written(w) = Written(l) \cup {event} /\ w.memory = l.memory
        BY <1>1, <1>2
      <3>2. Control!Ordered(w, event)
        BY <1>4, <3>1 DEF Control!Ordered
      <3> HIDE DEF w
      <3>3. LogSound(Control!Remember(w, event)) /\ Written(Control!Remember(w, event)) = Written(w)
        BY <3>1, <3>2, RememberKeeps
      <3>4. o.log = Control!Remember(w, event)
        BY <2>1 DEF w
      <3> QED BY <3>1, <3>3, <3>4
    <2>2. CASE l.faults /= 0 /\ \E cut \in {spent, Control!Write(spent, {}, FALSE), Control!Write(spent, {event}, TRUE)} :
                 o = [log |-> cut, end |-> "failed"]
      <3>1. /\ spent \in AuditLogs /\ spent.memory = l.memory /\ spent.journal = l.journal
        BY <1>1, <2>2 DEF AuditLogs
      <3>2. o.end = "failed" /\ (o.log = spent \/ o.log = Control!Write(spent, {}, FALSE) \/ o.log = Control!Write(spent, {event}, TRUE))
        <4>1. PICK cut \in {spent, Control!Write(spent, {}, FALSE), Control!Write(spent, {event}, TRUE)} :
                 o = [log |-> cut, end |-> "failed"]
          BY <2>2
        <4>2. o.end = "failed" /\ o.log = cut
          BY <4>1
        <4> HIDE DEF spent
        <4> QED BY <4>1, <4>2
      <3> HIDE DEF spent
      <3>3. LogSound(spent) /\ Written(spent) = Written(l)
        BY <1>1, <3>1 DEF LogSound, Written
      <3>4. /\ LogSound(Control!Write(spent, {}, FALSE)) /\ Written(Control!Write(spent, {}, FALSE)) = Written(l) \cup {}
            /\ LogSound(Control!Write(spent, {event}, TRUE)) /\ Written(Control!Write(spent, {event}, TRUE)) = Written(l) \cup {event}
        BY <1>2, <3>1
      <3> QED BY <3>2, <3>3, <3>4
    <2>3. o = [log |-> done, end |-> "done"]
          \/ (l.faults /= 0 /\ \E cut \in {spent, Control!Write(spent, {}, FALSE), Control!Write(spent, {event}, TRUE)} :
                 o = [log |-> cut, end |-> "failed"])
      BY <1>4 DEF Control!Appends
    <2> QED BY <2>1, <2>2, <2>3
  <1> QED BY <1>3, <1>4

-----------------------------------------------------------------------------
(* Trail(ended) is what this process may write while the sessions of ended are *)
(* closed; OnTrail(l, ended) that the log of the state grew to l with that.    *)

Trail(ended) ==
    {event \in Control!Events : event.process = process /\ (event.action = "closed" => event.session \in ended)}
OnTrail(l, ended) ==
    /\ LogSound(l) /\ Written(log) \subseteq Written(l)
    /\ Written(l) \subseteq Written(log) \cup Trail(ended)

LEMMA AppendsOnTrail ==
    ASSUME NEW ended, NEW l, OnTrail(l, ended), NEW event \in Trail(ended), NEW o \in Control!Appends(l, event)
    PROVE  /\ OnTrail(o.log, ended) /\ Written(l) \subseteq Written(o.log)
           /\ o.end = "done" => event \in Written(o.log)
  <1>1. event \in Control!Events /\ LogSound(l)
    BY DEF Trail, OnTrail
  <1>2. /\ LogSound(o.log) /\ Written(l) \subseteq Written(o.log)
        /\ Written(o.log) \subseteq Written(l) \cup {event}
        /\ o.end = "done" => event \in Written(o.log)
    BY <1>1, AppendsKeeps
  <1> QED BY <1>2 DEF OnTrail

LEMMA EventOnTrail ==
    ASSUME ControlInv, NEW ended,
           NEW s \in Sessions \cup {Control!Anyone},
           NEW action \in {"authenticated", "opened", "closed", "recorded"},
           NEW outcome \in {"allowed", "denied"},
           action = "closed" => s \in ended
    PROVE  Control!Event(s, action, outcome) \in Trail(ended)
  BY DEF ControlInv, ControlType, Trail, Control!Event, Control!Events

LEMMA LogsOnTrail ==
    ASSUME NEW ended, NEW l, OnTrail(l, ended), NEW event \in Trail(ended), NEW m \in Control!Logs(Control!Appends(l, event))
    PROVE  OnTrail(m, ended) /\ Written(l) \subseteq Written(m)
  <1>1. PICK o \in Control!Appends(l, event) : m = o.log
    BY DEF Control!Logs
  <1> QED BY <1>1, AppendsOnTrail

LEMMA LogOnTrail ==
    ASSUME ControlInv, NEW ended PROVE OnTrail(log, ended)
  BY DEF ControlInv, OnTrail

-----------------------------------------------------------------------------
(* prune_expired folds the appends over the sessions that expired.             *)

Appended(s, logs) ==
    UNION {Control!Logs(Control!Appends(l, Control!Event(s, "closed", "allowed"))) : l \in logs}
First(s) == CHOOSE x \in s : TRUE
Unfolded(ended, g) ==
    [s \in SUBSET ended |-> IF s = {} THEN {log} ELSE Appended(First(s), g[s \ {First(s)}])]
Pruning == CHOOSE g : g = Unfolded(Control!Expired, g)

LEMMA PrunedIsFold == Control!PrunedLogs = Pruning[Control!Expired]
  BY DEF Control!PrunedLogs, Control!FoldSet, Control!MapThenFoldSet, Unfolded, Appended, First, Pruning

LEMMA LessByOne ==
    ASSUME NEW s, IsFiniteSet(s), s /= {}
    PROVE  /\ First(s) \in s /\ IsFiniteSet(s \ {First(s)})
           /\ Cardinality(s) \in Nat /\ Cardinality(s \ {First(s)}) = Cardinality(s) - 1
           /\ Cardinality(s \ {First(s)}) \in Nat
  <1>1. First(s) \in s
    BY DEF First
  <1> DEFINE rest == s \ {First(s)}
  <1>2. IsFiniteSet(rest) /\ Cardinality(rest) = Cardinality(s) - 1
    BY <1>1, FS_RemoveElement
  <1>3. Cardinality(s) \in Nat /\ Cardinality(rest) \in Nat
    BY <1>2, FS_CardinalityType
  <1> QED BY <1>1, <1>2, <1>3

(* The recursion has a solution on a finite set.                               *)
LEMMA FoldExists ==
    ASSUME NEW ended, IsFiniteSet(ended)
    PROVE  \E g : g = Unfolded(ended, g)
  <1> DEFINE Solves(n, g) ==
               \A s \in SUBSET ended : Cardinality(s) <= n => g[s] = Unfolded(ended, g)[s]
             Open == {n \in Nat : ~\E g : Solves(n, g)}
  <1>1. \A s \in SUBSET ended : IsFiniteSet(s) /\ Cardinality(s) \in Nat /\ Cardinality(s) <= Cardinality(ended)
    BY FS_Subset, FS_CardinalityType
  <1>2. Cardinality(ended) \in Nat
    BY FS_CardinalityType
  <1>3. ASSUME Open /= {} PROVE FALSE
    <2>1. PICK n \in Open : \A m \in Open : n <= m
      <3>1. Open \subseteq Nat
        OBVIOUS
      <3> HIDE DEF Open
      <3> QED BY <1>3, <3>1, NatMin
    <2>2. n \in Nat /\ ~\E g : Solves(n, g)
      BY <2>1
    <2>3. CASE n = 0
      <3> DEFINE g == [s \in SUBSET ended |-> {log}]
      <3>1. \A s \in SUBSET ended : Cardinality(s) <= 0 => s = {}
        BY <1>1, FS_EmptySet
      <3>2. Solves(0, g)
        BY <3>1 DEF Unfolded
      <3> QED BY <2>2, <2>3, <3>2
    <2>4. CASE n /= 0
      <3>1. n - 1 \in Nat /\ n - 1 \notin Open
        BY <2>1, <2>2, <2>4
      <3>2. PICK g : Solves(n - 1, g)
        BY <3>1
      <3> DEFINE more == [s \in SUBSET ended |-> IF Cardinality(s) <= n - 1 THEN g[s] ELSE Unfolded(ended, g)[s]]
      <3>3. \A s \in SUBSET ended : Cardinality(s) <= n => more[s] = Unfolded(ended, g)[s]
        BY <3>2
      <3>4. ASSUME NEW s \in SUBSET ended, Cardinality(s) <= n
            PROVE  Unfolded(ended, more)[s] = Unfolded(ended, g)[s]
        <4>1. CASE s = {}
          BY <4>1 DEF Unfolded
        <4>2. CASE s /= {}
          <5>1. /\ s \ {First(s)} \in SUBSET ended /\ Cardinality(s \ {First(s)}) <= n - 1
            BY <1>1, <2>2, <3>4, <4>2, LessByOne
          <5>2. more[s \ {First(s)}] = g[s \ {First(s)}]
            BY <5>1
          <5> HIDE DEF more
          <5> QED BY <4>2, <5>2 DEF Unfolded
        <4> QED BY <4>1, <4>2
      <3> HIDE DEF more
      <3>5. Solves(n, more)
        BY <3>3, <3>4
      <3> QED BY <2>2, <3>5
    <2> QED BY <2>3, <2>4
  <1>4. PICK g : Solves(Cardinality(ended), g)
    BY <1>2, <1>3
  <1> DEFINE solved == [s \in SUBSET ended |-> g[s]]
  <1>5. ASSUME NEW s \in SUBSET ended PROVE solved[s] = Unfolded(ended, solved)[s]
    <2>1. solved[s] = Unfolded(ended, g)[s]
      BY <1>1, <1>4
    <2>2. CASE s = {}
      BY <2>1, <2>2 DEF Unfolded
    <2>3. CASE s /= {}
      <3>1. solved[s \ {First(s)}] = g[s \ {First(s)}]
        OBVIOUS
      <3> HIDE DEF solved
      <3> QED BY <2>1, <2>3, <3>1 DEF Unfolded
    <2> QED BY <2>2, <2>3
  <1>6. solved = [s \in SUBSET ended |-> solved[s]]
    OBVIOUS
  <1>7. Unfolded(ended, solved) = [s \in SUBSET ended |-> Unfolded(ended, solved)[s]]
    BY DEF Unfolded
  <1> HIDE DEF solved
  <1>8. solved = Unfolded(ended, solved)
    BY <1>5, <1>6, <1>7
  <1> QED BY <1>8

(* Pruning keeps the log on the trail of the sessions that expired.            *)
LEMMA PrunedOnTrail ==
    ASSUME ControlInv, NEW l \in Control!PrunedLogs PROVE OnTrail(l, Control!Expired)
  <1> DEFINE ended == Control!Expired
             Wrong == {n \in Nat : \E s \in SUBSET ended : Cardinality(s) = n /\ \E m \in Pruning[s] : ~OnTrail(m, ended)}
  <1>1. ended \subseteq active /\ IsFiniteSet(ended) /\ ended \subseteq Sessions
    BY FS_Subset DEF Control!Expired, ControlInv, ControlType
  <1>2. \A s \in SUBSET ended : IsFiniteSet(s) /\ Cardinality(s) \in Nat
    BY <1>1, FS_Subset, FS_CardinalityType
  <1>3. Pruning = Unfolded(ended, Pruning)
    BY <1>1, FoldExists DEF Pruning
  <1>4. ASSUME Wrong /= {} PROVE FALSE
    <2>1. PICK n \in Wrong : \A m \in Wrong : n <= m
      <3>1. Wrong \subseteq Nat
        OBVIOUS
      <3> HIDE DEF Wrong
      <3> QED BY <1>4, <3>1, NatMin
    <2>2. PICK s \in SUBSET ended : Cardinality(s) = n /\ \E m \in Pruning[s] : ~OnTrail(m, ended)
      BY <2>1
    <2>6. PICK m \in Pruning[s] : ~OnTrail(m, ended)
      BY <2>2
    <2>3. Pruning[s] = IF s = {} THEN {log} ELSE Appended(First(s), Pruning[s \ {First(s)}])
      <3>1. Unfolded(ended, Pruning)[s] = IF s = {} THEN {log} ELSE Appended(First(s), Pruning[s \ {First(s)}])
        BY DEF Unfolded
      <3> QED BY <1>3, <3>1
    <2>4. CASE s = {}
      BY <2>3, <2>4, <2>6, LogOnTrail
    <2>5. CASE s /= {}
      <3> DEFINE rest == s \ {First(s)}
                 closing == Control!Event(First(s), "closed", "allowed")
      <3>1. First(s) \in s /\ rest \in SUBSET ended /\ Cardinality(rest) \in Nat /\ Cardinality(rest) = n - 1 /\ n \in Nat
        BY <1>2, <2>2, <2>5, LessByOne
      <3>2. PICK k \in Pruning[rest] : m \in Control!Logs(Control!Appends(k, closing))
        BY <2>3, <2>5, <2>6 DEF Appended
      <3>3. Cardinality(rest) \notin Wrong
        <4>1. ~(n <= Cardinality(rest))
          BY <3>1
        <4> HIDE DEF Wrong, rest
        <4> QED BY <2>1, <4>1
      <3>4. OnTrail(k, ended)
        BY <3>1, <3>2, <3>3
      <3>5. closing \in Trail(ended)
        <4>1. First(s) \in ended /\ First(s) \in Sessions
          BY <1>1, <3>1
        <4> HIDE DEF ended
        <4> QED BY <4>1, EventOnTrail
      <3> HIDE DEF closing, ended
      <3>6. OnTrail(m, ended)
        BY <3>2, <3>4, <3>5, LogsOnTrail
      <3> QED BY <2>6, <3>6
    <2> QED BY <2>4, <2>5
  <1>5. Cardinality(ended) \notin Wrong /\ Cardinality(ended) \in Nat
    BY <1>2, <1>4
  <1> QED BY <1>5, PrunedIsFold

-----------------------------------------------------------------------------
(* Every operation keeps the trail.                                            *)

LEMMA ControlKeeps ==
    ASSUME ControlInv, NEW ended, OnTrail(log', ended),
           now' \in 0 .. MaxTime, process' = process,
           session' \in [Sessions -> Grants],
           active' \subseteq Sessions, IsFiniteSet(active'),
           \A s \in active' : session'[s].state /= "none",
           \A s \in Sessions : session[s].state = "closed" => session'[s].state = "closed",
           \A s \in Sessions : s \in ended => session'[s].state = "closed",
           \A s \in active' : session'[s].state = "open" =>
              \/ s \in active /\ session[s].state = "open"
              \/ \E at \in 0 .. MaxTime : OpenedAt(s, at) \in Written(log')
    PROVE  ControlInv'
  <1>1. ControlType'
    <2>1. process \in Nat
      BY DEF ControlInv, ControlType
    <2> QED BY <2>1 DEF ControlType
  <1>2. /\ LogSound(log') /\ Written(log) \subseteq Written(log')
        /\ Written(log') \subseteq Written(log) \cup Trail(ended)
    BY DEF OnTrail
  <1>3. \A event \in Trail(ended) : event.process = process /\ (event.action = "closed" => event.session \in ended)
    BY DEF Trail
  <1>4. /\ process \in Nat /\ \A event \in Written(log) : event.process <= process
    BY DEF ControlInv, ControlType, Recorded
  <1>5. ASSUME NEW event \in Written(log') PROVE event.process <= process'
    BY <1>2, <1>3, <1>4, <1>5
  <1>6. ASSUME NEW s \in Sessions, NEW event \in Written(log'),
               event.process = process', event.session = s, event.action = "closed"
        PROVE  session'[s].state = "closed"
    <2>1. CASE event \in Written(log)
      BY <1>6, <2>1 DEF ControlInv, Recorded
    <2>2. CASE event \in Trail(ended)
      BY <1>3, <1>6, <2>2
    <2> QED BY <1>2, <1>6, <2>1, <2>2
  <1>7. ASSUME NEW s \in active', session'[s].state = "open"
        PROVE  \E at \in 0 .. MaxTime : OpenedAt(s, at)' \in Written(log')
    <2>1. \A at : OpenedAt(s, at)' = OpenedAt(s, at)
      BY DEF OpenedAt
    <2>2. CASE s \in active /\ session[s].state = "open"
      BY <1>2, <2>1, <2>2 DEF ControlInv, Recorded
    <2> QED BY <1>7, <2>1, <2>2
  <1>8. Recorded'
    BY <1>5, <1>6, <1>7 DEF Recorded, OpenedAt
  <1> QED BY <1>1, <1>2, <1>8 DEF ControlInv

LEMMA SessionFacts ==
    ASSUME ControlInv
    PROVE  /\ \A s \in Sessions : session[s].state /= "none" =>
                 Control!Closed(s) \in Grants /\ Control!Closed(s).state = "closed"
           /\ Control!Expired \subseteq active /\ Control!Live \subseteq active
           /\ Control!Live = active \ Control!Expired
           /\ IsFiniteSet(Control!Live)
           /\ Control!Pruned \in [Sessions -> Grants]
           /\ \A s \in Sessions : IF s \in Control!Expired THEN Control!Pruned[s].state = "closed"
                                                           ELSE Control!Pruned[s] = session[s]
           /\ active \subseteq Sessions /\ session \in [Sessions -> Grants]
           /\ IsFiniteSet(active) /\ \A s \in active : session[s].state /= "none"
           /\ now \in 0 .. MaxTime
  <1>1. ControlType
    BY DEF ControlInv
  <1>2. ASSUME NEW s \in Sessions, session[s].state /= "none"
        PROVE  Control!Closed(s) \in Grants /\ Control!Closed(s).state = "closed"
    <2>1. session[s] \in [state : {"open", "closed"}, workspace : Workspaces, expires : Nat]
      BY <1>1, <1>2 DEF ControlType, Grants, Control!None
    <2> QED BY <2>1 DEF Grants, Control!Closed
  <1>3. Control!Expired \subseteq active /\ Control!Live \subseteq active /\ Control!Live = active \ Control!Expired
    BY DEF Control!Expired, Control!Live
  <1>4. IsFiniteSet(Control!Live)
    BY <1>1, <1>3, FS_Subset DEF ControlType
  <1>5. ASSUME NEW s \in Sessions
        PROVE  /\ Control!Pruned[s] \in Grants
               /\ IF s \in Control!Expired THEN Control!Pruned[s].state = "closed"
                                           ELSE Control!Pruned[s] = session[s]
    BY <1>1, <1>2, <1>3 DEF ControlType, Control!Pruned
  <1>6. Control!Pruned \in [Sessions -> Grants]
    BY <1>5 DEF Control!Pruned
  <1> QED BY <1>1, <1>2, <1>3, <1>4, <1>5, <1>6 DEF ControlType

(* permits may close a session.                                                *)
LEMMA PermitsFacts ==
    ASSUME ControlInv, NEW s \in Sessions
    PROVE  LET next == [Control!Pruned EXCEPT ![s] = Control!AfterPermits(s)[s]]
           IN  s \notin Control!Expired =>
                 /\ next \in [Sessions -> Grants]
                 /\ \A t \in Sessions : \/ next[t].state = "closed" /\ session[t].state /= "none"
                                        \/ t \notin Control!Expired /\ next[t] = session[t]
  <1> DEFINE after == Control!AfterPermits(s)[s]
             next == [Control!Pruned EXCEPT ![s] = after]
  <1> SUFFICES ASSUME s \notin Control!Expired
               PROVE  /\ next \in [Sessions -> Grants]
                      /\ \A t \in Sessions : \/ next[t].state = "closed" /\ session[t].state /= "none"
                                             \/ t \notin Control!Expired /\ next[t] = session[t]
    OBVIOUS
  <1>1. after \in Grants /\ (after = session[s] \/ (after.state = "closed" /\ session[s].state /= "none"))
    BY SessionFacts DEF Control!AfterPermits
  <1> HIDE DEF after
  <1>2. next \in [Sessions -> Grants] /\ next[s] = after /\ \A t \in Sessions : t /= s => next[t] = Control!Pruned[t]
    BY <1>1, SessionFacts
  <1> HIDE DEF next
  <1> QED BY <1>1, <1>2, SessionFacts

(* The answer to a session that is not opened is on the trail.                 *)
LEMMA DeniedOnTrail ==
    ASSUME ControlInv, NEW ended, NEW l, OnTrail(l, ended),
           NEW s \in Sessions \cup {Control!Anyone}, NEW o \in Control!Denied(s, l)
    PROVE  OnTrail(o.log, ended)
  <1>1. Control!Event(s, "opened", "denied") \in Trail(ended)
    BY EventOnTrail
  <1> QED BY <1>1, AppendsOnTrail DEF Control!Denied

LEMMA UnresolvedOnTrail ==
    ASSUME ControlInv, NEW ended, NEW l, OnTrail(l, ended), NEW m \in Control!Logs(Control!Denied(Control!Anyone, l))
    PROVE  OnTrail(m, ended)
  <1>1. PICK o \in Control!Denied(Control!Anyone, l) : m = o.log
    BY DEF Control!Logs
  <1> QED BY <1>1, DeniedOnTrail

(* Pruning leaves the sessions that did not expire as they were.               *)
LEMMA PrunedKeeps ==
    ASSUME ControlInv, OnTrail(log', Control!Expired), session' = Control!Pruned, active' = Control!Live,
           now' = now, process' = process
    PROVE  ControlInv'
  BY SessionFacts, ControlKeeps

LEMMA OpenKeeps ==
    ASSUME ControlInv, NEW s \in Sessions, NEW workspace \in Workspaces, Control!Serve(s, workspace)
    PROVE  ControlInv'
  <1>1. CASE Control!Malformed
    <2>1. OnTrail(log', {}) /\ UNCHANGED <<now, session, active, process>>
      <3>1. OnTrail(log, {}) /\ log' \in Control!Logs(Control!Denied(Control!Anyone, log))
        BY <1>1, LogOnTrail DEF Control!Malformed
      <3> QED BY <1>1, <3>1, UnresolvedOnTrail DEF Control!Malformed
    <2> QED BY <2>1, SessionFacts, ControlKeeps
  <1>2. ASSUME NEW bound \in BOOLEAN, Control!Turned(s, bound) PROVE ControlInv'
    <2>1. PICK l \in Control!PrunedLogs : Control!Answer(Control!Denied(s, l)) \/ Control!AnswerLost(Control!Denied(s, l))
      BY <1>2 DEF Control!Turned
    <2>2. OnTrail(l, Control!Expired)
      BY PrunedOnTrail
    <2>3. PICK o \in Control!Denied(s, l) : log' = o.log \/ log' \in Control!Logs(Control!Denied(Control!Anyone, o.log))
      BY <2>1 DEF Control!Answer, Control!AnswerLost
    <2>4. OnTrail(o.log, Control!Expired)
      BY <2>2, <2>3, DeniedOnTrail
    <2>5. OnTrail(log', Control!Expired)
      BY <2>3, <2>4, UnresolvedOnTrail
    <2> QED BY <1>2, <2>5, PrunedKeeps DEF Control!Turned
  <1>3. ASSUME NEW accepted \in BOOLEAN, Control!Refused(s, workspace, accepted) PROVE ControlInv'
    <2>1. PICK l \in Control!PrunedLogs :
             \/ log' = l \/ log' \in Control!Logs(Control!Denied(Control!Anyone, l))
             \/ \E o \in Control!Denied(s, l) :
                   log' = o.log \/ log' \in Control!Logs(Control!Denied(Control!Anyone, o.log))
      BY <1>3 DEF Control!Refused
    <2>2. OnTrail(l, Control!Expired)
      BY PrunedOnTrail
    <2>3. \A o \in Control!Denied(s, l) : OnTrail(o.log, Control!Expired)
      BY <2>2, DeniedOnTrail
    <2>4. OnTrail(log', Control!Expired)
      BY <2>1, <2>2, <2>3, UnresolvedOnTrail
    <2> QED BY <1>3, <2>4, PrunedKeeps DEF Control!Refused
  <1>4. ASSUME Control!Granted(s, workspace) PROVE ControlInv'
    <2> DEFINE authenticated == Control!Event(s, "authenticated", "allowed")
               opened == Control!Event(s, "opened", "allowed")
    <2>1. authenticated \in Trail(Control!Expired) /\ opened \in Trail(Control!Expired) /\ opened = OpenedAt(s, now)
      BY EventOnTrail DEF OpenedAt, Control!Event
    <2>2. PICK l \in Control!PrunedLogs :
             \E o \in Control!AppendsBoth(l, authenticated, opened) :
               /\ active' = IF Control!Serves(o.end) THEN Control!Live \cup {s} ELSE Control!Live
               /\ log' \in (IF o.end = "failed" THEN {} ELSE {o.log}) \cup Control!Logs(Control!Denied(Control!Anyone, o.log))
      BY <1>4 DEF Control!Granted
    <2> HIDE DEF authenticated, opened
    <2>3. PICK o \in Control!AppendsBoth(l, authenticated, opened) :
               /\ active' = IF Control!Serves(o.end) THEN Control!Live \cup {s} ELSE Control!Live
               /\ log' \in (IF o.end = "failed" THEN {} ELSE {o.log}) \cup Control!Logs(Control!Denied(Control!Anyone, o.log))
      BY <2>2
    <2>4. OnTrail(l, Control!Expired)
      BY PrunedOnTrail
    <2>5. OnTrail(o.log, Control!Expired) /\ (o.end = "done" => opened \in Written(o.log))
      <3>1. CASE o \in Control!Appends(l, authenticated) /\ o.end /= "done"
        BY <2>1, <2>4, <3>1, AppendsOnTrail
      <3>2. ASSUME NEW b \in Control!Appends(l, authenticated), o \in Control!Appends(b.log, opened)
            PROVE  OnTrail(o.log, Control!Expired) /\ (o.end = "done" => opened \in Written(o.log))
        <4>1. OnTrail(b.log, Control!Expired)
          BY <2>1, <2>4, AppendsOnTrail
        <4> QED BY <2>1, <3>2, <4>1, AppendsOnTrail
      <3> QED BY <3>1, <3>2 DEF Control!AppendsBoth
    <2>6. OnTrail(log', Control!Expired) /\ Written(o.log) \subseteq Written(log')
      <3>1. CASE log' = o.log
        BY <2>5, <3>1
      <3>2. CASE log' \in Control!Logs(Control!Denied(Control!Anyone, o.log))
        <4>1. Control!Event(Control!Anyone, "opened", "denied") \in Trail(Control!Expired)
          BY EventOnTrail
        <4> QED BY <2>5, <3>2, <4>1, LogsOnTrail DEF Control!Denied
      <3> QED BY <2>3, <3>1, <3>2
    <2> DEFINE grant == Control!Opened(workspace)
    <2>7. grant \in Grants /\ grant.state = "open"
      <3>1. now + Lease \in Nat
        BY ControlAssumption, SessionFacts DEF Control!NodeControlConstants
      <3> QED BY <3>1 DEF Control!Opened, Grants
    <2>8. /\ session' = [Control!Pruned EXCEPT ![s] = grant] /\ session[s].state = "none"
          /\ now' = now /\ process' = process
      BY <1>4 DEF Control!Granted, Control!Known
    <2> HIDE DEF grant
    <2>9. /\ session' \in [Sessions -> Grants] /\ session'[s] = grant
          /\ \A t \in Sessions : t /= s => session'[t] = Control!Pruned[t]
      BY <2>7, <2>8, SessionFacts
    <2>10. /\ active' \subseteq Control!Live \cup {s}
           /\ s \in active' => s \in Control!Live \/ opened \in Written(log')
      BY <2>3, <2>5, <2>6 DEF Control!Serves
    <2>11. s \notin active /\ s \notin Control!Expired /\ s \notin Control!Live
      BY <2>8, SessionFacts
    <2>12. IsFiniteSet(active') /\ active' \subseteq Sessions
      <3>1. IsFiniteSet(Control!Live \cup {s})
        BY SessionFacts, FS_AddElement
      <3> QED BY <2>10, <3>1, FS_Subset, SessionFacts
    <2>13. \A t \in active' : session'[t].state /= "none"
      BY <2>7, <2>9, <2>10, <2>12, SessionFacts
    <2>14. \A t \in Sessions : session[t].state = "closed" \/ t \in Control!Expired => session'[t].state = "closed"
      BY <2>8, <2>9, <2>11, SessionFacts
    <2>15. \A t \in active' : session'[t].state = "open" =>
              \/ t \in active /\ session[t].state = "open"
              \/ \E at \in 0 .. MaxTime : OpenedAt(t, at) \in Written(log')
      <3> TAKE t \in active'
      <3>1. CASE t = s
        BY <2>1, <2>10, <2>11, <3>1, SessionFacts
      <3>2. CASE t /= s
        BY <2>9, <2>10, <2>12, <3>2, SessionFacts
      <3> QED BY <3>1, <3>2
    <2> QED BY <2>6, <2>8, <2>9, <2>12, <2>13, <2>14, <2>15, SessionFacts, ControlKeeps
  <1> QED BY <1>1, <1>2, <1>3, <1>4 DEF Control!Serve

LEMMA SessionKeeps ==
    ASSUME ControlInv, NEW s \in Sessions, Control!PermitsSession(s) \/ Control!CloseSession(s) \/ Control!Health(s)
    PROVE  ControlInv'
  <1>1. CASE Control!PermitsSession(s)
    <2>1. OnTrail(log', Control!Expired) /\ active' = Control!Live /\ now' = now /\ process' = process
      BY <1>1, PrunedOnTrail DEF Control!PermitsSession
    <2>2. CASE s \in Control!Live
      <3>1. s \notin Control!Expired /\ session' = [Control!Pruned EXCEPT ![s] = Control!AfterPermits(s)[s]]
        BY <1>1, <2>2, SessionFacts DEF Control!PermitsSession
      <3>2. /\ session' \in [Sessions -> Grants]
            /\ \A t \in Sessions : \/ session'[t].state = "closed" /\ session[t].state /= "none"
                                   \/ t \notin Control!Expired /\ session'[t] = session[t]
        BY <3>1, PermitsFacts
      <3> QED BY <2>1, <3>2, SessionFacts, ControlKeeps
    <2>3. CASE s \notin Control!Live
      BY <1>1, <2>1, <2>3, PrunedKeeps DEF Control!PermitsSession
    <2> QED BY <2>2, <2>3
  <1>2. CASE Control!Health(s)
    <2>1. /\ OnTrail(log', Control!Expired) /\ active' \subseteq Control!Live /\ now' = now /\ process' = process
          /\ s \notin Control!Expired /\ session' = [Control!Pruned EXCEPT ![s] = Control!AfterPermits(s)[s]]
      BY <1>2, PrunedOnTrail, SessionFacts DEF Control!Health
    <2>2. /\ session' \in [Sessions -> Grants]
          /\ \A t \in Sessions : \/ session'[t].state = "closed" /\ session[t].state /= "none"
                                 \/ t \notin Control!Expired /\ session'[t] = session[t]
      BY <2>1, PermitsFacts
    <2>3. IsFiniteSet(active')
      BY <2>1, SessionFacts, FS_Subset
    <2> QED BY <2>1, <2>2, <2>3, SessionFacts, ControlKeeps
  <1>3. CASE Control!CloseSession(s)
    <2>1. /\ session[s].state /= "none" /\ session' = [session EXCEPT ![s] = Control!Closed(s)]
          /\ now' = now /\ process' = process /\ active' \subseteq active
      BY <1>3 DEF Control!CloseSession
    <2>2. OnTrail(log', {s})
      <3>1. OnTrail(log, {s}) /\ Control!Event(s, "closed", "allowed") \in Trail({s})
        BY LogOnTrail, EventOnTrail
      <3> QED BY <1>3, <3>1, AppendsOnTrail DEF Control!CloseSession
    <2> DEFINE closing == Control!Closed(s)
    <2>3. closing \in Grants /\ closing.state = "closed" /\ session' = [session EXCEPT ![s] = closing]
      BY <2>1, SessionFacts
    <2> HIDE DEF closing
    <2>4. /\ session' \in [Sessions -> Grants] /\ session'[s].state = "closed"
          /\ \A t \in Sessions : t /= s => session'[t] = session[t]
      BY <2>3, SessionFacts
    <2>5. IsFiniteSet(active')
      BY <2>1, SessionFacts, FS_Subset
    <2> QED BY <2>1, <2>2, <2>4, <2>5, SessionFacts, ControlKeeps
  <1> QED BY <1>1, <1>2, <1>3

(* The next process starts with the journal alone.                             *)
LEMMA RestartKeeps ==
    ASSUME ControlInv, Control!Restart PROVE ControlInv'
  <1>1. /\ process' = process + 1 /\ now' = now /\ active' = {}
        /\ session' = [s \in Sessions |-> Control!None]
    BY DEF Control!Restart
  <1>2. PICK cut : /\ log' = [cut EXCEPT !.memory = <<>>]
                   /\ cut = log \/ (log.faults /= 0 /\ cut = Control!Write([log EXCEPT !.faults = @ - 1], {}, FALSE))
    BY DEF Control!Restart
  <1>3. log \in AuditLogs /\ \A i \in DOMAIN log.journal : i < Len(log.journal) => log.journal[i].ended
    BY DEF ControlInv, LogSound
  <1>4. cut \in AuditLogs /\ Written(cut) = Written(log) /\ \A i \in DOMAIN cut.journal : i < Len(cut.journal) => cut.journal[i].ended
    <2>1. CASE cut = log
      BY <1>3, <2>1
    <2>2. CASE log.faults /= 0 /\ cut = Control!Write([log EXCEPT !.faults = @ - 1], {}, FALSE)
      <3> DEFINE spent == [log EXCEPT !.faults = @ - 1]
      <3>1. spent \in AuditLogs /\ spent.journal = log.journal
        BY <1>3, <2>2 DEF AuditLogs
      <3> HIDE DEF spent
      <3>2. cut = Control!Write(spent, {}, FALSE)
        BY <2>2 DEF spent
      <3>3. Written(spent) = Written(log) /\ \A i \in DOMAIN spent.journal : i < Len(spent.journal) => spent.journal[i].ended
        BY <1>3, <3>1 DEF Written
      <3>4. /\ Control!Write(spent, {}, FALSE) \in AuditLogs
            /\ Written(Control!Write(spent, {}, FALSE)) = Written(spent) \cup {}
            /\ \A i \in DOMAIN Control!Write(spent, {}, FALSE).journal :
                 i < Len(Control!Write(spent, {}, FALSE).journal) => Control!Write(spent, {}, FALSE).journal[i].ended
        <4>1. {} \in SUBSET Control!Events /\ FALSE \in BOOLEAN
          OBVIOUS
        <4> QED BY <3>1, <3>3, <4>1, WriteKeeps
      <3> QED BY <3>2, <3>3, <3>4
    <2> QED BY <1>2, <2>1, <2>2
  <1>5. log' \in AuditLogs /\ log'.memory = <<>> /\ log'.journal = cut.journal
    <2>1. <<>> \in Seq(Control!Events)
      OBVIOUS
    <2>2. log' = [cut EXCEPT !.memory = <<>>]
      BY <1>2
    <2> QED BY <1>4, <2>1, <2>2 DEF AuditLogs
  <1>6. Written(log') = Written(log)
    BY <1>4, <1>5 DEF Written
  <1>7. LogSound(log')
    BY <1>4, <1>5 DEF LogSound
  <1>8. ControlType'
    BY <1>1, FS_EmptySet DEF ControlInv, ControlType, Grants
  <1>9. process \in Nat /\ \A event \in Written(log) : event.process \in Nat /\ event.process <= process
    <2>1. \A event \in Written(log) : event \in Control!Events
      <3>1. \A i \in DOMAIN log.journal : log.journal[i] \in Lines
        BY <1>3 DEF AuditLogs
      <3>2. \A line \in Lines : line.events \subseteq Control!Events
        BY DEF Lines
      <3> QED BY <3>1, <3>2 DEF Written, Shown
    <2>2. \A event \in Control!Events : event.process \in Nat
      BY DEF Control!Events
    <2> QED BY <2>1, <2>2 DEF ControlInv, ControlType, Recorded
  <1>10. Recorded'
    <2>1. \A event \in Written(log') : event.process <= process' /\ event.process /= process'
      BY <1>1, <1>6, <1>9
    <2> QED BY <1>1, <2>1 DEF Recorded
  <1> QED BY <1>7, <1>8, <1>10 DEF ControlInv

LEMMA ControlStep ==
    ASSUME ControlInv, Control!Next PROVE ControlInv'
  <1>1. ASSUME NEW s \in Sessions, NEW workspace \in Workspaces, Control!Record(s, workspace) PROVE ControlInv'
    <2>1. OnTrail(log', {}) /\ UNCHANGED <<now, session, active, process>>
      <3>1. OnTrail(log, {}) /\ Control!Event(s, "recorded", "allowed") \in Trail({})
        BY LogOnTrail, EventOnTrail
      <3> QED BY <1>1, <3>1, LogsOnTrail DEF Control!Record
    <2> QED BY <2>1, SessionFacts, ControlKeeps
  <1>2. CASE Control!Tick \/ Control!StepBack
    <2>1. UNCHANGED <<session, active, log, process>> /\ now' \in 0 .. MaxTime
      <3>1. MaxTime \in Nat /\ now \in 0 .. MaxTime
        BY ControlAssumption, SessionFacts DEF Control!NodeControlConstants
      <3> QED BY <1>2, <3>1 DEF Control!Tick, Control!StepBack
    <2>2. OnTrail(log', {})
      BY <2>1, LogOnTrail
    <2> QED BY <2>1, <2>2, SessionFacts, ControlKeeps
  <1> QED BY <1>1, <1>2, OpenKeeps, SessionKeeps, RestartKeeps DEF Control!Next

LEMMA ControlInit == Control!Init => ControlInv
  <1> SUFFICES ASSUME Control!Init PROVE ControlInv
    OBVIOUS
  <1>1. /\ log.memory = <<>> /\ log.journal = <<>> /\ log \in AuditLogs
    BY ControlAssumption DEF Control!Init, AuditLogs, Control!NodeControlConstants
  <1>2. Written(log) = {}
    BY <1>1 DEF Written, Shown
  <1>3. LogSound(log)
    BY <1>1, <1>2 DEF LogSound
  <1>4. ControlType
    BY ControlAssumption, FS_EmptySet DEF Control!Init, ControlType, Grants, Control!NodeControlConstants
  <1>5. Recorded
    BY <1>2 DEF Recorded, Control!Init
  <1> QED BY <1>3, <1>4, <1>5 DEF ControlInv

LEMMA ControlImplies ==
    ASSUME ControlInv PROVE JournalIsSound
  <1>1. /\ \A event : Control!OnDisk(event) <=> event \in Written(log)
        /\ UNION {log.journal[i].events : i \in DOMAIN log.journal} = Written(log)
    BY DEF Control!OnDisk, Written, Shown
  <1>2. Control!MemoryIsOnDisk /\ Control!OnlyTheLastIsTorn
    BY <1>1 DEF ControlInv, LogSound, Control!MemoryIsOnDisk, Control!OnlyTheLastIsTorn
  <1>3. ASSUME NEW s \in active, Control!Certified, Control!Active(s)
        PROVE  /\ \E at \in 0 .. MaxTime : Control!OnDisk([Control!Event(s, "opened", "allowed") EXCEPT !.at = at])
               /\ Control!Closes(s) = {}
    <2>1. session[s].state = "open" /\ s \in Sessions
      BY <1>3 DEF Control!Active, ControlInv, ControlType
    <2>2. PICK at \in 0 .. MaxTime : OpenedAt(s, at) \in Written(log)
      BY <2>1 DEF ControlInv, Recorded
    <2>3. [Control!Event(s, "opened", "allowed") EXCEPT !.at = at] = OpenedAt(s, at)
      BY DEF Control!Event, OpenedAt
    <2>4. Control!Closes(s) = {}
      BY <1>1, <2>1 DEF ControlInv, Recorded, Control!Closes
    <2> QED BY <1>1, <2>2, <2>3, <2>4
  <1>4. Control!UseIsOnRecord
    BY <1>3 DEF Control!UseIsOnRecord
  <1> QED BY <1>2, <1>4 DEF JournalIsSound

(* A session that was ended stays so in every step.                            *)
LEMMA ControlAction ==
    ASSUME ControlInv, Control!Next
    PROVE  \A s \in Sessions :
              /\ session[s].state = "closed" /\ process' = process => session'[s].state = "closed"
              /\ s \notin active /\ s \in active' => session[s].state = "none"
  <1> SUFFICES ASSUME NEW s \in Sessions
               PROVE  /\ session[s].state = "closed" /\ process' = process => session'[s].state = "closed"
                      /\ s \notin active /\ s \in active' => session[s].state = "none"
    OBVIOUS
  <1>1. CASE UNCHANGED <<session, active>>
    BY <1>1
  <1>2. CASE session' = Control!Pruned /\ active' = Control!Live
    BY <1>2, SessionFacts
  <1>3. ASSUME NEW t \in Sessions, NEW workspace \in Workspaces, Control!Granted(t, workspace)
        PROVE  /\ session[s].state = "closed" /\ process' = process => session'[s].state = "closed"
               /\ s \notin active /\ s \in active' => session[s].state = "none"
    <2>1. /\ session' = [Control!Pruned EXCEPT ![t] = Control!Opened(workspace)] /\ session[t].state = "none"
          /\ active' \subseteq Control!Live \cup {t}
      BY <1>3 DEF Control!Granted, Control!Known
    <2>2. s /= t => session'[s] = Control!Pruned[s]
      BY <2>1, SessionFacts
    <2> QED BY <2>1, <2>2, SessionFacts
  <1>4. ASSUME NEW t \in Sessions, Control!PermitsSession(t) \/ Control!CloseSession(t) \/ Control!Health(t)
        PROVE  /\ session[s].state = "closed" /\ process' = process => session'[s].state = "closed"
               /\ s \notin active /\ s \in active' => session[s].state = "none"
    <2>1. CASE t \in Control!Live /\ active' \subseteq Control!Live
               /\ session' = [Control!Pruned EXCEPT ![t] = Control!AfterPermits(t)[t]]
      <3>1. t \notin Control!Expired
        BY <2>1, SessionFacts
      <3>2. \/ session'[s].state = "closed" /\ session[s].state /= "none"
            \/ s \notin Control!Expired /\ session'[s] = session[s]
        BY <2>1, <3>1, PermitsFacts
      <3> QED BY <2>1, <3>2, SessionFacts
    <2>2. CASE session[t].state /= "none" /\ active' \subseteq active /\ session' = [session EXCEPT ![t] = Control!Closed(t)]
      BY <2>2, SessionFacts
    <2> QED BY <1>2, <1>4, <2>1, <2>2, SessionFacts DEF Control!PermitsSession, Control!CloseSession, Control!Health
  <1>5. CASE Control!Restart
    <2>1. active' = {} /\ process' = process + 1 /\ process \in Nat
      BY <1>5 DEF Control!Restart, ControlInv, ControlType
    <2> QED BY <2>1
  <1>6. ASSUME NEW t \in Sessions, NEW workspace \in Workspaces, Control!Serve(t, workspace) \/ Control!Record(t, workspace),
               ~Control!Granted(t, workspace)
        PROVE  UNCHANGED <<session, active>> \/ (session' = Control!Pruned /\ active' = Control!Live)
    BY <1>6 DEF Control!Serve, Control!Record, Control!Malformed, Control!Turned, Control!Refused
  <1>7. CASE Control!Tick \/ Control!StepBack
    BY <1>1, <1>7 DEF Control!Tick, Control!StepBack
  <1> QED BY <1>1, <1>2, <1>3, <1>4, <1>5, <1>6, <1>7 DEF Control!Next

LEMMA ControlPart ==
    ASSUME [Next]_<<pairing, control, build, download, agent, history, trace, part>>
    PROVE  Control!Next \/ UNCHANGED control
  BY DEF Next

LEMMA ControlSteps ==
    ASSUME ControlInv, [Next]_<<pairing, control, build, download, agent, history, trace, part>>
    PROVE  ControlInv'
  <1>1. CASE UNCHANGED control
    BY <1>1 DEF ControlInv, ControlType, LogSound, Recorded, OpenedAt, control
  <1> QED BY <1>1, ControlPart, ControlStep

(* Memory never claims an event the journal does not hold, only the last line  *)
(* can be unfinished, and a session that can be used is opened and not closed  *)
(* in the journal.                                                             *)
THEOREM JournalCorrect == Spec => []JournalIsSound
  <1>1. Init => ControlInv
    BY ControlInit DEF Init
  <1>2. ControlInv => JournalIsSound
    BY ControlImplies
  <1> QED BY <1>1, <1>2, ControlSteps, PTL DEF Spec

(* A session that was closed, pruned or lost its certificate never comes back  *)
(* within its process.                                                         *)
THEOREM EndedCorrect == Spec => EndedStaysEnded
  <1>1. Init => ControlInv
    BY ControlInit DEF Init
  <1>2. ASSUME ControlInv, [Next]_<<pairing, control, build, download, agent, history, trace, part>>
        PROVE  [\A s \in Sessions :
                  /\ session[s].state = "closed" /\ process' = process => session'[s].state = "closed"
                  /\ s \notin active /\ s \in active' => session[s].state = "none"]_(Control!vars)
    <2>1. CASE UNCHANGED control
      BY <2>1 DEF control, Control!vars
    <2> QED BY <1>2, <2>1, ControlPart, ControlAction
  <1> QED BY <1>1, <1>2, ControlSteps, PTL DEF Spec, EndedStaysEnded, Control!EndedStaysEnded

-----------------------------------------------------------------------------
(* The builds of the worker.                                                   *)

Busy == {"accepted", "building", "hash", "object", "record", "commit", "evidence", "move", "reply"}
Publishing == {"hash", "object", "record", "commit"}
WorkerRecords ==
    [at : Busy \cup {"none", "listening"}, build : Builds \cup {Build!Nothing}, revision : Nat,
     read : Build!Contents, astray : BOOLEAN,
     result : {"succeeded", "failed", "cancelled", Build!Nothing}, index : Nat, count : 0 .. MaxArtifacts,
     hash : Build!Contents]
RecordType == [bytes : Build!Contents, revision : Nat]
BuildType ==
    /\ recorded \in Build!Revisions /\ mirror \in Build!Contents /\ output \in Build!Contents
    /\ caller \in [at : {"idle", "waiting", "committing", "committed"}, build : Builds \cup {Build!Nothing}, revision : Nat]
    /\ caller.at \in {"committing", "committed"} => recorded < MaxRevision
    /\ worker \in WorkerRecords
    /\ worker.at \in Busy => worker.build \in Builds /\ worker.revision \in Build!Revisions
    /\ worker.at \in Publishing => worker.index \in 1 .. worker.count
    /\ objects \in [Build!Contents -> Build!Contents \cup {Build!NoObject}]
    /\ records \in [Build!Artifacts -> RecordType]
    /\ evidence \in [Builds -> {"succeeded", "failed", "cancelled", Build!Nothing}]
    /\ answer \in [build : Builds \cup {Build!Nothing}, revision : Nat, read : Build!Contents,
                   astray : BOOLEAN, count : 0 .. MaxArtifacts]
    /\ answer = Build!NoAnswer \/ answer.build \in Builds
    /\ served \subseteq Build!Artifacts \X Build!Contents

(* Places that are still free when the worker fills them.                      *)
Unpublished ==
    /\ worker.at \in {"object", "record", "commit"} => records[Build!Artifact] = Build!Unknown
    /\ worker.at = "move" => evidence[worker.build] = Build!Nothing

(* While the node waits for the worker, they speak of the same build, and the  *)
(* node has committed nothing that would change the files the worker reads.    *)
Pinned ==
    caller.at = "waiting" /\ worker.at \in Busy =>
        /\ Build!Connected /\ worker.revision = recorded
        /\ worker.at /= "accepted" =>
              worker.read = mirror /\ (worker.read = worker.revision \/ worker.astray)
        /\ worker.at \in Publishing => worker.result = "succeeded" /\ output = worker.read
        /\ worker.at \in {"object", "record", "commit"} => worker.hash = worker.read
        /\ worker.at \in Publishing \cup {"evidence", "move", "reply"} =>
              \A i \in 1 .. worker.count :
                  i < worker.index =>
                      records[<<worker.build, i>>] = [bytes |-> worker.read, revision |-> worker.revision]
        /\ worker.at \in {"evidence", "move", "reply"} => worker.index > worker.count
        /\ worker.at = "reply" => evidence[worker.build] = worker.result

Answered ==
    answer /= Build!NoAnswer =>
        /\ evidence[answer.build] = "succeeded"
        /\ \A i \in 1 .. answer.count :
              /\ records[<<answer.build, i>>] = [bytes |-> answer.read, revision |-> answer.revision]
              /\ records[<<answer.build, i>>] /= Build!Unknown
        /\ answer.read = answer.revision \/ answer.astray

(* What was served is what the record of the artifact names.                   *)
ServedIsRecorded ==
    \A x \in served : records[x[1]] /= Build!Unknown /\ x[2] = records[x[1]].bytes

BuildInv == BuildType /\ Unpublished /\ Pinned /\ Answered /\ ServedIsRecorded

LEMMA BuildInit == Build!BuildWorkerConstants /\ Build!Init => BuildInv
  <1> SUFFICES ASSUME Build!BuildWorkerConstants, Build!Init PROVE BuildInv
    OBVIOUS
  <1> USE DEF Build!Init, Build!BuildWorkerConstants
  <1>1. 1 \in Build!Revisions /\ 1 \in Build!Contents /\ Build!Mixed \in Build!Contents
    BY DEF Build!Revisions, Build!Contents
  <1>2. Build!Gone \in WorkerRecords /\ worker.at = "none"
    BY <1>1 DEF Build!Gone, WorkerRecords
  <1>3. Build!NoAnswer \in [build : Builds \cup {Build!Nothing}, revision : Nat, read : Build!Contents,
                           astray : BOOLEAN, count : 0 .. MaxArtifacts]
    BY <1>1 DEF Build!NoAnswer
  <1>4. caller \in [at : {"idle", "waiting", "committing", "committed"}, build : Builds \cup {Build!Nothing}, revision : Nat]
        /\ caller.at = "idle"
    BY DEF Build!Free
  <1>5. Build!Unknown \in RecordType
    BY <1>1 DEF Build!Unknown, RecordType
  <1>6. BuildType
    BY <1>1, <1>2, <1>3, <1>4, <1>5 DEF BuildType, Busy, Publishing
  <1> QED BY <1>2, <1>4, <1>6 DEF BuildInv, Unpublished, Pinned, Answered, ServedIsRecorded, Build!Nothing

LEMMA BuildFacts ==
    ASSUME Build!BuildWorkerConstants, BuildType
    PROVE  /\ worker.at \in Busy \cup {"none", "listening"} /\ worker.index \in Nat /\ worker.revision \in Nat
           /\ worker.count \in Nat /\ worker.read \in Build!Contents /\ worker.hash \in Build!Contents
           /\ worker.result \in {"succeeded", "failed", "cancelled", Build!Nothing}
           /\ worker.count \in 0 .. MaxArtifacts /\ worker.astray \in BOOLEAN
           /\ caller.at \in {"idle", "waiting", "committing", "committed"}
           /\ recorded \in Build!Contents /\ Build!Mixed \in Build!Contents
           /\ worker.at \in Publishing => Build!Artifact \in Build!Artifacts
           /\ Build!Gone \in WorkerRecords /\ Build!Gone.at = "none"
           /\ Build!Free.at = "idle"
           /\ Build!Free \in [at : {"idle", "waiting", "committing", "committed"},
                              build : Builds \cup {Build!Nothing}, revision : Nat]
  <1>1. Build!Gone \in WorkerRecords /\ Build!Gone.at = "none"
    BY DEF Build!Gone, WorkerRecords, Build!Contents, Build!BuildWorkerConstants
  <1>2. worker \in WorkerRecords
    BY DEF BuildType
  <1>3. worker.at \in Publishing => Build!Artifact \in Build!Artifacts
    <2> SUFFICES ASSUME worker.at \in Publishing PROVE Build!Artifact \in Build!Artifacts
      OBVIOUS
    <2>1. worker.build \in Builds /\ worker.index \in 1 .. worker.count /\ worker.count \in 0 .. MaxArtifacts
      BY <1>2 DEF BuildType, Busy, Publishing, WorkerRecords
    <2>2. worker.index \in 1 .. MaxArtifacts
      BY <2>1 DEF Build!BuildWorkerConstants
    <2> QED BY <2>1, <2>2 DEF Build!Artifact, Build!Artifacts
  <1>4. /\ worker.at \in Busy \cup {"none", "listening"} /\ worker.index \in Nat /\ worker.revision \in Nat
        /\ worker.count \in Nat /\ worker.read \in Build!Contents /\ worker.hash \in Build!Contents
        /\ worker.result \in {"succeeded", "failed", "cancelled", Build!Nothing}
        /\ worker.count \in 0 .. MaxArtifacts /\ worker.astray \in BOOLEAN
    BY <1>2 DEF WorkerRecords
  <1>5. /\ Build!Free.at = "idle"
        /\ Build!Free \in [at : {"idle", "waiting", "committing", "committed"},
                              build : Builds \cup {Build!Nothing}, revision : Nat]
    BY DEF Build!Free
  <1> QED BY <1>1, <1>3, <1>4, <1>5 DEF BuildType, Build!Contents

(* The worker stops: it keeps nothing, and what was published stays.           *)
LEMMA WorkerGone ==
    ASSUME Build!BuildWorkerConstants, BuildInv, worker' = Build!Gone,
           UNCHANGED <<recorded, mirror, output, objects, records, evidence>>,
           caller' \in [at : {"idle", "waiting", "committing", "committed"}, build : Builds \cup {Build!Nothing}, revision : Nat],
           caller'.at \in {"committing", "committed"} => recorded < MaxRevision,
           answer' = answer, served' = served
    PROVE  BuildInv'
  <1>1. worker' \in WorkerRecords /\ worker'.at = "none"
    BY BuildFacts DEF BuildInv
  <1>2. BuildType'
    BY <1>1 DEF BuildInv, BuildType, Busy, Publishing
  <1> QED BY <1>1, <1>2 DEF BuildInv, Unpublished, Pinned, Answered, ServedIsRecorded, Busy

(* The node goes on, and the worker stays where it is.                         *)
LEMMA CallerMoves ==
    ASSUME BuildInv, UNCHANGED <<worker, objects, records, evidence, answer, served>>,
           recorded' \in Build!Revisions, mirror' \in Build!Contents, output' \in Build!Contents,
           caller' \in [at : {"idle", "waiting", "committing", "committed"}, build : Builds \cup {Build!Nothing}, revision : Nat],
           caller'.at \in {"committing", "committed"} => recorded' < MaxRevision,
           caller'.at /= "waiting"
    PROVE  BuildInv'
  <1>1. BuildType'
    BY DEF BuildInv, BuildType
  <1> QED BY <1>1 DEF BuildInv, Unpublished, Pinned, Answered, ServedIsRecorded, Build!Artifact

LEMMA NodeSteps ==
    ASSUME Build!BuildWorkerConstants, BuildInv,
           \/ Build!NodeFails \/ Build!NodeGivesUp \/ Build!SyncBegins \/ Build!SyncCommits
           \/ Build!SyncRecords \/ Build!SyncEnds \/ Build!Cleans
    PROVE  BuildInv'
  <1> USE DEF Build!nodeVars, Build!store
  <1>0. BuildType /\ recorded \in Nat /\ recorded \in 1 .. MaxRevision
    BY DEF BuildInv, BuildType, Build!Revisions
  <1>1. CASE Build!NodeFails \/ Build!NodeGivesUp
    BY <1>0, <1>1, BuildFacts, CallerMoves DEF Build!NodeFails, Build!NodeGivesUp, BuildType
  <1>2. CASE Build!SyncBegins
    <2>1. caller' = [Build!Free EXCEPT !.at = "committing"] /\ mirror' = 0 /\ recorded < MaxRevision
          /\ UNCHANGED <<recorded, worker, output, objects, records, evidence, answer, served>>
      BY <1>2 DEF Build!SyncBegins, Build!Mixed
    <2>2. caller'.at = "committing" /\ caller' \in [at : {"idle", "waiting", "committing", "committed"}, build : Builds \cup {Build!Nothing}, revision : Nat]
      BY <2>1 DEF Build!Free
    <2> QED BY <1>0, <2>1, <2>2, CallerMoves DEF BuildType, Build!Contents, Build!Mixed
  <1>3. CASE Build!SyncCommits
    <2>1. caller' = [caller EXCEPT !.at = "committed"] /\ mirror' = recorded + 1 /\ recorded < MaxRevision
          /\ output' \in {output, recorded + 1}
          /\ UNCHANGED <<recorded, worker, objects, records, evidence, answer, served>>
      BY <1>0, <1>3 DEF Build!SyncCommits, BuildType
    <2>2. caller'.at = "committed" /\ caller' \in [at : {"idle", "waiting", "committing", "committed"}, build : Builds \cup {Build!Nothing}, revision : Nat]
      BY <1>0, <2>1 DEF BuildType
    <2>3. recorded + 1 \in Build!Contents
      BY <1>0, <2>1 DEF Build!BuildWorkerConstants, Build!Contents, Build!Revisions
    <2>4. output' \in Build!Contents
      BY <1>0, <2>1, <2>3 DEF BuildType
    <2> QED BY <1>0, <2>1, <2>2, <2>3, <2>4, CallerMoves DEF BuildType
  <1>4. CASE Build!SyncRecords
    <2>1. caller' = Build!Free /\ recorded' = recorded + 1 /\ recorded < MaxRevision
          /\ UNCHANGED <<mirror, worker, output, objects, records, evidence, answer, served>>
      BY <1>0, <1>4 DEF Build!SyncRecords, BuildType
    <2>2. recorded + 1 \in Build!Revisions
      BY <1>0, <2>1 DEF Build!BuildWorkerConstants, Build!Revisions
    <2> QED BY <1>0, <2>1, <2>2, BuildFacts, CallerMoves DEF BuildType
  <1>5. CASE Build!SyncEnds
    BY <1>0, <1>5, BuildFacts, CallerMoves DEF Build!SyncEnds, BuildType
  <1>6. CASE Build!Cleans
    BY <1>6 DEF Build!Cleans, BuildInv, BuildType, Unpublished, Pinned, Answered, ServedIsRecorded,
         Build!Artifact, Build!Connected
  <1> QED BY <1>1, <1>2, <1>3, <1>4, <1>5, <1>6

(* The worker goes on with the build it was asked for.                         *)
LEMMA WorkerGoesOn ==
    ASSUME Build!BuildWorkerConstants, BuildInv, UNCHANGED <<recorded, mirror, caller, records, evidence, answer, served>>,
           worker' \in WorkerRecords, worker'.at \in Busy \ {"accepted"},
           worker.at \in Busy, worker'.build = worker.build, worker'.revision = worker.revision,
           output' \in Build!Contents,
           objects' \in [Build!Contents -> Build!Contents \cup {Build!NoObject}],
           worker'.at \in Publishing => worker'.index \in 1 .. worker'.count,
           Unpublished',
           caller.at = "waiting" => Pinned'
    PROVE  BuildInv'
  <1>1. BuildType'
    BY DEF BuildInv, BuildType, Busy
  <1>2. Pinned'
    BY DEF Pinned
  <1> QED BY <1>1, <1>2 DEF BuildInv, Answered, ServedIsRecorded

LEMMA WorkerSteps ==
    ASSUME Build!BuildWorkerConstants, BuildInv,
           \/ Build!Checks
           \/ \E result \in {"succeeded", "failed", "cancelled"} : \E count \in 0 .. MaxArtifacts :
                 Build!BuildEnds(result, count)
           \/ Build!Hashes \/ Build!Stores \/ Build!Stages \/ Build!WritesEvidence
    PROVE  BuildInv'
  <1> USE DEF Build!nodeVars, Build!store
  <1>0. /\ BuildType /\ worker \in WorkerRecords /\ mirror \in Build!Contents /\ output \in Build!Contents
        /\ recorded \in Build!Contents
        /\ objects \in [Build!Contents -> Build!Contents \cup {Build!NoObject}]
        /\ worker.at \in Publishing => worker.index \in 1 .. worker.count
    BY BuildFacts DEF BuildInv, BuildType
  <1>1. CASE Build!Checks
    <2>1. CASE worker.revision /= recorded
      BY <1>0, <1>1, <2>1, WorkerGone DEF Build!Checks, Build!Leaves, BuildType
    <2>2. CASE worker.revision = recorded
      <3>1. /\ worker' = [worker EXCEPT !.at = "building", !.read = mirror, !.astray = mirror /= recorded]
            /\ worker.at = "accepted"
            /\ UNCHANGED <<recorded, mirror, caller, answer, output, objects, records, evidence, served>>
        BY <1>1, <2>2 DEF Build!Checks
      <3>2. /\ worker' \in WorkerRecords /\ worker'.at = "building" /\ worker'.read = mirror
            /\ worker'.astray = (mirror /= recorded) /\ worker'.build = worker.build
            /\ worker'.revision = worker.revision
        BY <1>0, <3>1 DEF WorkerRecords, Busy
      <3>3. Unpublished'
        BY <3>2 DEF Unpublished
      <3>4. caller.at = "waiting" => Pinned'
        BY <2>2, <3>1, <3>2 DEF Pinned, BuildInv, Busy, Publishing, Build!Connected
      <3> QED BY <1>0, <3>1, <3>2, <3>3, <3>4, WorkerGoesOn DEF Busy, Publishing
    <2> QED BY <2>1, <2>2
  <1>2. ASSUME NEW result \in {"succeeded", "failed", "cancelled"}, NEW count \in 0 .. MaxArtifacts,
               Build!BuildEnds(result, count)
        PROVE  BuildInv'
    <2> DEFINE at == Build!AfterArtifact(1, count)
    <2>1. /\ worker' = [worker EXCEPT !.at = at, !.read = Build!Reads,
                                !.result = result, !.index = 1, !.count = count]
          /\ worker.at = "building" /\ (result /= "succeeded" => count = 0)
          /\ output' = IF result = "succeeded" THEN Build!Reads ELSE output
          /\ UNCHANGED <<recorded, mirror, caller, answer, objects, records, evidence, served>>
      BY <1>2 DEF Build!BuildEnds
    <2>2. at \in {"evidence", "hash"} /\ (at = "hash" => count >= 1) /\ (at = "evidence" => count = 0)
      BY DEF Build!AfterArtifact
    <2>3. Build!Reads \in Build!Contents
      BY <1>0 DEF Build!Reads, Build!Contents
    <2> HIDE DEF at
    <2>4. /\ worker' \in WorkerRecords /\ worker'.at = at /\ worker'.read = Build!Reads
          /\ worker'.astray = worker.astray /\ worker'.build = worker.build /\ worker'.revision = worker.revision
          /\ worker'.index = 1 /\ worker'.count = count /\ worker'.result = result
      BY <1>0, <2>1, <2>2, <2>3 DEF WorkerRecords, Busy
    <2>5. Unpublished'
      BY <2>2, <2>4 DEF Unpublished
    <2>6. caller.at = "waiting" => Pinned'
      <3> SUFFICES ASSUME caller.at = "waiting" PROVE Pinned'
        OBVIOUS
      <3>1. /\ Build!Connected /\ worker.revision = recorded
            /\ worker.read = mirror /\ (worker.read = worker.revision \/ worker.astray)
        BY <2>1 DEF Pinned, BuildInv, Busy
      <3>2. Build!Reads = worker.read
        BY <3>1 DEF Build!Reads
      <3> QED BY <2>1, <2>2, <2>4, <3>1, <3>2 DEF Pinned, Build!Connected, Publishing
    <2>7. output' \in Build!Contents
      BY <1>0, <2>1, <2>3
    <2>8. worker'.at \in Publishing => worker'.index \in 1 .. worker'.count
      BY <2>2, <2>4 DEF Publishing
    <2> QED BY <1>0, <2>1, <2>2, <2>4, <2>5, <2>6, <2>7, <2>8, WorkerGoesOn DEF Busy
  <1>3. CASE Build!Hashes
    <2>1. /\ worker' = [worker EXCEPT !.at = "object", !.hash = output]
          /\ worker.at = "hash" /\ records[Build!Artifact] = Build!Unknown
          /\ UNCHANGED <<recorded, mirror, caller, answer, output, objects, records, evidence, served>>
      BY <1>3 DEF Build!Hashes
    <2>2. /\ worker' \in WorkerRecords /\ worker'.at = "object" /\ worker'.hash = output
          /\ worker'.read = worker.read /\ worker'.result = worker.result
          /\ worker'.astray = worker.astray /\ worker'.build = worker.build /\ worker'.revision = worker.revision
          /\ worker'.index = worker.index /\ worker'.count = worker.count
      BY <1>0, <2>1 DEF WorkerRecords, Busy
    <2>3. Unpublished'
      BY <2>1, <2>2 DEF Unpublished, Build!Artifact
    <2>4. caller.at = "waiting" => Pinned'
      BY <2>1, <2>2 DEF Pinned, BuildInv, Build!Connected, Busy, Publishing
    <2> QED BY <1>0, <2>1, <2>2, <2>3, <2>4, WorkerGoesOn DEF Busy, Publishing
  <1>4. CASE Build!Stores
    <2>1. /\ worker' = [worker EXCEPT !.at = "record"] /\ worker.at = "object"
          /\ objects' = IF objects[worker.hash] = Build!NoObject
                          THEN [objects EXCEPT ![worker.hash] = output] ELSE objects
          /\ UNCHANGED <<recorded, mirror, caller, answer, output, records, evidence, served>>
      BY <1>4 DEF Build!Stores
    <2>2. /\ worker' \in WorkerRecords /\ worker'.at = "record" /\ worker'.hash = worker.hash
          /\ worker'.read = worker.read /\ worker'.result = worker.result
          /\ worker'.astray = worker.astray /\ worker'.build = worker.build /\ worker'.revision = worker.revision
          /\ worker'.index = worker.index /\ worker'.count = worker.count
      BY <1>0, <2>1 DEF WorkerRecords, Busy
    <2>3. Unpublished'
      BY <2>1, <2>2 DEF BuildInv, Unpublished, Build!Artifact
    <2>4. caller.at = "waiting" => Pinned'
      BY <2>1, <2>2 DEF Pinned, BuildInv, Build!Connected, Busy, Publishing
    <2>5. objects' \in [Build!Contents -> Build!Contents \cup {Build!NoObject}]
      BY <1>0, <2>1
    <2> QED BY <1>0, <2>1, <2>2, <2>3, <2>4, <2>5, WorkerGoesOn DEF Busy, Publishing
  <1>5. CASE Build!Stages
    <2>1. /\ worker' = [worker EXCEPT !.at = "commit"] /\ worker.at = "record"
          /\ UNCHANGED <<recorded, mirror, caller, answer, output, objects, records, evidence, served>>
      BY <1>5 DEF Build!Stages
    <2>2. /\ worker' \in WorkerRecords /\ worker'.at = "commit" /\ worker'.hash = worker.hash
          /\ worker'.read = worker.read /\ worker'.result = worker.result
          /\ worker'.astray = worker.astray /\ worker'.build = worker.build /\ worker'.revision = worker.revision
          /\ worker'.index = worker.index /\ worker'.count = worker.count
      BY <1>0, <2>1 DEF WorkerRecords, Busy
    <2>3. Unpublished'
      BY <2>1, <2>2 DEF BuildInv, Unpublished, Build!Artifact
    <2>4. caller.at = "waiting" => Pinned'
      BY <2>1, <2>2 DEF Pinned, BuildInv, Build!Connected, Busy, Publishing
    <2> QED BY <1>0, <2>1, <2>2, <2>3, <2>4, WorkerGoesOn DEF Busy, Publishing
  <1>6. CASE Build!WritesEvidence
    <2>1. /\ worker' = [worker EXCEPT !.at = "move"] /\ worker.at = "evidence"
          /\ evidence[worker.build] = Build!Nothing
          /\ UNCHANGED <<recorded, mirror, caller, answer, output, objects, records, evidence, served>>
      BY <1>6 DEF Build!WritesEvidence, Build!Vacant
    <2>2. /\ worker' \in WorkerRecords /\ worker'.at = "move" /\ worker'.hash = worker.hash
          /\ worker'.read = worker.read /\ worker'.result = worker.result
          /\ worker'.astray = worker.astray /\ worker'.build = worker.build /\ worker'.revision = worker.revision
          /\ worker'.index = worker.index /\ worker'.count = worker.count
      BY <1>0, <2>1 DEF WorkerRecords, Busy
    <2>3. Unpublished'
      BY <2>1, <2>2 DEF BuildInv, Unpublished, Build!Artifact
    <2>4. caller.at = "waiting" => Pinned'
      BY <2>1, <2>2 DEF Pinned, BuildInv, Build!Connected, Busy, Publishing
    <2> QED BY <1>0, <2>1, <2>2, <2>3, <2>4, WorkerGoesOn DEF Busy, Publishing
  <1> QED BY <1>1, <1>2, <1>3, <1>4, <1>5, <1>6

(* A record is written once, when its artifact had none; what else was built   *)
(* and answered keeps its own.                                                 *)
LEMMA CommitKeeps ==
    ASSUME Build!BuildWorkerConstants, BuildInv, Build!Commits PROVE BuildInv'
  <1> USE DEF Build!nodeVars, Build!store
  <1> DEFINE a == Build!Artifact
             entry == [bytes |-> worker.hash, revision |-> worker.revision]
             next == [worker EXCEPT !.at = Build!AfterArtifact(worker.index + 1, worker.count),
                                    !.index = worker.index + 1, !.hash = Build!Mixed]
  <1>1. /\ worker.at = "commit" /\ records' = [records EXCEPT ![a] = entry]
        /\ UNCHANGED <<recorded, mirror, caller, answer, output, objects, evidence, served>>
        /\ worker' = next \/ worker' = Build!Gone
    BY DEF Build!Commits, Build!Leaves
  <1>2. /\ a \in Build!Artifacts /\ records[a] = Build!Unknown /\ a = <<worker.build, worker.index>>
        /\ records \in [Build!Artifacts -> RecordType] /\ worker.build \in Builds
        /\ worker.index \in 1 .. worker.count /\ worker.revision \in Build!Revisions
        /\ worker.count \in 0 .. MaxArtifacts /\ worker.index \in Nat /\ worker \in WorkerRecords
    BY <1>1, BuildFacts DEF BuildInv, Unpublished, BuildType, Busy, Publishing, Build!Artifact
  <1>3. entry \in RecordType /\ entry /= Build!Unknown
    BY <1>2, BuildFacts DEF RecordType, Build!Revisions, Build!Unknown, BuildInv
  <1> HIDE DEF a, entry
  <1>4. /\ records' \in [Build!Artifacts -> RecordType] /\ records'[a] = entry
        /\ \A b \in Build!Artifacts : b /= a => records'[b] = records[b]
        /\ \A b \in Build!Artifacts : records[b] /= Build!Unknown => records'[b] = records[b]
    BY <1>1, <1>2, <1>3
  <1>5. Answered'
    <2> SUFFICES ASSUME answer /= Build!NoAnswer PROVE Answered'
      BY <1>1 DEF Answered
    <2>1. answer.build \in Builds /\ answer.count \in 0 .. MaxArtifacts
      BY DEF BuildInv, BuildType
    <2>2. \A i \in 1 .. answer.count : <<answer.build, i>> \in Build!Artifacts
      BY <2>1 DEF Build!Artifacts, Build!BuildWorkerConstants
    <2>3. /\ evidence[answer.build] = "succeeded"
          /\ answer.read = answer.revision \/ answer.astray
          /\ \A i \in 1 .. answer.count :
                /\ records[<<answer.build, i>>] = [bytes |-> answer.read, revision |-> answer.revision]
                /\ records[<<answer.build, i>>] /= Build!Unknown
      BY DEF BuildInv, Answered
    <2>4. \A i \in 1 .. answer.count : records'[<<answer.build, i>>] = records[<<answer.build, i>>]
      BY <1>4, <2>2, <2>3
    <2>5. UNCHANGED <<answer, evidence>>
      BY <1>1
    <2> QED BY <2>3, <2>4, <2>5 DEF Answered
  <1>6. ServedIsRecorded'
    <2>1. \A x \in served : x[1] \in Build!Artifacts
      BY DEF BuildInv, BuildType
    <2>2. \A x \in served : records[x[1]] /= Build!Unknown /\ x[2] = records[x[1]].bytes
      BY DEF BuildInv, ServedIsRecorded
    <2>3. \A x \in served : records'[x[1]] = records[x[1]]
      BY <1>4, <2>1, <2>2
    <2>4. served' = served
      BY <1>1
    <2> QED BY <2>2, <2>3, <2>4 DEF ServedIsRecorded
  <1>7. CASE worker' = Build!Gone
    <2>1. worker' \in WorkerRecords /\ worker'.at = "none"
      BY <1>7, BuildFacts DEF BuildInv
    <2>2. BuildType'
      BY <1>1, <1>4, <2>1 DEF BuildInv, BuildType, Busy, Publishing
    <2> QED BY <1>5, <1>6, <2>1, <2>2 DEF BuildInv, Unpublished, Pinned, Busy
  <1>8. CASE worker' = next
    <2> DEFINE at == Build!AfterArtifact(worker.index + 1, worker.count)
    <2>1. at \in {"evidence", "hash"} /\ (at = "hash" => worker.index + 1 <= worker.count)
          /\ (at = "evidence" => worker.index + 1 > worker.count) /\ worker.index + 1 \in Nat
      BY <1>2 DEF Build!AfterArtifact
    <2>2. Build!Mixed \in Build!Contents
      BY DEF Build!Contents
    <2> HIDE DEF at
    <2>3. /\ worker' \in WorkerRecords /\ worker'.at = at
          /\ worker'.read = worker.read /\ worker'.result = worker.result
          /\ worker'.astray = worker.astray /\ worker'.build = worker.build /\ worker'.revision = worker.revision
          /\ worker'.index = worker.index + 1 /\ worker'.count = worker.count
      BY <1>2, <1>8, <2>1, <2>2 DEF WorkerRecords, Busy, at
    <2>4. BuildType'
      BY <1>1, <1>2, <1>4, <2>1, <2>3 DEF BuildInv, BuildType, Busy, Publishing
    <2>5. Unpublished'
      BY <2>1, <2>3 DEF Unpublished
    <2>6. ASSUME caller.at = "waiting" PROVE Pinned'
      <3>1. /\ Build!Connected /\ worker.revision = recorded /\ worker.hash = worker.read
            /\ worker.read = mirror /\ (worker.read = worker.revision \/ worker.astray)
            /\ worker.result = "succeeded" /\ output = worker.read
            /\ \A i \in 1 .. worker.count :
                  i < worker.index =>
                      records[<<worker.build, i>>] = [bytes |-> worker.read, revision |-> worker.revision]
        BY <1>1, <2>6 DEF BuildInv, Pinned, Busy, Publishing
      <3>2. ASSUME NEW i \in 1 .. worker.count, i < worker.index + 1
            PROVE  records'[<<worker.build, i>>] = [bytes |-> worker.read, revision |-> worker.revision]
        <4>1. CASE i = worker.index
          BY <1>2, <1>4, <3>1, <4>1 DEF entry
        <4>2. CASE i < worker.index
          <5>1. <<worker.build, i>> \in Build!Artifacts /\ <<worker.build, i>> /= a
            BY <1>2, <4>2 DEF Build!Artifacts, Build!BuildWorkerConstants
          <5> QED BY <1>4, <3>1, <4>2, <5>1
        <4> QED BY <1>2, <3>2, <4>1, <4>2
      <3> QED BY <1>1, <2>1, <2>3, <3>1, <3>2 DEF Pinned, Build!Connected, Publishing
    <2>7. Pinned'
      BY <1>1, <2>6 DEF Pinned
    <2> QED BY <1>5, <1>6, <2>4, <2>5, <2>7 DEF BuildInv
  <1> QED BY <1>1, <1>7, <1>8

LEMMA EvidenceKeeps ==
    ASSUME Build!BuildWorkerConstants, BuildInv, Build!MovesEvidence PROVE BuildInv'
  <1> USE DEF Build!nodeVars, Build!store
  <1>1. /\ worker' = [worker EXCEPT !.at = "reply"] /\ worker.at = "move"
        /\ evidence' = [evidence EXCEPT ![worker.build] = worker.result]
        /\ UNCHANGED <<recorded, mirror, caller, answer, output, objects, records, served>>
    BY DEF Build!MovesEvidence
  <1>2. /\ worker \in WorkerRecords /\ worker.build \in Builds /\ evidence[worker.build] = Build!Nothing
        /\ evidence \in [Builds -> {"succeeded", "failed", "cancelled", Build!Nothing}]
        /\ worker.result \in {"succeeded", "failed", "cancelled", Build!Nothing}
    BY <1>1, BuildFacts DEF BuildInv, BuildType, Unpublished, Busy
  <1>3. /\ worker' \in WorkerRecords /\ worker'.at = "reply"
        /\ worker'.read = worker.read /\ worker'.result = worker.result
        /\ worker'.astray = worker.astray /\ worker'.build = worker.build /\ worker'.revision = worker.revision
        /\ worker'.index = worker.index /\ worker'.count = worker.count
    BY <1>1, <1>2 DEF WorkerRecords, Busy
  <1>4. /\ evidence' \in [Builds -> {"succeeded", "failed", "cancelled", Build!Nothing}]
        /\ evidence'[worker.build] = worker.result
        /\ \A b \in Builds : evidence[b] /= Build!Nothing => evidence'[b] = evidence[b]
    BY <1>1, <1>2
  <1>5. BuildType'
    BY <1>1, <1>2, <1>3, <1>4 DEF BuildInv, BuildType, Busy, Publishing
  <1>6. Unpublished'
    BY <1>3 DEF Unpublished
  <1>7. Pinned'
    BY <1>1, <1>3, <1>4 DEF BuildInv, Pinned, Build!Connected, Busy, Publishing
  <1>8. Answered'
    <2>1. answer /= Build!NoAnswer => answer.build \in Builds
      BY DEF BuildInv, BuildType
    <2> QED BY <1>1, <1>4, <2>1 DEF BuildInv, Answered, Build!Nothing
  <1> QED BY <1>1, <1>5, <1>6, <1>7, <1>8 DEF BuildInv, ServedIsRecorded

LEMMA ReplyKeeps ==
    ASSUME Build!BuildWorkerConstants, BuildInv, Build!Replies PROVE BuildInv'
  <1>1. /\ worker.at = "reply" /\ worker' = Build!Gone
        /\ UNCHANGED <<recorded, mirror, output, objects, records, evidence, served>>
    BY DEF Build!Replies, Build!Replied, Build!Leaves, Build!store
  <1>2. CASE ~(Build!Connected /\ worker.result = "succeeded")
    <2>1. caller' \in {caller, Build!Free} /\ answer' = answer
      BY <1>2 DEF Build!Replies
    <2> QED BY <1>1, <2>1, BuildFacts, WorkerGone DEF BuildInv, BuildType
  <1>3. CASE Build!Connected /\ worker.result = "succeeded"
    <2>1. caller' = Build!Free /\ answer' = Build!Outcome
      BY <1>3 DEF Build!Replies
    <2>2. worker' \in WorkerRecords /\ worker'.at = "none" /\ caller'.at = "idle"
      BY <1>1, <2>1, BuildFacts DEF BuildInv
    <2>3. /\ worker.build \in Builds /\ worker.revision \in Build!Revisions
          /\ answer'.build = worker.build /\ answer'.revision = worker.revision /\ answer'.read = worker.read
          /\ answer'.astray = worker.astray /\ answer'.count = worker.count
      BY <1>1, <2>1 DEF BuildInv, BuildType, Busy, Build!Outcome
    <2>4. answer' \in [build : Builds \cup {Build!Nothing}, revision : Nat, read : Build!Contents,
                       astray : BOOLEAN, count : 0 .. MaxArtifacts]
      BY <2>1, <2>3, BuildFacts DEF BuildInv, Build!Outcome
    <2>5. BuildType'
      BY <1>1, <2>1, <2>2, <2>3, <2>4, BuildFacts DEF BuildInv, BuildType, Busy, Publishing
    <2>6. /\ evidence[worker.build] = "succeeded"
          /\ worker.read = worker.revision \/ worker.astray
          /\ \A i \in 1 .. worker.count :
                 records[<<worker.build, i>>] = [bytes |-> worker.read, revision |-> worker.revision]
      <3>1. /\ worker.index \in Nat /\ worker.count \in Nat /\ worker.index > worker.count
            /\ evidence[worker.build] = "succeeded"
            /\ worker.read = worker.revision \/ worker.astray
            /\ \A i \in 1 .. worker.count :
                  i < worker.index =>
                      records[<<worker.build, i>>] = [bytes |-> worker.read, revision |-> worker.revision]
        BY <1>1, <1>3, BuildFacts DEF BuildInv, Pinned, Build!Connected, Busy, Publishing
      <3> QED BY <3>1
    <2>7. [bytes |-> worker.read, revision |-> worker.revision] /= Build!Unknown
      BY <2>3 DEF Build!Unknown, Build!Revisions
    <2>8. Answered'
      BY <1>1, <2>3, <2>6, <2>7 DEF Answered
    <2> QED BY <1>1, <2>2, <2>5, <2>8 DEF BuildInv, Unpublished, Pinned, ServedIsRecorded, Busy
  <1> QED BY <1>2, <1>3

LEMMA ServeKeeps ==
    ASSUME Build!BuildWorkerConstants, BuildInv, NEW a \in Build!Artifacts, Build!Serves(a) PROVE BuildInv'
  <1>1. /\ worker' = Build!Gone /\ served' = served \cup {<<a, records[a].bytes>>}
        /\ records[a].revision = recorded
        /\ UNCHANGED <<recorded, mirror, caller, answer, output, objects, records, evidence>>
    BY DEF Build!Serves, Build!Bound, Build!Leaves, Build!nodeVars, Build!store
  <1>2. worker' \in WorkerRecords /\ worker'.at = "none"
    BY <1>1, BuildFacts DEF BuildInv
  <1>3. records[a] \in RecordType /\ recorded \in Build!Revisions
    BY DEF BuildInv, BuildType
  <1>4. records[a].bytes \in Build!Contents /\ records[a] /= Build!Unknown
    BY <1>1, <1>3 DEF RecordType, Build!Unknown, Build!Revisions
  <1>5. BuildType'
    BY <1>1, <1>2, <1>4 DEF BuildInv, BuildType, Busy, Publishing
  <1>6. ServedIsRecorded'
    <2> SUFFICES ASSUME NEW x \in served'
                 PROVE  records[x[1]] /= Build!Unknown /\ x[2] = records[x[1]].bytes
      BY <1>1 DEF ServedIsRecorded
    <2>1. CASE x \in served
      BY <2>1 DEF BuildInv, ServedIsRecorded
    <2>2. CASE x = <<a, records[a].bytes>>
      BY <1>4, <2>2
    <2> QED BY <1>1, <2>1, <2>2
  <1> QED BY <1>1, <1>2, <1>5, <1>6 DEF BuildInv, Unpublished, Pinned, Answered, Busy

LEMMA BuildStep ==
    ASSUME Build!BuildWorkerConstants, BuildInv, Build!Next PROVE BuildInv'
  <1> USE DEF Build!nodeVars, Build!store
  <1>0. /\ worker \in WorkerRecords /\ recorded \in Build!Revisions
        /\ caller \in [at : {"idle", "waiting", "committing", "committed"}, build : Builds \cup {Build!Nothing}, revision : Nat]
        /\ caller.at \in {"committing", "committed"} => recorded < MaxRevision
    BY DEF BuildInv, BuildType
  <1>1. ASSUME NEW b \in Builds, Build!Submits(b) PROVE BuildInv'
    <2>1. /\ caller' = [at |-> "waiting", build |-> b, revision |-> recorded]
          /\ worker' = [worker EXCEPT !.at = "accepted", !.build = b, !.revision = recorded]
          /\ UNCHANGED <<recorded, mirror, output, objects, records, evidence, answer, served>>
      BY <1>1 DEF Build!Submits
    <2>2. recorded \in Nat
      BY <1>0 DEF Build!Revisions
    <2>3. /\ worker' \in WorkerRecords /\ worker'.at = "accepted" /\ worker'.build = b /\ worker'.revision = recorded
      BY <1>0, <2>1, <2>2 DEF WorkerRecords, Busy
    <2>4. BuildType'
      BY <1>0, <2>1, <2>2, <2>3 DEF BuildInv, BuildType, Busy, Publishing
    <2>5. Pinned'
      BY <2>1, <2>3 DEF Pinned, Build!Connected, Publishing
    <2> QED BY <2>1, <2>3, <2>4, <2>5 DEF BuildInv, Unpublished, Answered, ServedIsRecorded
  <1>2. CASE Build!Listens
    <2>1. /\ worker' = [Build!Gone EXCEPT !.at = "listening"]
          /\ UNCHANGED <<recorded, mirror, caller, output, objects, records, evidence, answer, served>>
      BY <1>2 DEF Build!Listens
    <2>2. worker' \in WorkerRecords /\ worker'.at = "listening"
      BY <2>1, BuildFacts DEF BuildInv, WorkerRecords
    <2>3. BuildType'
      BY <2>1, <2>2 DEF BuildInv, BuildType, Busy, Publishing
    <2> QED BY <2>1, <2>2, <2>3 DEF BuildInv, Unpublished, Pinned, Answered, ServedIsRecorded, Busy
  <1>3. CASE Build!AcceptTimesOut \/ Build!Throws \/ Build!Dies
    BY <1>0, <1>3, WorkerGone DEF Build!AcceptTimesOut, Build!Throws, Build!Dies, Build!Leaves
  <1> QED BY <1>1, <1>2, <1>3, NodeSteps, WorkerSteps, CommitKeeps, EvidenceKeeps, ReplyKeeps, ServeKeeps
       DEF Build!Next

(* What is published stays in every step.                                      *)
LEMMA BuildPublishes ==
    ASSUME Build!BuildWorkerConstants, BuildInv, BuildInv', Build!Next \/ UNCHANGED build
    PROVE  /\ \A a \in Build!Artifacts : records[a] /= Build!Unknown => records'[a] = records[a]
           /\ \A hash \in Build!Contents : objects[hash] /= Build!NoObject => objects'[hash] = objects[hash]
           /\ \A b \in Builds : evidence[b] /= Build!Nothing => evidence'[b] = evidence[b]
           /\ \A x, y \in served' : x[1] = y[1] => x[2] = y[2]
  <1>1. records' = records \/ (Build!Commits /\ records' = [records EXCEPT ![Build!Artifact] =
                                   [bytes |-> worker.hash, revision |-> worker.revision]])
    BY DEF Build!Next, Build!Submits, Build!NodeFails, Build!NodeGivesUp, Build!SyncBegins, Build!SyncCommits,
       Build!SyncRecords, Build!SyncEnds, Build!Listens, Build!AcceptTimesOut, Build!Checks, Build!BuildEnds,
       Build!Hashes, Build!Stores, Build!Stages, Build!Commits, Build!WritesEvidence, Build!MovesEvidence,
       Build!Throws, Build!Replies, Build!Dies, Build!Cleans, Build!Serves, Build!store, build
  <1>2. objects' = objects \/ (Build!Stores /\ objects' = IF objects[worker.hash] = Build!NoObject
                    THEN [objects EXCEPT ![worker.hash] = output] ELSE objects)
    BY DEF Build!Next, Build!Submits, Build!NodeFails, Build!NodeGivesUp, Build!SyncBegins, Build!SyncCommits,
       Build!SyncRecords, Build!SyncEnds, Build!Listens, Build!AcceptTimesOut, Build!Checks, Build!BuildEnds,
       Build!Hashes, Build!Stores, Build!Stages, Build!Commits, Build!WritesEvidence, Build!MovesEvidence,
       Build!Throws, Build!Replies, Build!Dies, Build!Cleans, Build!Serves, Build!store, build
  <1>3. evidence' = evidence \/ (Build!MovesEvidence /\ evidence' = [evidence EXCEPT ![worker.build] = worker.result])
    BY DEF Build!Next, Build!Submits, Build!NodeFails, Build!NodeGivesUp, Build!SyncBegins, Build!SyncCommits,
       Build!SyncRecords, Build!SyncEnds, Build!Listens, Build!AcceptTimesOut, Build!Checks, Build!BuildEnds,
       Build!Hashes, Build!Stores, Build!Stages, Build!Commits, Build!WritesEvidence, Build!MovesEvidence,
       Build!Throws, Build!Replies, Build!Dies, Build!Cleans, Build!Serves, Build!store, build
  <1>4. \A a \in Build!Artifacts : records[a] /= Build!Unknown => records'[a] = records[a]
    <2>1. Build!Commits => records[Build!Artifact] = Build!Unknown
      BY DEF Build!Commits, BuildInv, Unpublished
    <2>2. records \in [Build!Artifacts -> RecordType]
      BY DEF BuildInv, BuildType
    <2> QED BY <1>1, <2>1, <2>2
  <1>5. \A hash \in Build!Contents : objects[hash] /= Build!NoObject => objects'[hash] = objects[hash]
    <2>1. objects \in [Build!Contents -> Build!Contents \cup {Build!NoObject}]
      BY DEF BuildInv, BuildType
    <2> QED BY <1>2, <2>1
  <1>6. \A b \in Builds : evidence[b] /= Build!Nothing => evidence'[b] = evidence[b]
    <2>1. Build!MovesEvidence => evidence[worker.build] = Build!Nothing
      BY DEF Build!MovesEvidence, BuildInv, Unpublished
    <2>2. evidence \in [Builds -> {"succeeded", "failed", "cancelled", Build!Nothing}]
      BY DEF BuildInv, BuildType
    <2> QED BY <1>3, <2>1, <2>2
  <1>7. \A x, y \in served' : x[1] = y[1] => x[2] = y[2]
    BY DEF BuildInv, ServedIsRecorded
  <1> QED BY <1>4, <1>5, <1>6, <1>7

LEMMA BuildPart ==
    ASSUME [Next]_<<pairing, control, build, download, agent, history, trace, part>>
    PROVE  Build!Next \/ UNCHANGED build
  BY DEF Next

LEMMA BuildInductive ==
    ASSUME BuildInv, [Next]_<<pairing, control, build, download, agent, history, trace, part>>
    PROVE  BuildInv'
  <1>1. CASE UNCHANGED build
    BY <1>1 DEF BuildInv, BuildType, Unpublished, Pinned, Answered, ServedIsRecorded, Build!Artifact,
       Build!Connected, build
  <1> QED BY <1>1, BuildPart, BuildStep, BuildAssumption

(* A build that the node recorded as succeeded has left its evidence and the   *)
(* records of its artifacts, made of the revision it was pinned to.            *)
THEOREM AnsweredCorrect == Spec => []AnsweredIsBuilt
  <1>1. Init => BuildInv
    BY BuildInit, BuildAssumption DEF Init
  <1>2. BuildInv /\ [Next]_<<pairing, control, build, download, agent, history, trace, part>> => BuildInv'
    BY BuildInductive
  <1>3. BuildInv => AnsweredIsBuilt
    BY DEF BuildInv, Answered, AnsweredIsBuilt, Build!AnsweredIsBuilt
  <1> QED BY <1>1, <1>2, <1>3, PTL DEF Spec

(* Records, objects and evidence are written once, and a fetch of an artifact  *)
(* always serves the same bytes.                                               *)
THEOREM PublishedCorrect == Spec => PublishedStays
  <1>1. Init => BuildInv
    BY BuildInit, BuildAssumption DEF Init
  <1>2. BuildInv /\ [Next]_<<pairing, control, build, download, agent, history, trace, part>> => BuildInv'
    BY BuildInductive
  <1>3. BuildInv /\ BuildInv' /\ [Next]_<<pairing, control, build, download, agent, history, trace, part>>
          => [/\ \A a \in Build!Artifacts : records[a] /= Build!Unknown => records'[a] = records[a]
              /\ \A hash \in Build!Contents : objects[hash] /= Build!NoObject => objects'[hash] = objects[hash]
              /\ \A b \in Builds : evidence[b] /= Build!Nothing => evidence'[b] = evidence[b]
              /\ \A x, y \in served' : x[1] = y[1] => x[2] = y[2]]_(Build!vars)
    BY BuildPart, BuildPublishes, BuildAssumption
  <1> QED BY <1>1, <1>2, <1>3, PTL DEF Spec, PublishedStays, Build!PublishedStays

-----------------------------------------------------------------------------
(* The download of an artifact.                                                *)

LEMMA DownloadMin ==
    ASSUME NEW S, S \subseteq Nat, S /= {}
    PROVE  Download!Min(S) \in S
  BY NatMin DEF Download!Min
LEMMA DownloadCardinality == \A S : Download!Cardinality(S) = Cardinality(S)
  BY DEF Download!Cardinality, Cardinality

Reads == client.at \in {"reading", "writing"}
DownloadType ==
    /\ staging \in [Download!Chunks -> {"absent", "torn", "right"}]
    /\ client \in [at : {"idle", "reading", "writing", "omitted", "failed", "done"},
                   asked : SUBSET Download!Chunks, expected : SUBSET Download!Chunks, received : Nat]
    /\ relay \in [relays : BOOLEAN, expected : SUBSET Download!Chunks]
    /\ wire \in Seq(Download!Chunks)
    /\ client.at = "writing" => wire /= <<>>

(* The chunk the client has taken from the stream and is writing.              *)
InHand == IF client.at = "writing" THEN {wire[1]} ELSE {}
(* The stream brings every chunk once, and what it has still to bring is       *)
(* expected.                                                                   *)
Streams ==
    Reads =>
        /\ \A i, j \in DOMAIN wire : wire[i] = wire[j] => i = j
        /\ relay.relays => \A i \in DOMAIN wire : wire[i] \notin relay.expected
        /\ relay.relays => relay.expected \subseteq client.expected
        /\ \A i \in DOMAIN wire : wire[i] \in client.expected <=> wire[i] \notin InHand
(* What the client lacks is what it expects and what it has in hand; it has    *)
(* taken one of each two since it asked.                                       *)
Lacks ==
    /\ client.expected \subseteq client.asked
    /\ Reads \/ client.at = "omitted" =>
          /\ Download!Missing = client.expected \cup InHand
          /\ Cardinality(client.asked)
               = client.received + Cardinality(client.expected) + (IF client.at = "writing" THEN 1 ELSE 0)
          /\ client.received <= Cardinality(client.expected) + 1
    /\ client.at = "writing" =>
          wire[1] \in client.asked /\ client.received <= Cardinality(client.expected)
    /\ client.at = "omitted" => client.received >= Cardinality(client.expected)
Delivered ==
    /\ destination \in {Download!Empty, Download!Whole}
    /\ client.at = "done" => destination = Download!Whole /\ Cardinality(client.asked) <= 1
DownloadInv == DownloadType /\ Streams /\ Lacks /\ Delivered

LEMMA ChunksAreFinite ==
    ASSUME Download!ArtifactDownloadConstants, NEW S \in SUBSET Download!Chunks
    PROVE  IsFiniteSet(S) /\ Cardinality(S) \in Nat
  <1>1. IsFiniteSet(Download!Chunks)
    BY FS_Interval DEF Download!Chunks, Download!ArtifactDownloadConstants
  <1> QED BY <1>1, FS_Subset, FS_CardinalityType

LEMMA DownloadInit == Download!ArtifactDownloadConstants /\ Download!Init => DownloadInv
  <1> SUFFICES ASSUME Download!ArtifactDownloadConstants, Download!Init PROVE DownloadInv
    OBVIOUS
  <1>1. DownloadType
    BY DEF Download!Init, DownloadType, Download!Empty
  <1> QED BY <1>1 DEF Download!Init, DownloadInv, Streams, Lacks, Delivered, Reads

(* A client that has stopped is asked for nothing.                             *)
LEMMA ClientStops ==
    ASSUME DownloadInv, DownloadType', client'.at \in {"idle", "failed"},
           client'.asked = client.asked, client'.expected = client.expected,
           destination' = destination
    PROVE  DownloadInv'
  BY DEF DownloadInv, Streams, Lacks, Delivered, Reads

LEMMA DownloadStep ==
    ASSUME Download!ArtifactDownloadConstants, DownloadInv, Download!Next PROVE DownloadInv'
  <1>0. /\ DownloadType /\ staging \in [Download!Chunks -> {"absent", "torn", "right"}]
        /\ client.at \in {"idle", "reading", "writing", "omitted", "failed", "done"}
        /\ client.asked \in SUBSET Download!Chunks /\ client.expected \in SUBSET Download!Chunks
        /\ client.received \in Nat /\ relay.relays \in BOOLEAN /\ relay.expected \in SUBSET Download!Chunks
        /\ wire \in Seq(Download!Chunks) /\ Len(wire) \in Nat
        /\ Cardinality(client.asked) \in Nat /\ Cardinality(client.expected) \in Nat
        /\ client.expected \subseteq client.asked /\ IsFiniteSet(client.expected)
    BY ChunksAreFinite DEF DownloadInv, DownloadType, Lacks
  <1>1. CASE Download!Asks
    <2> DEFINE lacks == Download!Missing
    <2>1. /\ client' = [at |-> "reading", asked |-> lacks, expected |-> lacks, received |-> 0]
          /\ relay' = [relays |-> TRUE, expected |-> lacks] /\ wire' = <<>>
          /\ UNCHANGED <<staging, destination>>
      BY <1>1 DEF Download!Asks
    <2>2. lacks \in SUBSET Download!Chunks /\ Cardinality(lacks) \in Nat
      BY ChunksAreFinite DEF Download!Missing
    <2>3. Download!Missing' = lacks
      BY <2>1 DEF Download!Missing, Download!Holds
    <2> HIDE DEF lacks
    <2>4. DownloadType'
      BY <1>0, <2>1, <2>2 DEF DownloadType
    <2>5. Streams' /\ Delivered'
      BY <2>1 DEF Streams, Delivered, DownloadInv, InHand
    <2>6. Lacks'
      BY <2>1, <2>2, <2>3 DEF Lacks, InHand
    <2> QED BY <2>4, <2>5, <2>6 DEF DownloadInv
  <1>2. CASE Download!Relays
    <2> DEFINE c == Download!Min(relay.expected)
    <2>1. /\ relay.relays /\ relay.expected /= {}
          /\ relay' = [relay EXCEPT !.expected = relay.expected \ {c}]
          /\ wire' = Append(wire, c) /\ UNCHANGED <<staging, destination, client>>
      BY <1>2 DEF Download!Relays
    <2>2. c \in relay.expected
      BY <1>0, <2>1, DownloadMin DEF Download!Chunks
    <2> HIDE DEF c
    <2>3. /\ relay' \in [relays : BOOLEAN, expected : SUBSET Download!Chunks]
          /\ relay'.relays /\ relay'.expected = relay.expected \ {c}
      BY <1>0, <2>1 DEF DownloadType
    <2>4. /\ wire' \in Seq(Download!Chunks) /\ Len(wire') = Len(wire) + 1
          /\ \A i \in 1 .. Len(wire) : wire'[i] = wire[i]
          /\ wire'[Len(wire) + 1] = c
          /\ DOMAIN wire' = 1 .. Len(wire) + 1 /\ DOMAIN wire = 1 .. Len(wire)
      BY <1>0, <2>1, <2>2
    <2>5. DownloadType'
      BY <1>0, <2>1, <2>3, <2>4 DEF DownloadType
    <2>6. client.at = "writing" => Len(wire) >= 1 /\ wire'[1] = wire[1]
      BY <1>0, <2>4 DEF DownloadType
    <2>7. InHand' = InHand
      BY <2>1, <2>6 DEF InHand
    <2>8. Streams'
      <3> SUFFICES ASSUME Reads PROVE Streams'
        BY <2>1 DEF Streams, Reads
      <3>1. /\ \A i, j \in 1 .. Len(wire) : wire[i] = wire[j] => i = j
            /\ \A i \in 1 .. Len(wire) : wire[i] \notin relay.expected
            /\ relay.expected \subseteq client.expected
            /\ \A i \in 1 .. Len(wire) : wire[i] \in client.expected <=> wire[i] \notin InHand
        BY <2>1, <2>4 DEF DownloadInv, Streams
      <3>2. c \in client.expected /\ c \notin InHand
        BY <1>0, <2>2, <2>6, <3>1 DEF InHand
      <3>3. \A i \in 1 .. Len(wire) + 1 : i \in 1 .. Len(wire) \/ i = Len(wire) + 1
        BY <1>0
      <3>4. \A i, j \in DOMAIN wire' : wire'[i] = wire'[j] => i = j
        BY <2>2, <2>4, <3>1, <3>3
      <3>5. \A i \in DOMAIN wire' : wire'[i] \notin relay'.expected
        BY <2>3, <2>4, <3>1, <3>3
      <3>6. \A i \in DOMAIN wire' : wire'[i] \in client.expected <=> wire'[i] \notin InHand
        BY <2>4, <3>1, <3>2, <3>3
      <3> QED BY <2>1, <2>3, <2>7, <3>1, <3>4, <3>5, <3>6 DEF Streams
    <2>9. Lacks'
      BY <2>1, <2>6, <2>7 DEF DownloadInv, Lacks, Download!Missing, Download!Holds, Reads
    <2> QED BY <2>1, <2>5, <2>8, <2>9 DEF DownloadInv, Delivered
  <1>3. CASE Download!Records \/ Download!NodeFails
    <2>1. /\ relay' = [relay EXCEPT !.relays = FALSE] /\ UNCHANGED <<staging, destination, client, wire>>
      BY <1>3 DEF Download!Records, Download!NodeFails
    <2>2. relay' \in [relays : BOOLEAN, expected : SUBSET Download!Chunks] /\ relay'.relays = FALSE
      BY <1>0, <2>1 DEF DownloadType
    <2> QED BY <1>0, <2>1, <2>2 DEF DownloadInv, DownloadType, Streams, Lacks, Delivered, Reads, InHand,
         Download!Missing, Download!Holds
  <1>4. CASE Download!Writes
    <2> DEFINE c == wire[1]
    <2>1. /\ client.at = "reading" /\ wire /= <<>> /\ client.received < Cardinality(client.expected)
          /\ staging' = [staging EXCEPT ![c] = "torn"]
          /\ client' = [client EXCEPT !.at = "writing", !.expected = client.expected \ {c}]
          /\ UNCHANGED <<destination, relay, wire>>
      BY <1>0, <1>4, DownloadCardinality DEF Download!Writes, Download!GoesOn
    <2>2. 1 \in DOMAIN wire /\ c \in Download!Chunks
      BY <1>0, <2>1
    <2>3. /\ \A i, j \in DOMAIN wire : wire[i] = wire[j] => i = j
          /\ relay.relays => \A i \in DOMAIN wire : wire[i] \notin relay.expected
          /\ relay.relays => relay.expected \subseteq client.expected
          /\ \A i \in DOMAIN wire : wire[i] \in client.expected
          /\ InHand = {} /\ InHand' = {c}
      BY <2>1, <1>0 DEF DownloadInv, Streams, Reads, InHand, DownloadType
    <2> HIDE DEF c
    <2>4. /\ client'.at = "writing" /\ client'.expected = client.expected \ {c} /\ client'.asked = client.asked
          /\ client'.received = client.received
          /\ client' \in [at : {"idle", "reading", "writing", "omitted", "failed", "done"},
                   asked : SUBSET Download!Chunks, expected : SUBSET Download!Chunks, received : Nat]
      BY <1>0, <2>1 DEF DownloadType
    <2>5. DownloadType'
      BY <1>0, <2>1, <2>2, <2>4 DEF DownloadType
    <2>6. c \in client.expected /\ c \in client.asked
      BY <1>0, <2>2, <2>3 DEF c
    <2>7. Cardinality(client'.expected) = Cardinality(client.expected) - 1
      <3> DEFINE left == client.expected
      <3>1. Cardinality(left \ {c}) = Cardinality(left) - 1
        <4>1. IsFiniteSet(left) /\ c \in left
          BY <1>0, <2>6
        <4> HIDE DEF left
        <4> QED BY <4>1, FS_RemoveElement
      <3> QED BY <2>4, <3>1
    <2>8. Streams'
      <3>1. \A i \in DOMAIN wire : wire[i] = c <=> i = 1
        BY <2>2, <2>3 DEF c
      <3>2. \A i \in DOMAIN wire : wire[i] \in client'.expected <=> wire[i] \notin {c}
        BY <2>3, <2>4
      <3>3. relay.relays => relay.expected \subseteq client'.expected
        BY <2>2, <2>3, <2>4 DEF c
      <3> QED BY <2>1, <2>3, <3>2, <3>3 DEF Streams
    <2>9. Download!Missing' = client'.expected \cup {c}
      <3>1. Download!Missing = client.expected
        BY <2>1, <2>3 DEF DownloadInv, Lacks, Reads
      <3>2. Download!Missing' = Download!Missing \cup {c}
        BY <1>0, <2>1, <2>2 DEF Download!Missing, Download!Holds
      <3> QED BY <2>4, <2>6, <3>1, <3>2
    <2>10. Lacks'
      BY <1>0, <2>1, <2>3, <2>4, <2>6, <2>7, <2>9 DEF DownloadInv, Lacks, Reads, c
    <2> QED BY <2>1, <2>4, <2>5, <2>8, <2>10 DEF DownloadInv, Delivered
  <1>5. CASE Download!Flushes
    <2> DEFINE c == wire[1]
    <2>1. /\ client.at = "writing" /\ wire /= <<>>
          /\ staging' = [staging EXCEPT ![c] = "right"]
          /\ client' = [client EXCEPT !.at = "reading", !.received = client.received + 1]
          /\ wire' = Tail(wire) /\ UNCHANGED <<destination, relay>>
      BY <1>0, <1>5 DEF Download!Flushes, DownloadType
    <2>2. 1 \in DOMAIN wire /\ c \in Download!Chunks /\ DOMAIN wire = 1 .. Len(wire)
      BY <1>0, <2>1
    <2>3. /\ wire' \in Seq(Download!Chunks) /\ DOMAIN wire' = 1 .. (Len(wire) - 1)
          /\ \A i \in DOMAIN wire' : i + 1 \in DOMAIN wire /\ wire'[i] = wire[i + 1]
      BY <1>0, <2>1
    <2>4. /\ client'.at = "reading" /\ client'.expected = client.expected /\ client'.asked = client.asked
          /\ client'.received = client.received + 1
          /\ client' \in [at : {"idle", "reading", "writing", "omitted", "failed", "done"},
                   asked : SUBSET Download!Chunks, expected : SUBSET Download!Chunks, received : Nat]
      <3> DEFINE received == client.received + 1
      <3>1. received \in Nat
        BY <1>0
      <3>2. client' = [client EXCEPT !.at = "reading", !.received = received]
        BY <2>1
      <3> HIDE DEF received
      <3>3. /\ client'.at = "reading" /\ client'.expected = client.expected /\ client'.asked = client.asked
            /\ client'.received = received
            /\ client' \in [at : {"idle", "reading", "writing", "omitted", "failed", "done"},
                   asked : SUBSET Download!Chunks, expected : SUBSET Download!Chunks, received : Nat]
        BY <1>0, <3>1, <3>2 DEF DownloadType
      <3> QED BY <3>3 DEF received
    <2>5. DownloadType'
      BY <1>0, <2>1, <2>2, <2>3, <2>4 DEF DownloadType
    <2>6. InHand = {c} /\ InHand' = {}
      BY <2>1, <2>4 DEF InHand
    <2>7. /\ \A i, j \in DOMAIN wire : wire[i] = wire[j] => i = j
          /\ relay.relays => \A i \in DOMAIN wire : wire[i] \notin relay.expected
          /\ relay.relays => relay.expected \subseteq client.expected
          /\ \A i \in DOMAIN wire : wire[i] \in client.expected <=> wire[i] \notin {c}
      BY <2>1, <2>6 DEF DownloadInv, Streams, Reads
    <2>8. Streams'
      <3>1. \A i \in DOMAIN wire' : wire'[i] /= c
        BY <1>0, <2>2, <2>3, <2>7
      <3>2. \A i, j \in DOMAIN wire' : wire'[i] = wire'[j] => i = j
        BY <1>0, <2>3, <2>7
      <3>3. \A i \in DOMAIN wire' : wire'[i] \in client'.expected
        BY <2>3, <2>4, <2>7, <3>1
      <3> QED BY <2>1, <2>3, <2>4, <2>6, <2>7, <3>2, <3>3 DEF Streams
    <2>9. Download!Missing' = client'.expected
      <3>1. Download!Missing = client.expected \cup {c} /\ c \notin client.expected
        BY <2>1, <2>2, <2>6, <2>7 DEF DownloadInv, Lacks, Reads
      <3>2. Download!Missing' = Download!Missing \ {c}
        BY <1>0, <2>1, <2>2 DEF Download!Missing, Download!Holds
      <3> QED BY <2>4, <3>1, <3>2
    <2>10. Lacks'
      BY <1>0, <2>1, <2>4, <2>6, <2>9 DEF DownloadInv, Lacks, Reads
    <2> QED BY <2>1, <2>4, <2>5, <2>8, <2>10 DEF DownloadInv, Delivered
  <1>6. CASE Download!Omits
    <2>1. /\ client.at = "reading" /\ client' = [client EXCEPT !.at = "omitted"]
          /\ ~(client.received < Cardinality(client.expected))
          /\ UNCHANGED <<staging, destination, relay, wire>>
      BY <1>6, DownloadCardinality DEF Download!Omits, Download!GoesOn
    <2>2. /\ client'.at = "omitted" /\ client'.expected = client.expected /\ client'.asked = client.asked
          /\ client'.received = client.received
          /\ client' \in [at : {"idle", "reading", "writing", "omitted", "failed", "done"},
                   asked : SUBSET Download!Chunks, expected : SUBSET Download!Chunks, received : Nat]
      BY <1>0, <2>1 DEF DownloadType
    <2>3. DownloadType'
      BY <1>0, <2>1, <2>2 DEF DownloadType
    <2>4. InHand = {} /\ InHand' = {} /\ Download!Missing' = Download!Missing
      BY <2>1, <2>2 DEF InHand, Download!Missing, Download!Holds
    <2>5. Lacks'
      BY <1>0, <2>1, <2>2, <2>4 DEF DownloadInv, Lacks, Reads
    <2> QED BY <2>1, <2>2, <2>3, <2>5 DEF DownloadInv, Streams, Delivered, Reads
  <1>7. CASE Download!Finalizes
    <2>1. /\ client.at = "reading" /\ client.expected = {} /\ UNCHANGED <<relay, wire>>
          /\ ~(client.received < Cardinality(client.expected))
      BY <1>7, DownloadCardinality DEF Download!Finalizes, Download!GoesOn
    <2>2. CASE staging /= Download!Whole
      <3>1. /\ client' = [client EXCEPT !.at = "failed"] /\ UNCHANGED <<staging, destination>>
        BY <1>7, <2>2 DEF Download!Finalizes
      <3>2. /\ client'.at = "failed" /\ client'.expected = client.expected /\ client'.asked = client.asked
            /\ DownloadType'
        BY <1>0, <2>1, <3>1 DEF DownloadType
      <3> QED BY <3>1, <3>2, ClientStops
    <2>3. CASE staging = Download!Whole
      <3>1. /\ client' = [client EXCEPT !.at = "done"] /\ destination' = Download!Whole /\ staging' = Download!Empty
        BY <1>7, <2>3 DEF Download!Finalizes
      <3>2. /\ client'.at = "done" /\ client'.expected = client.expected /\ client'.asked = client.asked
            /\ DownloadType'
        BY <1>0, <2>1, <3>1 DEF DownloadType, Download!Empty
      <3>3. Cardinality(client.asked) <= 1
        BY <1>0, <2>1, FS_EmptySet DEF DownloadInv, Lacks, Reads
      <3> QED BY <1>0, <3>1, <3>2, <3>3 DEF DownloadInv, Streams, Lacks, Delivered, Reads
    <2> QED BY <2>2, <2>3
  <1>8. CASE Download!ClientFails \/ Download!Starves
    <2>1. /\ client' = [client EXCEPT !.at = "failed"] /\ UNCHANGED <<destination, relay, wire>>
          /\ staging' = staging \/ staging' = [staging EXCEPT ![Head(wire)] = "right"]
      BY <1>8 DEF Download!ClientFails, Download!Starves
    <2>2. /\ client'.at = "failed" /\ client'.expected = client.expected /\ client'.asked = client.asked
          /\ DownloadType'
      BY <1>0, <2>1 DEF DownloadType
    <2> QED BY <2>1, <2>2, ClientStops
  <1> QED BY <1>1, <1>2, <1>3, <1>4, <1>5, <1>6, <1>7, <1>8 DEF Download!Next

LEMMA DownloadImplies ==
    ASSUME Download!ArtifactDownloadConstants, DownloadInv PROVE AttemptsAddUp
  <1>1. /\ client.asked \in SUBSET Download!Chunks /\ client.expected \in SUBSET Download!Chunks
        /\ client.received \in Nat
        /\ Cardinality(client.asked) \in Nat /\ Cardinality(client.expected) \in Nat
    BY ChunksAreFinite DEF DownloadInv, DownloadType
  <1>2. client.at = "omitted" =>
           /\ Download!Missing = client.expected
           /\ Cardinality(client.expected) = Cardinality(client.asked) \div 2
    <2> SUFFICES ASSUME client.at = "omitted"
                 PROVE  /\ Download!Missing = client.expected
                        /\ Cardinality(client.expected) = Cardinality(client.asked) \div 2
      OBVIOUS
    <2>1. Download!Missing = client.expected
      BY DEF DownloadInv, Lacks, InHand
    <2>2. \A n, e, r \in Nat : n = r + e /\ r <= e + 1 /\ r >= e => e = n \div 2
      OBVIOUS
    <2>3. /\ Cardinality(client.asked) = client.received + Cardinality(client.expected)
          /\ client.received <= Cardinality(client.expected) + 1 /\ client.received >= Cardinality(client.expected)
      BY <1>1 DEF DownloadInv, Lacks
    <2> QED BY <1>1, <2>1, <2>2, <2>3
  <1> QED BY <1>2, DownloadCardinality DEF AttemptsAddUp, Download!AttemptsAddUp, Download!Missing, DownloadInv, Delivered, Lacks

LEMMA DownloadPart ==
    ASSUME [Next]_<<pairing, control, build, download, agent, history, trace, part>>
    PROVE  Download!Next \/ UNCHANGED download
  BY DEF Next

(* The destination is absent or whole, and an attempt nothing disturbs takes   *)
(* half of the chunks it asked for.                                            *)
THEOREM AttemptsCorrect == Spec => []AttemptsAddUp
  <1>1. Init => DownloadInv
    BY DownloadInit, DownloadAssumption DEF Init
  <1>2. DownloadInv /\ [Next]_<<pairing, control, build, download, agent, history, trace, part>> => DownloadInv'
    <2>1. CASE UNCHANGED download
      BY <2>1 DEF DownloadInv, DownloadType, Streams, Lacks, Delivered, Reads, InHand, download,
         Download!Missing, Download!Holds
    <2> QED BY <2>1, DownloadPart, DownloadStep, DownloadAssumption
  <1>3. DownloadInv => AttemptsAddUp
    BY DownloadImplies, DownloadAssumption
  <1> QED BY <1>1, <1>2, <1>3, PTL DEF Spec

-----------------------------------------------------------------------------
(* The jobs of an agent.                                                       *)

JobRecords ==
    [state : Agent!States, started : Nat, last : Nat, granted : BOOLEAN, mayPatch : BOOLEAN,
     calls : Nat, failures : Nat, patches : Nat, claims : Nat]
PatchRecords ==
    [job : Agent!Jobs \cup {0}, at : {"none", "compare", "replace", "verify", "failed"}, time : Nat, after : Texts]
AgentType ==
    /\ jobs \in [Agent!Jobs -> JobRecords] /\ patch \in PatchRecords
    /\ approved \in [Agent!Jobs -> Nat] /\ replaced \in [Agent!Jobs -> Nat]

(* What a job has spent of its approvals: the grant it holds, the patches it   *)
(* tried and the one that is being made; its evidence lags behind the file by  *)
(* the patch that has still to be verified.                                    *)
Spends(job, making, at, grants, writes) ==
    /\ grants = job.patches + (IF making THEN 1 ELSE 0) + (IF job.granted THEN 1 ELSE 0)
    /\ writes + (IF making /\ at \in {"compare", "replace"} THEN 1 ELSE 0)
         <= job.patches + (IF making THEN 1 ELSE 0)
    /\ job.claims + (IF making /\ at = "verify" THEN 1 ELSE 0) <= writes
    /\ job.claims <= job.patches /\ job.patches <= job.claims + job.failures
    /\ job.state = "none" => grants = 0 /\ writes = 0
    /\ job.state = "waiting" => ~job.granted
    /\ making => job.state = "running"
    /\ job.state = "succeeded" => job.calls > 0 /\ job.claims = job.patches
AgentInv ==
    /\ AgentType
    /\ patch.at = "none" <=> patch.job = 0
    /\ \A j \in Agent!Jobs : Spends(jobs[j], patch.job = j, patch.at, approved[j], replaced[j])

LEMMA AgentInit == Agent!AgentRuntimeConstants /\ Agent!Init => AgentInv
  <1> SUFFICES ASSUME Agent!AgentRuntimeConstants, Agent!Init PROVE AgentInv
    OBVIOUS
  <1>1. Agent!NoJob \in JobRecords
    BY DEF Agent!NoJob, JobRecords, Agent!States, Agent!Active
  <1>2. Agent!NoPatch \in PatchRecords
    BY DEF Agent!NoPatch, PatchRecords, Agent!AgentRuntimeConstants
  <1>3. AgentType
    BY <1>1, <1>2 DEF AgentType, Agent!Init
  <1>4. patch.at = "none" /\ patch.job = 0
    BY DEF Agent!Init, Agent!NoPatch
  <1>5. \A j \in Agent!Jobs : Spends(jobs[j], FALSE, "none", 0, 0) /\ approved[j] = 0 /\ replaced[j] = 0
    BY DEF Agent!Init, Spends, Agent!NoJob
  <1>6. \A j \in Agent!Jobs : patch.job /= j
    BY <1>4 DEF Agent!Jobs
  <1> QED BY <1>3, <1>4, <1>5, <1>6 DEF AgentInv

(* A step that makes no patch changes a job and its approvals.                 *)
LEMMA JobChanges ==
    ASSUME AgentInv, Agent!Idle, patch' = patch, replaced' = replaced,
           jobs' \in [Agent!Jobs -> JobRecords], approved' \in [Agent!Jobs -> Nat],
           \A j \in Agent!Jobs : Spends(jobs'[j], FALSE, "none", approved'[j], replaced[j])
    PROVE  AgentInv'
  <1>1. \A j \in Agent!Jobs : patch.job /= j
    BY DEF AgentInv, Agent!Idle, Agent!Jobs
  <1> QED BY <1>1 DEF AgentInv, AgentType, Agent!Idle

LEMMA IdleSpends ==
    ASSUME AgentInv, Agent!Idle, NEW j \in Agent!Jobs
    PROVE  /\ jobs[j] \in JobRecords /\ approved[j] \in Nat /\ replaced[j] \in Nat
           /\ Spends(jobs[j], FALSE, "none", approved[j], replaced[j])
  <1>1. patch.job /= j
    BY DEF AgentInv, Agent!Idle, Agent!Jobs
  <1> QED BY <1>1 DEF AgentInv, AgentType, Agent!Idle

(* One job changes, while no patch is made.                                    *)
LEMMA OneJobChanges ==
    ASSUME AgentInv, Agent!Idle, patch' = patch, replaced' = replaced, approved' = approved,
           NEW j \in Agent!Jobs, NEW job \in JobRecords, jobs' = [jobs EXCEPT ![j] = job],
           Spends(job, FALSE, "none", approved[j], replaced[j])
    PROVE  AgentInv'
  BY JobChanges, IdleSpends DEF AgentInv, AgentType

LEMMA SweepKeeps ==
    ASSUME AgentInv, Agent!Idle, NEW t \in Agent!Times
    PROVE  /\ Agent!Sweep(t) \in [Agent!Jobs -> JobRecords]
           /\ \A j \in Agent!Jobs :
                /\ Spends(Agent!Sweep(t)[j], FALSE, "none", approved[j], replaced[j])
                /\ jobs[j].state = "none" => Agent!Sweep(t)[j].state = "none"
  <1>1. ASSUME NEW j \in Agent!Jobs
        PROVE  /\ Agent!Sweep(t)[j] \in JobRecords
               /\ Spends(Agent!Sweep(t)[j], FALSE, "none", approved[j], replaced[j])
               /\ jobs[j].state = "none" => Agent!Sweep(t)[j].state = "none"
    <2> DEFINE job == [jobs[j] EXCEPT !.state = "timed_out", !.last = t]
    <2>1. jobs[j] \in JobRecords /\ Spends(jobs[j], FALSE, "none", approved[j], replaced[j])
      BY IdleSpends
    <2>2. CASE j \notin Agent!Swept(t)
      BY <2>1, <2>2 DEF Agent!Sweep
    <2>3. CASE j \in Agent!Swept(t)
      <3>1. Agent!Sweep(t)[j] = job /\ jobs[j].state \in {"running", "waiting"} /\ t \in Nat
        BY <2>3 DEF Agent!Sweep, Agent!Swept, Agent!IsActive, Agent!Active, Agent!Times
      <3>2. /\ job \in JobRecords /\ job.state = "timed_out" /\ job.granted = jobs[j].granted
            /\ job.calls = jobs[j].calls /\ job.failures = jobs[j].failures
            /\ job.patches = jobs[j].patches /\ job.claims = jobs[j].claims
        BY <2>1, <3>1 DEF JobRecords, Agent!States
      <3> HIDE DEF job
      <3>3. Spends(job, FALSE, "none", approved[j], replaced[j])
        BY <2>1, <3>1, <3>2 DEF Spends
      <3> QED BY <3>1, <3>2, <3>3
    <2> QED BY <2>2, <2>3
  <1> QED BY <1>1 DEF Agent!Sweep

LEMMA AgentStep ==
    ASSUME Agent!AgentRuntimeConstants, AgentInv, Agent!Next PROVE AgentInv'
  <1>1. ASSUME NEW j \in Agent!Jobs, NEW t \in Agent!Times,
               \/ Agent!TimesOut(j, t) \/ Agent!Overruns(j, t)
               \/ Agent!AsksReview(j, t) \/ Agent!Completes(j, t) \/ Agent!Cancels(j, t)
               \/ \E succeeds \in BOOLEAN : Agent!UsesTool(j, t, succeeds)
        PROVE  AgentInv'
    <2>1. Agent!Idle /\ UNCHANGED <<patch, replaced, approved>> /\ jobs[j].state \in {"running", "waiting"}
      BY <1>1 DEF Agent!TimesOut, Agent!Overruns, Agent!AsksReview, Agent!Completes, Agent!Cancels, Agent!UsesTool,
           Agent!Runs, Agent!Executes, Agent!Calls, Agent!Callable, Agent!IsActive, Agent!Active
    <2>10. t \in Nat
      BY DEF Agent!Times
    <2>11. jobs[j] \in JobRecords /\ Spends(jobs[j], FALSE, "none", approved[j], replaced[j])
      BY <2>1, IdleSpends
    <2>2. jobs[j] \in JobRecords /\ Spends(jobs[j], FALSE, "none", approved[j], replaced[j]) /\ t \in Nat
      BY <2>10, <2>11
    <2>3. /\ approved[j] \in Nat /\ replaced[j] \in Nat
      BY <2>1, IdleSpends
    <2>4. CASE Agent!TimesOut(j, t)
      <3> DEFINE job == [jobs[j] EXCEPT !.state = "timed_out", !.last = t]
      <3>1. job \in JobRecords /\ Spends(job, FALSE, "none", approved[j], replaced[j])
        BY <2>1, <2>2, <2>3 DEF JobRecords, Spends, Agent!States
      <3>2. jobs' = [jobs EXCEPT ![j] = job]
        BY <2>4 DEF Agent!TimesOut, AgentInv, AgentType
      <3> HIDE DEF job
      <3> QED BY <2>1, <3>1, <3>2, OneJobChanges
    <2>5. CASE Agent!Overruns(j, t)
      <3> DEFINE job == [jobs[j] EXCEPT !.last = t]
      <3>1. job \in JobRecords /\ Spends(job, FALSE, "none", approved[j], replaced[j])
        BY <2>1, <2>2, <2>3 DEF JobRecords, Spends, Agent!States
      <3>2. jobs' = [jobs EXCEPT ![j] = job]
        BY <2>5 DEF Agent!Overruns, AgentInv, AgentType
      <3> HIDE DEF job
      <3> QED BY <2>1, <3>1, <3>2, OneJobChanges
    <2>6. CASE Agent!AsksReview(j, t)
      <3> DEFINE job == [jobs[j] EXCEPT !.last = t, !.state = "waiting"]
      <3>0. ~jobs[j].granted
        BY <2>6 DEF Agent!AsksReview
      <3>1. job \in JobRecords /\ Spends(job, FALSE, "none", approved[j], replaced[j])
        BY <2>1, <2>2, <2>3, <3>0 DEF JobRecords, Spends, Agent!States, Agent!Active
      <3>2. jobs' = [jobs EXCEPT ![j] = job]
        BY <2>6 DEF Agent!AsksReview, AgentInv, AgentType
      <3> HIDE DEF job
      <3> QED BY <2>1, <3>1, <3>2, OneJobChanges
    <2>7. CASE Agent!Completes(j, t)
      <3> DEFINE job == [jobs[j] EXCEPT !.last = t,
                            !.state = IF jobs[j].failures = 0 THEN "succeeded" ELSE "failed"]
      <3>0. jobs[j].calls > 0
        BY <2>7 DEF Agent!Completes
      <3>3. job \in JobRecords
        BY <2>2 DEF JobRecords, Agent!States
      <3>4. /\ job.state = (IF jobs[j].failures = 0 THEN "succeeded" ELSE "failed")
            /\ job.granted = jobs[j].granted /\ job.calls = jobs[j].calls /\ job.failures = jobs[j].failures
            /\ job.patches = jobs[j].patches /\ job.claims = jobs[j].claims
        BY <2>2 DEF JobRecords
      <3>1. job \in JobRecords /\ Spends(job, FALSE, "none", approved[j], replaced[j])
        <4> HIDE DEF job
        <4> QED BY <2>2, <2>3, <3>0, <3>3, <3>4 DEF JobRecords, Spends
      <3>2. jobs' = [jobs EXCEPT ![j] = job]
        BY <2>7 DEF Agent!Completes, AgentInv, AgentType
      <3> HIDE DEF job
      <3> QED BY <2>1, <3>1, <3>2, OneJobChanges
    <2>8. CASE Agent!Cancels(j, t)
      <3> DEFINE job == [jobs[j] EXCEPT !.last = t, !.state = "cancelled"]
      <3>1. job \in JobRecords /\ Spends(job, FALSE, "none", approved[j], replaced[j])
        BY <2>1, <2>2, <2>3 DEF JobRecords, Spends, Agent!States
      <3>2. jobs' = [jobs EXCEPT ![j] = job]
        BY <2>8 DEF Agent!Cancels, AgentInv, AgentType
      <3> HIDE DEF job
      <3> QED BY <2>1, <3>1, <3>2, OneJobChanges
    <2>9. ASSUME NEW succeeds \in BOOLEAN, Agent!UsesTool(j, t, succeeds) PROVE AgentInv'
      <3> DEFINE calls == jobs[j].calls + 1
                 failures == jobs[j].failures + (IF succeeds THEN 0 ELSE 1)
                 job == [jobs[j] EXCEPT !.last = t, !.calls = calls, !.failures = failures]
      <3>0. jobs[j].state = "running"
        BY <2>9 DEF Agent!UsesTool, Agent!Executes, Agent!Runs
      <3>1. calls \in Nat /\ failures \in Nat /\ calls > 0 /\ failures >= jobs[j].failures
        BY <2>2 DEF JobRecords
      <3>4. job \in JobRecords /\ job.state = "running" /\ job.granted = jobs[j].granted
            /\ job.calls = calls /\ job.patches = jobs[j].patches /\ job.claims = jobs[j].claims
            /\ job.failures = failures
        <4> HIDE DEF calls, failures
        <4> QED BY <2>2, <2>10, <3>0, <3>1 DEF JobRecords
      <3>2. jobs' = [jobs EXCEPT ![j] = job]
        BY <2>9 DEF Agent!UsesTool, AgentInv, AgentType
      <3> HIDE DEF job, calls, failures
      <3>3. Spends(job, FALSE, "none", approved[j], replaced[j])
        BY <2>2, <2>3, <3>0, <3>1, <3>4 DEF Spends, JobRecords
      <3> QED BY <2>1, <3>4, <3>2, <3>3, OneJobChanges
    <2> QED BY <1>1, <2>4, <2>5, <2>6, <2>7, <2>8, <2>9
  <1>2. ASSUME NEW j \in Agent!Jobs, NEW t \in Agent!Times, Agent!Refuses(j, t) PROVE AgentInv'
    <2>1. Agent!Idle /\ UNCHANGED <<patch, replaced, approved>> /\ jobs' = Agent!Sweep(t)
      BY <1>2 DEF Agent!Refuses
    <2> QED BY <2>1, SweepKeeps, JobChanges DEF AgentInv, AgentType
  <1>3. ASSUME NEW j \in Agent!Jobs, NEW t \in Agent!Times, NEW mayPatch \in BOOLEAN, Agent!Creates(j, t, mayPatch)
        PROVE  AgentInv'
    <2> DEFINE job == [Agent!NoJob EXCEPT !.state = "running", !.started = t, !.last = t, !.mayPatch = mayPatch]
    <2>1. /\ Agent!Idle /\ UNCHANGED <<patch, replaced, approved>> /\ jobs[j].state = "none"
          /\ jobs' = [Agent!Sweep(t) EXCEPT ![j] = job]
      BY <1>3 DEF Agent!Creates
    <2>5. t \in Nat
      BY DEF Agent!Times
    <2>6. /\ job \in JobRecords /\ job.state = "running" /\ job.granted = FALSE
          /\ job.calls = 0 /\ job.patches = 0 /\ job.claims = 0 /\ job.failures = 0
      BY <2>5 DEF JobRecords, Agent!NoJob, Agent!States, Agent!Active
    <2>2. job \in JobRecords /\ Spends(job, FALSE, "none", 0, 0)
      BY <2>6 DEF Spends
    <2>3. approved[j] = 0 /\ replaced[j] = 0
      BY <2>1, IdleSpends DEF Spends
    <2> HIDE DEF job
    <2>4. /\ jobs' \in [Agent!Jobs -> JobRecords]
          /\ \A k \in Agent!Jobs : Spends(jobs'[k], FALSE, "none", approved[k], replaced[k])
      BY <2>1, <2>2, <2>3, SweepKeeps
    <2> QED BY <2>1, <2>4, JobChanges DEF AgentInv, AgentType
  <1>4. ASSUME NEW j \in Agent!Jobs, NEW t \in Agent!Times, Agent!Approves(j, t) PROVE AgentInv'
    <2>1. /\ Agent!Idle /\ UNCHANGED <<patch, replaced>> /\ jobs[j].state = "waiting"
          /\ approved' = [approved EXCEPT ![j] = approved[j] + 1]
      BY <1>4 DEF Agent!Approves, Agent!Calls, Agent!Callable
    <2>2. /\ jobs[j] \in JobRecords /\ Spends(jobs[j], FALSE, "none", approved[j], replaced[j])
          /\ approved[j] \in Nat /\ replaced[j] \in Nat
      BY <2>1, IdleSpends
    <2>3. t \in Nat
      BY DEF Agent!Times
    <2> DEFINE job == [jobs[j] EXCEPT !.state = "running", !.granted = TRUE, !.last = t]
    <2>4. /\ job \in JobRecords /\ job.state = "running" /\ job.granted = TRUE
          /\ job.calls = jobs[j].calls /\ job.patches = jobs[j].patches /\ job.claims = jobs[j].claims
          /\ job.failures = jobs[j].failures
      BY <2>2, <2>3 DEF JobRecords, Agent!States, Agent!Active
    <2>5. jobs' = [jobs EXCEPT ![j] = job]
      BY <1>4 DEF Agent!Approves, AgentInv, AgentType
    <2> HIDE DEF job
    <2>6. Spends(job, FALSE, "none", approved[j] + 1, replaced[j])
      BY <2>1, <2>2, <2>4 DEF Spends, JobRecords
    <2>7. jobs' \in [Agent!Jobs -> JobRecords] /\ approved' \in [Agent!Jobs -> Nat]
      BY <2>1, <2>2, <2>4, <2>5 DEF AgentInv, AgentType
    <2>8. ASSUME NEW k \in Agent!Jobs PROVE Spends(jobs'[k], FALSE, "none", approved'[k], replaced[k])
      <3>1. CASE k = j
        BY <2>1, <2>5, <2>6, <3>1 DEF AgentInv, AgentType
      <3>2. CASE k /= j
        <4>1. jobs'[k] = jobs[k] /\ approved'[k] = approved[k]
          BY <2>1, <2>5, <3>2 DEF AgentInv, AgentType
        <4> QED BY <2>1, <4>1, IdleSpends
      <3> QED BY <3>1, <3>2
    <2> QED BY <2>1, <2>7, <2>8, JobChanges
  <1>5. ASSUME NEW j \in Agent!Jobs, NEW t \in Agent!Times, NEW after \in Texts, Agent!BeginsPatch(j, t, after)
        PROVE  AgentInv'
    <2>1. /\ Agent!Idle /\ UNCHANGED <<approved, replaced>> /\ jobs[j].state = "running" /\ jobs[j].granted
          /\ patch' = [job |-> j, at |-> "compare", time |-> t, after |-> after]
      BY <1>5 DEF Agent!BeginsPatch, Agent!Executes, Agent!Runs, Agent!Calls, Agent!Callable
    <2>2. /\ jobs[j] \in JobRecords /\ Spends(jobs[j], FALSE, "none", approved[j], replaced[j])
          /\ approved[j] \in Nat /\ replaced[j] \in Nat
      BY <2>1, IdleSpends
    <2>3. t \in Nat
      BY DEF Agent!Times
    <2> DEFINE job == [jobs[j] EXCEPT !.last = t, !.granted = FALSE]
    <2>4. /\ job \in JobRecords /\ job.state = "running" /\ job.granted = FALSE
          /\ job.calls = jobs[j].calls /\ job.patches = jobs[j].patches /\ job.claims = jobs[j].claims
          /\ job.failures = jobs[j].failures
      BY <2>1, <2>2, <2>3 DEF JobRecords
    <2>5. jobs' = [jobs EXCEPT ![j] = job]
      BY <1>5 DEF Agent!BeginsPatch, Agent!GrantAfter, AgentInv, AgentType
    <2> HIDE DEF job
    <2>6. Spends(job, TRUE, "compare", approved[j], replaced[j])
      BY <2>1, <2>2, <2>4 DEF Spends, JobRecords
    <2>7. patch' \in PatchRecords /\ patch'.job = j /\ patch'.at = "compare" /\ j /= 0
      BY <2>1, <2>3 DEF PatchRecords, Agent!Jobs
    <2>8. AgentType'
      BY <2>1, <2>4, <2>5, <2>7 DEF AgentInv, AgentType
    <2>9. ASSUME NEW k \in Agent!Jobs
          PROVE  Spends(jobs'[k], patch'.job = k, patch'.at, approved'[k], replaced'[k])
      <3>1. CASE k = j
        BY <2>1, <2>5, <2>6, <2>7, <3>1 DEF AgentInv, AgentType
      <3>2. CASE k /= j
        <4>1. jobs'[k] = jobs[k] /\ approved'[k] = approved[k] /\ replaced'[k] = replaced[k]
          BY <2>1, <2>5, <3>2 DEF AgentInv, AgentType
        <4>2. Spends(jobs[k], FALSE, "compare", approved[k], replaced[k])
          BY <2>1, IdleSpends DEF Spends
        <4> QED BY <2>7, <3>2, <4>1, <4>2 DEF Spends
      <3> QED BY <3>1, <3>2
    <2> QED BY <2>7, <2>8, <2>9 DEF AgentInv
  <1>6. ASSUME patch.at /= "none" PROVE patch.job \in Agent!Jobs /\ patch \in PatchRecords
    BY <1>6 DEF AgentInv, AgentType, PatchRecords
  <1>7. CASE Agent!Compares \/ Agent!Replaces
    <2>1. patch.at /= "none" /\ UNCHANGED <<jobs, approved>>
      BY <1>7 DEF Agent!Compares, Agent!Replaces
    <2>2. PICK at \in {"replace", "verify", "failed"} :
            /\ patch' = [patch EXCEPT !.at = at]
            /\ \/ patch.at \in {"compare", "replace"} /\ at \in {"replace", "failed"} /\ replaced' = replaced
               \/ /\ patch.at = "replace" /\ at = "verify"
                  /\ replaced' = [replaced EXCEPT ![patch.job] = @ + 1]
      BY <1>7 DEF Agent!Compares, Agent!Replaces
    <2>3. patch' \in PatchRecords /\ patch'.job = patch.job /\ patch'.at = at
      BY <1>6, <2>1, <2>2 DEF PatchRecords
    <2>4. AgentType'
      BY <1>6, <2>1, <2>2, <2>3 DEF AgentInv, AgentType
    <2>5. ASSUME NEW k \in Agent!Jobs
          PROVE  Spends(jobs[k], patch.job = k, at, approved[k], replaced'[k])
      <3>1. /\ jobs[k] \in JobRecords /\ approved[k] \in Nat /\ replaced[k] \in Nat
            /\ Spends(jobs[k], patch.job = k, patch.at, approved[k], replaced[k])
        BY DEF AgentInv, AgentType
      <3>2. replaced'[k] = replaced[k] + (IF patch.job = k /\ at = "verify" THEN 1 ELSE 0)
        BY <1>6, <2>1, <2>2, <3>1 DEF AgentInv, AgentType
      <3> QED BY <2>2, <3>1, <3>2 DEF Spends, JobRecords
    <2> QED BY <1>6, <2>1, <2>3, <2>4, <2>5 DEF AgentInv, Agent!Jobs
  <1>8. CASE Agent!EndsPatch
    <2> DEFINE j == patch.job
               verified == patch.at = "verify" /\ file = patch.after
               calls == jobs[j].calls + 1
               patches == jobs[j].patches + 1
               claims == jobs[j].claims + (IF verified THEN 1 ELSE 0)
               failures == jobs[j].failures + (IF verified THEN 0 ELSE 1)
               job == [jobs[j] EXCEPT !.calls = calls, !.patches = patches, !.claims = claims,
                                      !.failures = failures]
    <2>1. /\ patch.at \in {"verify", "failed"} /\ UNCHANGED <<approved, replaced>> /\ patch' = Agent!NoPatch
          /\ j \in Agent!Jobs
      BY <1>6, <1>8 DEF Agent!EndsPatch
    <2>2. jobs' = [jobs EXCEPT ![j] = job]
      BY <1>8, <2>1 DEF Agent!EndsPatch, AgentInv, AgentType
    <2>3. /\ jobs[j] \in JobRecords /\ approved[j] \in Nat /\ replaced[j] \in Nat
          /\ Spends(jobs[j], TRUE, patch.at, approved[j], replaced[j])
      BY <2>1 DEF AgentInv, AgentType
    <2> HIDE DEF j
    <2>9. calls \in Nat /\ patches \in Nat /\ claims \in Nat /\ failures \in Nat
      BY <2>3 DEF JobRecords
    <2>10. /\ job \in JobRecords /\ job.state = jobs[j].state /\ job.granted = jobs[j].granted
           /\ job.calls = calls /\ job.patches = patches /\ job.claims = claims /\ job.failures = failures
      <3> HIDE DEF calls, patches, claims, failures
      <3> QED BY <2>3, <2>9 DEF JobRecords
    <2>5. patch' \in PatchRecords /\ patch'.at = "none" /\ patch'.job = 0
      BY <2>1 DEF PatchRecords, Agent!NoPatch, Agent!AgentRuntimeConstants
    <2> HIDE DEF job
    <2>4. job \in JobRecords /\ Spends(job, FALSE, "none", approved[j], replaced[j])
      BY <2>1, <2>3, <2>9, <2>10 DEF Spends, JobRecords
    <2>6. AgentType'
      BY <2>1, <2>2, <2>4, <2>5 DEF AgentInv, AgentType
    <2>7. ASSUME NEW k \in Agent!Jobs
          PROVE  Spends(jobs'[k], FALSE, "none", approved[k], replaced[k])
      <3>1. CASE k = j
        BY <2>2, <2>4, <3>1 DEF AgentInv, AgentType
      <3>2. CASE k /= j
        <4>1. Spends(jobs[k], FALSE, patch.at, approved[k], replaced[k]) /\ jobs'[k] = jobs[k]
          BY <2>2, <3>2 DEF j, AgentInv, AgentType
        <4> QED BY <4>1 DEF Spends
      <3> QED BY <3>1, <3>2
    <2>8. \A k \in Agent!Jobs : patch'.job /= k
      BY <2>5 DEF Agent!Jobs
    <2> QED BY <2>1, <2>5, <2>6, <2>7, <2>8 DEF AgentInv
  <1>9. CASE Agent!Edits
    BY <1>9 DEF Agent!Edits, AgentInv, AgentType
  <1> QED BY <1>1, <1>2, <1>3, <1>4, <1>5, <1>7, <1>8, <1>9 DEF Agent!Next

LEMMA AgentImplies ==
    ASSUME AgentInv PROVE PatchesAreReviewed
  <1> SUFFICES ASSUME NEW j \in Agent!Jobs
               PROVE LET tried == jobs[j].patches + (IF patch.job = j THEN 1 ELSE 0)
                     IN /\ approved[j] = tried + (IF jobs[j].granted THEN 1 ELSE 0)
                        /\ replaced[j] <= tried /\ jobs[j].claims <= replaced[j]
                        /\ jobs[j].state = "succeeded" =>
                              jobs[j].calls > 0 /\ jobs[j].claims = approved[j] - (IF jobs[j].granted THEN 1 ELSE 0)
    BY DEF PatchesAreReviewed, Agent!PatchesAreReviewed
  <1>1. /\ jobs[j].patches \in Nat /\ jobs[j].claims \in Nat /\ approved[j] \in Nat /\ replaced[j] \in Nat
        /\ Spends(jobs[j], patch.job = j, patch.at, approved[j], replaced[j])
    BY DEF AgentInv, AgentType, JobRecords
  <1> QED BY <1>1 DEF Spends

LEMMA AgentPart ==
    ASSUME [Next]_<<pairing, control, build, download, agent, history, trace, part>>
    PROVE  Agent!Next \/ UNCHANGED agent
  BY DEF Next

(* Every approval is one patch that was tried or is still to be used, a job    *)
(* claims no patch it did not make, and one that succeeded made all it tried.  *)
THEOREM PatchesCorrect == Spec => []PatchesAreReviewed
  <1>1. Init => AgentInv
    BY AgentInit, AgentAssumption DEF Init
  <1>2. AgentInv /\ [Next]_<<pairing, control, build, download, agent, history, trace, part>> => AgentInv'
    <2>1. CASE UNCHANGED agent
      BY <2>1 DEF AgentInv, AgentType, agent
    <2> QED BY <2>1, AgentPart, AgentStep, AgentAssumption
  <1>3. AgentInv => PatchesAreReviewed
    BY AgentImplies
  <1> QED BY <1>1, <1>2, <1>3, PTL DEF Spec

-----------------------------------------------------------------------------
(* The trace of a session.                                                     *)

AllThreads == {"capture", "encoder", "agent", "input", "reader", "compositor", "errors", "watchdog"}
Phases == {"running", "producers", "watchdog", "closed", "writer", "over"}
Watches == [stage : 0 .. 5, frame : Nat, since : Nat, stalled : BOOLEAN, hard : BOOLEAN]
TraceType ==
    /\ host \in {"mac", "windows"} /\ reached \in [1 .. 5 -> Nat]
    /\ formed \in Nat /\ queue \in Nat /\ counted \in Nat /\ timer \in Nat
    /\ holding \subseteq Trace!Threads
    /\ closed \in BOOLEAN /\ invalid \in BOOLEAN /\ writer \in {"checks", "pops", "writes", "ended"}
    /\ watch \in Watches /\ ending \in Phases

(* An event that was recorded is with its thread, in the queue, with the       *)
(* writer, or counted.                                                         *)
Balanced ==
    invalid \/ formed = counted + queue + (IF writer = "writes" THEN 1 ELSE 0) + Cardinality(holding)
(* What has ended records no more.                                             *)
Joins ==
    /\ closed <=> ending \in {"closed", "writer", "over"}
    /\ ending \in {"watchdog", "closed", "writer", "over"} =>
          holding \cap (Trace!Producers \ Trace!Outlives) = {}
    /\ closed => holding \subseteq Trace!Outlives
    /\ writer = "ended" => invalid \/ (closed /\ queue = 0)
    /\ ending = "over" => writer = "ended"
TraceInv == TraceType /\ Balanced /\ Joins /\ Trace!RecoveryFollowsStall

LEMMA TraceCardinality == \A S : Trace!Cardinality(S) = Cardinality(S)
  BY DEF Trace!Cardinality, Cardinality

LEMMA ThreadFacts ==
    ASSUME TraceType
    PROVE  /\ Trace!Threads \subseteq AllThreads /\ IsFiniteSet(holding) /\ Cardinality(holding) \in Nat
           /\ "watchdog" \in Trace!Threads /\ "watchdog" \notin Trace!Producers
           /\ "watchdog" \notin Trace!Outlives
           /\ Trace!Threads = Trace!Producers \cup {"watchdog"}
  <1>1. Trace!Threads \subseteq AllThreads
    BY DEF Trace!Threads, Trace!Producers, AllThreads, TraceType
  <1>2. IsFiniteSet(AllThreads)
    <2>1. IsFiniteSet({"capture", "encoder", "agent", "input"}) /\ IsFiniteSet({"reader", "compositor", "errors", "watchdog"})
      <3>1. IsFiniteSet({}) /\ IsFiniteSet({"capture"}) /\ IsFiniteSet({"capture"} \cup {"encoder"})
        BY FS_EmptySet, FS_Singleton, FS_Union
      <3>2. IsFiniteSet({"agent"} \cup {"input"}) /\ IsFiniteSet({"reader"} \cup {"compositor"})
            /\ IsFiniteSet({"errors"} \cup {"watchdog"})
        BY FS_Singleton, FS_Union
      <3>3. /\ IsFiniteSet(({"capture"} \cup {"encoder"}) \cup ({"agent"} \cup {"input"}))
            /\ IsFiniteSet(({"reader"} \cup {"compositor"}) \cup ({"errors"} \cup {"watchdog"}))
        BY <3>1, <3>2, FS_Union
      <3>4. /\ {"capture", "encoder", "agent", "input"} = ({"capture"} \cup {"encoder"}) \cup ({"agent"} \cup {"input"})
            /\ {"reader", "compositor", "errors", "watchdog"} = ({"reader"} \cup {"compositor"}) \cup ({"errors"} \cup {"watchdog"})
        OBVIOUS
      <3> QED BY <3>3, <3>4
    <2>2. AllThreads = {"capture", "encoder", "agent", "input"} \cup {"reader", "compositor", "errors", "watchdog"}
      BY DEF AllThreads
    <2> QED BY <2>1, <2>2, FS_Union
  <1>3. IsFiniteSet(holding)
    BY <1>1, <1>2, FS_Subset DEF TraceType
  <1> QED BY <1>1, <1>3, FS_CardinalityType
       DEF TraceType, Trace!Threads, Trace!Producers, Trace!Outlives

LEMMA TraceInit == Trace!VisualTraceConstants /\ Trace!Init => TraceInv
  <1> SUFFICES ASSUME Trace!Init PROVE TraceInv
    OBVIOUS
  <1>1. TraceType
    <2>1. watch \in Watches
      BY DEF Trace!Init, Watches, Trace!Asleep
    <2>2. reached \in [1 .. 5 -> Nat]
      BY DEF Trace!Init
    <2>3. holding \subseteq Trace!Threads
      BY DEF Trace!Init
    <2> QED BY <2>1, <2>2, <2>3 DEF Trace!Init, TraceType, Phases
  <1>2. /\ formed = 0 /\ counted = 0 /\ queue = 0 /\ writer = "checks" /\ holding = {} /\ closed = FALSE
        /\ ending = "running" /\ ~watch.stalled
    BY DEF Trace!Init, Trace!Asleep
  <1>3. Cardinality(holding) = 0
    BY <1>2, FS_EmptySet
  <1>4. Balanced
    BY <1>2, <1>3 DEF Balanced
  <1>5. Joins
    BY <1>2 DEF Joins
  <1> QED BY <1>1, <1>2, <1>4, <1>5 DEF TraceInv, Trace!RecoveryFollowsStall

(* A thread records an event and holds it.                                     *)
LEMMA FormKeeps ==
    ASSUME TraceInv, NEW thread \in Trace!Threads, Trace!Forms(thread), Trace!Runs(thread),
           TraceType', UNCHANGED <<host, queue, counted, closed, writer, invalid, ending>>,
           Trace!RecoveryFollowsStall'
    PROVE  TraceInv'
  <1>1. formed' = formed + 1 /\ holding' = holding \cup {thread} /\ thread \notin holding
    BY DEF Trace!Forms
  <1>2. Cardinality(holding') = Cardinality(holding) + 1
    <2>1. IsFiniteSet(holding)
      BY ThreadFacts DEF TraceInv
    <2> QED BY <1>1, <2>1, FS_AddElement
  <1>3. Balanced'
    BY <1>1, <1>2, ThreadFacts DEF TraceInv, Balanced, TraceType
  <1>4. Joins'
    <2>1. closed => ending /= "running" /\ ending /= "producers"
      BY DEF TraceInv, Joins
    <2>2. Trace!Producers' = Trace!Producers /\ Trace!Outlives' = Trace!Outlives
      BY DEF Trace!Producers, Trace!Outlives
    <2>3. closed => thread \in Trace!Outlives
      BY <2>1 DEF Trace!Runs, Trace!At
    <2>4. ending \in {"watchdog", "closed", "writer", "over"} => thread \in Trace!Outlives
      BY DEF Trace!Runs, Trace!At
    <2> QED BY <1>1, <2>2, <2>3, <2>4 DEF TraceInv, Joins
  <1> QED BY <1>3, <1>4 DEF TraceInv

(* The thread hands the event on: into the queue, or to the count.             *)
LEMMA PushKeeps ==
    ASSUME TraceInv, NEW thread \in Trace!Threads, Trace!Pushes(thread) PROVE TraceInv'
  <1>1. /\ thread \in holding /\ holding' = holding \ {thread}
        /\ UNCHANGED <<host, reached, formed, closed, writer, live, watch, timer, reported, ending>>
    BY DEF Trace!Pushes
  <1>2. \/ ~closed /\ queue' = queue + 1 /\ counted' = counted /\ invalid' = invalid
        \/ counted' = counted + 1 /\ queue' = queue /\ invalid' \in BOOLEAN /\ (invalid => invalid')
    BY DEF Trace!Pushes, Trace!Refuses, TraceInv, TraceType
  <1>3. Cardinality(holding') = Cardinality(holding) - 1
    <2>1. IsFiniteSet(holding)
      BY ThreadFacts DEF TraceInv
    <2> QED BY <1>1, <2>1, FS_RemoveElement
  <1>4. TraceType'
    BY <1>1, <1>2 DEF TraceInv, TraceType, Trace!Threads, Trace!Producers
  <1>5. Balanced'
    BY <1>1, <1>2, <1>3, ThreadFacts DEF TraceInv, Balanced, TraceType
  <1>6. Joins'
    BY <1>1, <1>2 DEF TraceInv, Joins, Trace!Producers, Trace!Outlives
  <1> QED BY <1>1, <1>4, <1>5, <1>6 DEF TraceInv, Trace!RecoveryFollowsStall

LEMMA WriterKeeps ==
    ASSUME TraceInv, Trace!WriterChecks \/ Trace!WriterPops \/ Trace!WriterWrites PROVE TraceInv'
  <1>1. UNCHANGED <<host, reached, formed, holding, closed, live, watch, timer, reported, ending>>
    BY DEF Trace!WriterChecks, Trace!WriterPops, Trace!WriterWrites, Trace!WriterKeeps
  <1>2. /\ Trace!Threads' = Trace!Threads /\ Trace!Producers' = Trace!Producers /\ Trace!Outlives' = Trace!Outlives
        /\ Trace!RecoveryFollowsStall'
    BY <1>1 DEF Trace!Threads, Trace!Producers, Trace!Outlives, TraceInv, Trace!RecoveryFollowsStall
  <1>3. CASE Trace!WriterChecks
    <2>1. /\ writer = "checks" /\ UNCHANGED <<queue, counted, invalid>>
          /\ writer' = "pops" \/ (writer' = "ended" /\ ending \in {"writer", "over"} /\ ~(queue > 0))
      BY <1>3 DEF Trace!WriterChecks, Trace!StopRequested
    <2> QED BY <1>1, <1>2, <2>1 DEF TraceInv, TraceType, Balanced, Joins
  <1>4. CASE Trace!WriterPops
    <2>1. /\ writer = "pops" /\ UNCHANGED <<counted, invalid>>
          /\ \/ queue > 0 /\ queue' = queue - 1 /\ writer' = "writes"
             \/ queue' = queue /\ writer' = "checks"
      BY <1>4 DEF Trace!WriterPops
    <2>2. TraceType'
      BY <1>1, <1>2, <2>1 DEF TraceInv, TraceType
    <2>3. Balanced'
      BY <1>1, <2>1, ThreadFacts DEF TraceInv, TraceType, Balanced
    <2> QED BY <1>1, <1>2, <2>1, <2>2, <2>3 DEF TraceInv, Joins
  <1>5. CASE Trace!WriterWrites
    <2>1. /\ writer = "writes" /\ queue' = queue
          /\ \/ counted' = counted + 1 /\ writer' = "checks" /\ invalid' = invalid
             \/ counted' = counted + 1 /\ writer' = "checks" /\ invalid' = TRUE
             \/ counted' = counted /\ writer' = "ended" /\ invalid' = TRUE
      BY <1>5 DEF Trace!WriterWrites
    <2>2. TraceType'
      <3>1. counted' \in Nat /\ queue' \in Nat /\ invalid' \in BOOLEAN /\ writer' \in {"checks", "ended"}
        <4>1. counted' \in Nat /\ queue' \in Nat
          BY <2>1 DEF TraceInv, TraceType
        <4>2. invalid' \in BOOLEAN
          BY <2>1 DEF TraceInv, TraceType
        <4> QED BY <2>1, <4>1, <4>2
      <3> QED BY <1>1, <1>2, <3>1 DEF TraceInv, TraceType
    <2>3. Balanced'
      BY <1>1, <2>1, ThreadFacts DEF TraceInv, TraceType, Balanced
    <2> QED BY <1>1, <1>2, <2>1, <2>2, <2>3 DEF TraceInv, Joins
  <1> QED BY <1>3, <1>4, <1>5

LEMMA GapFacts ==
    ASSUME TraceType, Trace!Behind /= {}
    PROVE  Trace!Gap \in 1 .. 5 /\ reached[Trace!Gap - 1] \in Nat
  <1>1. Trace!Behind \subseteq 2 .. 5
    BY DEF Trace!Behind, Trace!Stages
  <1>2. \E stage \in Trace!Behind : \A other \in Trace!Behind : stage <= other
    <2>1. PICK x \in Trace!Behind : TRUE
      OBVIOUS
    <2>2. x = 2 \/ x = 3 \/ x = 4 \/ x = 5
      BY <1>1, <2>1
    <2>3. CASE 2 \in Trace!Behind
      BY <1>1, <2>3
    <2>4. CASE 2 \notin Trace!Behind /\ 3 \in Trace!Behind
      BY <1>1, <2>4
    <2>5. CASE 2 \notin Trace!Behind /\ 3 \notin Trace!Behind /\ 4 \in Trace!Behind
      BY <1>1, <2>5
    <2>6. CASE 2 \notin Trace!Behind /\ 3 \notin Trace!Behind /\ 4 \notin Trace!Behind
      BY <1>1, <2>1, <2>2, <2>6
    <2> QED BY <2>3, <2>4, <2>5, <2>6
  <1>3. Trace!Gap \in Trace!Behind
    BY <1>2 DEF Trace!Gap
  <1> QED BY <1>1, <1>3 DEF TraceType

LEMMA WatchKeeps ==
    ASSUME TraceInv, Trace!Recovers \/ Trace!Observes \/ Trace!StallDetected \/ Trace!Forgets
    PROVE  TraceInv'
  <1>0. TraceType /\ watch \in Watches /\ "watchdog" \in Trace!Threads
        /\ UNCHANGED <<host, reached, queue, counted, closed, writer, invalid, live, timer, ending>>
    BY ThreadFacts DEF TraceInv, TraceType, Trace!Recovers, Trace!Observes, Trace!StallDetected, Trace!Forgets,
       Trace!WatchdogKeeps, Trace!trace
  <1>1. ASSUME watch' \in Watches, UNCHANGED <<formed, holding, reported>>, Trace!RecoveryFollowsStall'
        PROVE  TraceInv'
    <2>1. TraceType'
      BY <1>0, <1>1 DEF TraceType, Trace!Threads, Trace!Producers
    <2> QED BY <1>0, <1>1, <2>1 DEF TraceInv, Balanced, Joins, Trace!Producers, Trace!Outlives
  <1>2. ASSUME watch' \in Watches, Trace!Forms("watchdog"), Trace!Runs("watchdog"), Trace!RecoveryFollowsStall'
        PROVE  TraceInv'
    <2>1. TraceType'
      BY <1>0, <1>2 DEF TraceType, Trace!Threads, Trace!Producers, Trace!Forms
    <2> QED BY <1>0, <1>2, <2>1, FormKeeps
  <1>3. Trace!Asleep \in Watches /\ ~Trace!Asleep.stalled
    BY DEF Trace!Asleep, Watches
  <1>4. CASE Trace!Recovers
    <2>1. watch' = Trace!Asleep /\ Trace!Runs("watchdog")
      BY <1>4 DEF Trace!Recovers, Trace!Polls
    <2>2. Trace!Forms("watchdog") \/ UNCHANGED <<formed, holding, reported>>
      BY <1>4 DEF Trace!Recovers, Trace!Reports
    <2> QED BY <1>1, <1>2, <1>3, <2>1, <2>2 DEF Trace!RecoveryFollowsStall
  <1>5. CASE Trace!Observes
    <2>1. watch' = Trace!Observed(Trace!Gap) /\ UNCHANGED <<formed, holding, reported>> /\ Trace!Behind /= {}
      BY <1>5 DEF Trace!Observes
    <2>2. watch' \in Watches /\ ~watch'.stalled
      BY <1>0, <2>1, GapFacts DEF Trace!Observed, Watches, TraceType
    <2> QED BY <1>1, <2>1, <2>2 DEF Trace!RecoveryFollowsStall
  <1>6. CASE Trace!StallDetected
    <2>1. CASE ~watch.stalled
      <3>1. /\ watch' = [watch EXCEPT !.stalled = TRUE] /\ Trace!Known /\ Trace!Runs("watchdog")
            /\ Trace!Reports("stalled", Trace!Gap, watch.frame)
        BY <1>6, <2>1 DEF Trace!StallDetected, Trace!Polls
      <3>2. watch' \in Watches /\ watch'.stage = watch.stage /\ watch'.frame = watch.frame
        BY <1>0, <3>1 DEF Watches
      <3>3. Trace!RecoveryFollowsStall'
        BY <3>1, <3>2 DEF Trace!RecoveryFollowsStall, Trace!Reports, Trace!Known
      <3> QED BY <1>2, <3>1, <3>2, <3>3 DEF Trace!Reports
    <2>2. CASE watch.stalled
      <3>1. /\ watch' = [watch EXCEPT !.hard = TRUE] /\ UNCHANGED <<formed, holding, reported>>
        BY <1>6, <2>2 DEF Trace!StallDetected
      <3>2. watch' \in Watches /\ watch'.stage = watch.stage /\ watch'.frame = watch.frame /\ watch'.stalled = watch.stalled
        BY <1>0, <3>1 DEF Watches
      <3> QED BY <1>1, <3>1, <3>2 DEF TraceInv, Trace!RecoveryFollowsStall
    <2> QED BY <1>0, <2>1, <2>2 DEF Watches
  <1>7. CASE Trace!Forgets
    BY <1>1, <1>3, <1>7 DEF Trace!Forgets, Trace!RecoveryFollowsStall
  <1> QED BY <1>4, <1>5, <1>6, <1>7

LEMMA EndingKeeps ==
    ASSUME TraceInv, Trace!Ending PROVE TraceInv'
  <1>1. /\ UNCHANGED <<host, reached, formed, holding, queue, counted, writer, invalid, live, watch, timer, reported>>
        /\ ending' \in Phases /\ closed' \in BOOLEAN
    BY DEF Trace!Ending, Trace!EndBegins, Trace!JoinProducers, Trace!JoinWatchdog, Trace!StopWriter,
       Trace!JoinWriter, Trace!Becomes, Phases, TraceInv, TraceType
  <1>2. TraceType' /\ Balanced' /\ Trace!RecoveryFollowsStall'
    BY <1>1 DEF TraceInv, TraceType, Balanced, Trace!RecoveryFollowsStall, Trace!Threads, Trace!Producers
  <1>3. /\ Trace!Producers' = Trace!Producers /\ Trace!Outlives' = Trace!Outlives
        /\ holding \subseteq Trace!Producers \cup {"watchdog"}
    BY <1>1, ThreadFacts DEF Trace!Producers, Trace!Outlives, TraceInv, TraceType
  <1>4. SUFFICES Joins'
    BY <1>2 DEF TraceInv
  <1> DEFINE Others == Trace!Producers \ Trace!Outlives
  <1>5. /\ closed <=> ending \in {"closed", "writer", "over"}
        /\ ending \in {"watchdog", "closed", "writer", "over"} => holding \cap Others = {}
        /\ closed => holding \subseteq Trace!Outlives
        /\ writer = "ended" => invalid \/ (closed /\ queue = 0)
    BY DEF TraceInv, Joins
  <1>6. ASSUME /\ closed' <=> ending' \in {"closed", "writer", "over"}
               /\ ending' \in {"watchdog", "closed", "writer", "over"} => holding \cap Others = {}
               /\ closed' => holding \subseteq Trace!Outlives
               /\ closed => closed'
               /\ ending' = "over" => writer = "ended"
        PROVE  Joins'
    BY <1>1, <1>3, <1>5, <1>6 DEF Joins
  <1>7. CASE Trace!EndBegins
    <2>1. ending = "running" /\ ending' = "producers" /\ closed' = closed
      BY <1>7 DEF Trace!EndBegins, Trace!Becomes, Trace!At
    <2> QED BY <1>5, <1>6, <2>1
  <1>8. CASE Trace!JoinProducers
    <2>1. ending = "producers" /\ ending' = "watchdog" /\ closed' = closed /\ Others \cap holding = {}
      BY <1>8 DEF Trace!JoinProducers, Trace!Becomes, Trace!At, Trace!Joined
    <2> QED BY <1>5, <1>6, <2>1
  <1>9. CASE Trace!JoinWatchdog
    <2>1. ending = "watchdog" /\ ending' = "closed" /\ closed' = TRUE /\ holding \subseteq Trace!Outlives
      BY <1>9 DEF Trace!JoinWatchdog, Trace!Becomes, Trace!At, Trace!Joined, TraceInv, TraceType
    <2> QED BY <1>5, <1>6, <2>1
  <1>10. CASE Trace!StopWriter
    <2>1. ending = "closed" /\ ending' = "writer" /\ closed' = closed
      BY <1>10 DEF Trace!StopWriter, Trace!Becomes, Trace!At
    <2> QED BY <1>5, <1>6, <2>1
  <1>11. CASE Trace!JoinWriter
    <2>1. ending = "writer" /\ ending' = "over" /\ closed' = closed /\ writer = "ended"
      BY <1>11 DEF Trace!JoinWriter, Trace!Becomes, Trace!At
    <2> QED BY <1>5, <1>6, <2>1
  <1> QED BY <1>7, <1>8, <1>9, <1>10, <1>11 DEF Trace!Ending

LEMMA TraceStep ==
    ASSUME TraceInv, Trace!Next PROVE TraceInv'
  <1>1. ASSUME NEW thread \in Trace!Threads, NEW stage \in Trace!Stages, Trace!Advances(thread, stage)
        PROVE  TraceInv'
    <2>1. /\ Trace!Forms(thread) /\ Trace!Runs(thread)
          /\ UNCHANGED <<host, queue, counted, closed, writer, invalid, live, watch, timer, reported, ending>>
      BY <1>1 DEF Trace!Advances, Trace!trace
    <2>2. reached' \in [1 .. 5 -> Nat]
      <3>1. PICK frame \in reached[stage] .. (IF stage = 1 THEN MaxFrame ELSE reached[stage - 1]) :
              reached' = [reached EXCEPT ![stage] = frame]
        BY <1>1 DEF Trace!Advances
      <3>2. stage \in 1 .. 5 /\ reached \in [1 .. 5 -> Nat] /\ reached[stage] \in Nat
        BY DEF Trace!Stages, TraceInv, TraceType
      <3>3. (IF stage = 1 THEN MaxFrame ELSE reached[stage - 1]) \in Nat
        <4>1. CASE stage = 1
          BY <4>1, TraceAssumption DEF Trace!VisualTraceConstants
        <4>2. CASE stage /= 1
          BY <3>2, <4>2
        <4> QED BY <4>1, <4>2
      <3>4. frame \in Nat
        BY <3>2, <3>3
      <3> QED BY <3>1, <3>2, <3>4
    <2>3. TraceType'
      BY <2>1, <2>2 DEF TraceInv, TraceType, Trace!Forms, Trace!Threads, Trace!Producers
    <2> QED BY <2>1, <2>3, FormKeeps DEF TraceInv, Trace!RecoveryFollowsStall
  <1>2. ASSUME NEW thread \in Trace!Threads, Trace!Notes(thread) PROVE TraceInv'
    <2>1. /\ Trace!Forms(thread) /\ Trace!Runs(thread)
          /\ UNCHANGED <<host, reached, queue, counted, closed, writer, invalid, live, watch, timer, reported, ending>>
      BY <1>2 DEF Trace!Notes, Trace!trace
    <2>2. TraceType'
      BY <2>1 DEF TraceInv, TraceType, Trace!Forms, Trace!Threads, Trace!Producers
    <2> QED BY <2>1, <2>2, FormKeeps DEF TraceInv, Trace!RecoveryFollowsStall
  <1>3. CASE Trace!LivenessChanges \/ Trace!TimePasses
    <2>1. /\ UNCHANGED <<host, reached, formed, holding, queue, counted, closed, writer, invalid, watch, reported, ending>>
          /\ timer' \in Nat
      BY <1>3 DEF Trace!LivenessChanges, Trace!TimePasses, Trace!trace, TraceInv, TraceType
    <2> QED BY <2>1 DEF TraceInv, TraceType, Balanced, Joins,
       Trace!RecoveryFollowsStall, Trace!Threads, Trace!Producers, Trace!Outlives
  <1> QED BY <1>1, <1>2, <1>3, PushKeeps, WriterKeeps, WatchKeeps, EndingKeeps DEF Trace!Next

LEMMA TraceImplies ==
    ASSUME TraceInv PROVE TraceIsSound
  <1>1. ASSUME ending = "over", ~invalid
        PROVE  formed = counted + Trace!Cardinality(holding \cap Trace!Outlives)
    <2>1. closed /\ writer = "ended" /\ queue = 0 /\ holding \subseteq Trace!Outlives
      BY <1>1 DEF TraceInv, Joins
    <2>2. holding \cap Trace!Outlives = holding
      BY <2>1
    <2>3. formed = counted + Cardinality(holding)
      BY <1>1, <2>1, ThreadFacts DEF TraceInv, Balanced, TraceType
    <2> QED BY <2>2, <2>3, TraceCardinality
  <1> QED BY <1>1 DEF TraceIsSound, Trace!TraceIsSound, Trace!EndedIsCounted, Trace!At, TraceInv

LEMMA TracePart ==
    ASSUME [Next]_<<pairing, control, build, download, agent, history, trace, part>>
    PROVE  Trace!Next \/ UNCHANGED trace
  BY DEF Next

(* When the writer was joined every event is written, counted or the trace is  *)
(* marked; and only what was reported as stalled is reported as recovered.     *)
THEOREM TraceCorrect == Spec => []TraceIsSound
  <1>1. Init => TraceInv
    BY TraceInit, TraceAssumption DEF Init
  <1>2. TraceInv /\ [Next]_<<pairing, control, build, download, agent, history, trace, part>> => TraceInv'
    <2>1. CASE UNCHANGED trace
      BY <2>1 DEF TraceInv, TraceType, Balanced, Joins, Trace!RecoveryFollowsStall, Trace!Threads,
         Trace!Producers, Trace!Outlives, trace
    <2> QED BY <2>1, TracePart, TraceStep
  <1>3. TraceInv => TraceIsSound
    BY TraceImplies
  <1> QED BY <1>1, <1>2, <1>3, PTL DEF Spec

-----------------------------------------------------------------------------
(* The revisions of a workspace: what diff_manifests finds.                    *)

(* A recursion over numbers has a result, whatever its steps do.               *)
Iterates(f, n, Y, start, step) ==
    f \in [0 .. n -> Y] /\ f[0] = start /\ \A i \in 1 .. n : f[i] = step[i][f[i - 1]]
LEMMA Recursion ==
    ASSUME NEW n \in Nat, NEW Y, NEW start \in Y, NEW step \in [1 .. n -> [Y -> Y]]
    PROVE  \E f : Iterates(f, n, Y, start, step)
  <1> DEFINE Made(f, k) == /\ f \in [0 .. k -> Y] /\ f[0] = start
                           /\ \A i \in 1 .. k : f[i] = step[i][f[i - 1]]
             Missing == {k \in 0 .. n : ~\E f : Made(f, k)}
  <1>1. ASSUME Missing /= {} PROVE FALSE
    <2>1. PICK k \in Missing : \A other \in Missing : k <= other
      <3>1. Missing \subseteq Nat
        OBVIOUS
      <3> HIDE DEF Missing
      <3> QED BY <1>1, <3>1, NatMin
    <2>2. k /= 0
      <3>1. Made([i \in {0} |-> start], 0)
        <4>1. 0 .. 0 = {0} /\ 1 .. 0 = {}
          OBVIOUS
        <4> QED BY <4>1
      <3> QED BY <2>1, <3>1
    <2>3. k \in 1 .. n /\ k - 1 \in 0 .. n /\ k - 1 \notin Missing
      BY <2>1, <2>2
    <2>4. PICK f : Made(f, k - 1)
      BY <2>3
    <2> DEFINE q == step[k][f[k - 1]]
               g == [i \in 0 .. k |-> IF i = k THEN q ELSE f[i]]
    <2>5. q \in Y
      <3>1. f[k - 1] \in Y
        BY <2>3, <2>4
      <3> QED BY <2>3, <3>1
    <2>6. Made(g, k)
      <3> HIDE DEF q
      <3>1. g \in [0 .. k -> Y]
        BY <2>3, <2>4, <2>5
      <3>2. g[0] = start
        BY <2>3, <2>4
      <3>3. \A i \in 0 .. k - 1 : g[i] = f[i]
        BY <2>3
      <3>4. \A i \in 1 .. k - 1 : g[i] = step[i][g[i - 1]]
        BY <2>3, <2>4, <3>3
      <3>5. g[k] = q /\ g[k - 1] = f[k - 1]
        BY <2>3
      <3>6. g[k] = step[k][g[k - 1]]
        BY <3>5 DEF q
      <3>7. \A i \in 1 .. k : i \in 1 .. k - 1 \/ i = k
        BY <2>3
      <3> HIDE DEF g
      <3> QED BY <3>1, <3>2, <3>4, <3>6, <3>7
    <2> QED BY <2>1, <2>6
  <1>2. \E f : Made(f, n)
    <2>1. n \in 0 .. n
      OBVIOUS
    <2>2. n \notin Missing
      BY <1>1
    <2> HIDE DEF Made
    <2> QED BY <2>1, <2>2
  <1> QED BY <1>2 DEF Iterates

LEMMA ManifestFacts ==
    ASSUME NEW m
    PROVE  m \in History!Manifests <=>
             DOMAIN m \subseteq 1 .. PathCount /\ m \in [DOMAIN m -> History!Entries]
  BY DEF History!Manifests, History!Paths

(* A change of the difference; which old entry it takes away, if any.          *)
Changes == [kind : {"create", "rename", "update", "metadata", "remove"}, path : Nat, previous : Nat]
Takes(change) == change.kind \in {"remove", "rename"}
Taken(change) == IF change.kind = "remove" THEN change.path ELSE change.previous
Admissible(change, newer, older) ==
    /\ change \in Changes
    /\ change.kind /= "remove" => change.path \in DOMAIN newer
    /\ Takes(change) => Taken(change) \in DOMAIN older \ DOMAIN newer

(* Nothing is taken away twice; every path up to one that differs is put; and  *)
(* of some paths that are gone, everything up to one is taken away.            *)
Legal(changes, newer, older) ==
    /\ changes \in Seq(Changes)
    /\ \A i \in DOMAIN changes : Admissible(changes[i], newer, older)
    /\ \A i, j \in DOMAIN changes :
         Takes(changes[i]) /\ Takes(changes[j]) /\ Taken(changes[i]) = Taken(changes[j]) => i = j
Placed(changes, newer, older, upto) ==
    \A path \in DOMAIN newer :
      path <= upto /\ (path \in DOMAIN older => newer[path] /= older[path]) =>
        \E i \in DOMAIN changes : changes[i].kind /= "remove" /\ changes[i].path = path
Cleared(changes, paths, upto) ==
    \A path \in paths :
      path <= upto => \E i \in DOMAIN changes : Takes(changes[i]) /\ Taken(changes[i]) = path

LEMMA AppendFacts ==
    ASSUME NEW c \in Seq(Changes), NEW x \in Changes
    PROVE  /\ Append(c, x) \in Seq(Changes) /\ Len(c) \in Nat /\ DOMAIN c = 1 .. Len(c)
           /\ DOMAIN Append(c, x) = 1 .. Len(c) + 1
           /\ \A i \in DOMAIN c : i \in DOMAIN Append(c, x) /\ Append(c, x)[i] = c[i]
           /\ \A i \in DOMAIN Append(c, x) : i \in DOMAIN c \/ i = Len(c) + 1
           /\ Len(c) + 1 \in DOMAIN Append(c, x) /\ Append(c, x)[Len(c) + 1] = x
  <1>1. /\ Append(c, x) \in Seq(Changes) /\ Len(Append(c, x)) = Len(c) + 1
        /\ \A i \in 1 .. Len(c) : Append(c, x)[i] = c[i]
        /\ Append(c, x)[Len(c) + 1] = x
    BY AppendProperties
  <1>2. Len(c) \in Nat /\ DOMAIN c = 1 .. Len(c) /\ DOMAIN Append(c, x) = 1 .. Len(c) + 1
    BY <1>1, LenProperties
  <1> QED BY <1>1, <1>2

LEMMA LegalGrows ==
    ASSUME NEW S, NEW D, NEW c, Legal(c, S, D), NEW x, Admissible(x, S, D),
           Takes(x) => \A i \in DOMAIN c : Takes(c[i]) => Taken(c[i]) /= Taken(x)
    PROVE  Legal(Append(c, x), S, D)
  <1> DEFINE d == Append(c, x)
             n == Len(c)
  <1>1. c \in Seq(Changes) /\ x \in Changes
    BY DEF Legal, Admissible
  <1>2. /\ d \in Seq(Changes)
        /\ \A i \in DOMAIN c : i \in DOMAIN d /\ d[i] = c[i]
        /\ \A i \in DOMAIN d : i \in DOMAIN c \/ i = n + 1
        /\ d[n + 1] = x
    BY <1>1, AppendFacts
  <1> HIDE DEF d, n
  <1>3. \A i \in DOMAIN d : Admissible(d[i], S, D)
    <2> SUFFICES ASSUME NEW i \in DOMAIN d PROVE Admissible(d[i], S, D)
      OBVIOUS
    <2>1. CASE i \in DOMAIN c
      BY <1>2, <2>1 DEF Legal
    <2>2. CASE i = n + 1
      BY <1>2, <2>2
    <2> QED BY <1>2, <2>1, <2>2
  <1>4. ASSUME NEW i \in DOMAIN d, NEW j \in DOMAIN d, Takes(d[i]), Takes(d[j]), Taken(d[i]) = Taken(d[j])
        PROVE  i = j
    <2>1. CASE i \in DOMAIN c /\ j \in DOMAIN c
      <3>1. d[i] = c[i] /\ d[j] = c[j]
        BY <1>2, <2>1
      <3>2. Takes(c[i]) /\ Takes(c[j]) /\ Taken(c[i]) = Taken(c[j])
        BY <1>4, <3>1, Zenon
      <3> QED BY <2>1, <3>2, Zenon DEF Legal
    <2>2. CASE i \in DOMAIN c /\ j = n + 1
      <3>1. d[i] = c[i] /\ d[j] = x
        BY <1>2, <2>2
      <3>2. Takes(x) /\ Takes(c[i]) /\ Taken(c[i]) = Taken(x)
        BY <1>4, <3>1, Zenon
      <3> QED BY <2>2, <3>2, Zenon
    <2>3. CASE j \in DOMAIN c /\ i = n + 1
      <3>1. d[j] = c[j] /\ d[i] = x
        BY <1>2, <2>3
      <3>2. Takes(x) /\ Takes(c[j]) /\ Taken(c[j]) = Taken(x)
        BY <1>4, <3>1, Zenon
      <3> QED BY <2>3, <3>2, Zenon
    <2> QED BY <1>2, <2>1, <2>2, <2>3
  <1>5. Legal(d, S, D)
    BY <1>2, <1>3, <1>4 DEF Legal
  <1> QED BY <1>5 DEF d

LEMMA FirstIsOne ==
    ASSUME NEW paths, paths \subseteq Nat, paths /= {} PROVE History!First(paths) \in paths
  <1>1. \E path \in paths : \A other \in paths : path <= other
    BY NatMin
  <1> QED BY <1>1 DEF History!First

(* A path that appears is created, or renamed from a path nobody took.         *)
LEMMA AppearsFacts ==
    ASSUME NEW S \in History!Manifests, NEW D \in History!Manifests, NEW p \in DOMAIN S, NEW c
    PROVE  LET x == History!Appears(S, D, p, c)
           IN  /\ Admissible(x, S, D) /\ x.kind /= "remove" /\ x.path = p
               /\ Takes(x) => Taken(x) \notin History!Consumed(c)
  <1> DEFINE x == History!Appears(S, D, p, c)
             candidates == History!Renamed(S, D, p, c)
  <1>1. candidates \subseteq DOMAIN D \ DOMAIN S /\ candidates \cap History!Consumed(c) = {}
    BY DEF History!Renamed, History!Moved
  <1>2. DOMAIN S \subseteq Nat /\ DOMAIN D \subseteq Nat
    BY ManifestFacts
  <1>3. CASE candidates = {}
    <2>1. x = History!Change("create", p, 0)
      BY <1>3 DEF History!Appears
    <2>2. x \in Changes /\ x.kind = "create" /\ x.path = p
      BY <1>2, <2>1 DEF History!Change, Changes
    <2> QED BY <2>2 DEF Admissible, Takes
  <1>4. CASE candidates /= {}
    <2>1. PICK q : q = History!First(candidates)
      OBVIOUS
    <2>2. q \in candidates
      <3>1. candidates \subseteq Nat
        BY <1>1, <1>2
      <3> QED BY <1>4, <2>1, <3>1, FirstIsOne
    <2>3. q \in DOMAIN D \ DOMAIN S /\ q \notin History!Consumed(c)
      BY <1>1, <2>2
    <2>4. x = History!Change("rename", p, q)
      BY <1>4, <2>1 DEF History!Appears
    <2>5. x \in Changes /\ x.kind = "rename" /\ x.path = p /\ x.previous = q
      BY <1>2, <2>3, <2>4 DEF History!Change, Changes
    <2> QED BY <2>3, <2>5 DEF Admissible, Takes, Taken
  <1> QED BY <1>3, <1>4

LEMMA AltersFacts ==
    ASSUME NEW S \in History!Manifests, NEW D, NEW p \in DOMAIN S
    PROVE  LET x == History!Alters(S, D, p)
           IN  Admissible(x, S, D) /\ ~Takes(x) /\ x.kind /= "remove" /\ x.path = p
  <1> DEFINE x == History!Alters(S, D, p)
  <1>1. p \in Nat
    BY ManifestFacts
  <1>2. x = History!Change("metadata", p, 0) \/ x = History!Change("update", p, 0)
    BY DEF History!Alters
  <1>3. x \in Changes /\ x.kind \in {"metadata", "update"} /\ x.path = p
    BY <1>1, <1>2 DEF History!Change, Changes
  <1> QED BY <1>3 DEF Admissible, Takes

(* What was found up to a path: no removals.                                   *)
FoundUpTo(c, S, D, upto) ==
    /\ Legal(c, S, D) /\ Placed(c, S, D, upto)
    /\ \A i \in DOMAIN c : c[i].kind /= "remove"

LEMMA FoundGrows ==
    ASSUME NEW S \in History!Manifests, NEW D, NEW p \in Nat \ {0}, NEW c, FoundUpTo(c, S, D, p - 1), NEW x,
           Admissible(x, S, D), x.kind /= "remove", x.path = p,
           Takes(x) => Taken(x) \notin History!Consumed(c)
    PROVE  FoundUpTo(Append(c, x), S, D, p)
  <1> DEFINE d == Append(c, x)
             n == Len(c)
  <1>1. c \in Seq(Changes) /\ x \in Changes
    BY DEF FoundUpTo, Legal, Admissible
  <1>2. /\ \A i \in DOMAIN c : i \in DOMAIN d /\ d[i] = c[i]
        /\ \A i \in DOMAIN d : i \in DOMAIN c \/ i = n + 1
        /\ n + 1 \in DOMAIN d /\ d[n + 1] = x
    BY <1>1, AppendFacts
  <1> HIDE DEF d, n
  <1>3. Legal(d, S, D)
    <2>1. ASSUME NEW i \in DOMAIN c, Takes(x), Takes(c[i]) PROVE Taken(c[i]) /= Taken(x)
      <3>1. c[i].kind = "rename"
        BY <2>1 DEF FoundUpTo, Takes
      <3>2. Taken(c[i]) = c[i].previous /\ c[i].previous \in History!Consumed(c)
        BY <3>1 DEF Taken, History!Consumed
      <3> QED BY <2>1, <3>2
    <2>2. Legal(Append(c, x), S, D)
      BY <2>1, LegalGrows DEF FoundUpTo
    <2> QED BY <2>2 DEF d
  <1>4. Placed(d, S, D, p)
    <2> SUFFICES ASSUME NEW q \in DOMAIN S, q <= p, q \in DOMAIN D => S[q] /= D[q]
                 PROVE  \E i \in DOMAIN d : d[i].kind /= "remove" /\ d[i].path = q
      BY DEF Placed
    <2>1. CASE q = p
      BY <1>2, <2>1
    <2>2. CASE q /= p
      <3>1. q <= p - 1
        <4>1. q \in Nat
          BY ManifestFacts
        <4> QED BY <2>2, <4>1
      <3>2. PICK i \in DOMAIN c : c[i].kind /= "remove" /\ c[i].path = q
        BY <3>1 DEF FoundUpTo, Placed
      <3> QED BY <1>2, <3>2
    <2> QED BY <2>1, <2>2
  <1>5. \A i \in DOMAIN d : d[i].kind /= "remove"
    BY <1>2 DEF FoundUpTo
  <1>6. FoundUpTo(d, S, D, p)
    BY <1>3, <1>4, <1>5 DEF FoundUpTo
  <1> QED BY <1>6 DEF d

LEMMA ComparesKeeps ==
    ASSUME NEW S \in History!Manifests, NEW D \in History!Manifests, NEW p \in 1 .. PathCount,
           NEW c, FoundUpTo(c, S, D, p - 1)
    PROVE  FoundUpTo(History!Compares(S, D, p, c), S, D, p)
  <1>0. p \in Nat \ {0}
    BY HistoryAssumption DEF History!WorkspaceHistoryConstants
  <1>1. ASSUME \A q \in DOMAIN S : q = p => q \in DOMAIN D /\ S[q] = D[q], History!Compares(S, D, p, c) = c
        PROVE  FoundUpTo(History!Compares(S, D, p, c), S, D, p)
    <2>1. Placed(c, S, D, p)
      <3> SUFFICES ASSUME NEW q \in DOMAIN S, q <= p, q \in DOMAIN D => S[q] /= D[q]
                   PROVE  \E i \in DOMAIN c : c[i].kind /= "remove" /\ c[i].path = q
        BY DEF Placed
      <3>1. q /= p /\ q \in Nat
        BY <1>1, ManifestFacts
      <3>2. q <= p - 1
        BY <1>0, <3>1
      <3> QED BY <3>2 DEF FoundUpTo, Placed
    <2> QED BY <1>1, <2>1 DEF FoundUpTo
  <1>2. CASE p \notin DOMAIN S
    <2>1. History!Compares(S, D, p, c) = c
      BY <1>2 DEF History!Compares
    <2> QED BY <1>1, <1>2, <2>1
  <1>3. CASE p \in DOMAIN S /\ p \notin DOMAIN D
    <2>1. PICK x : x = History!Appears(S, D, p, c)
      OBVIOUS
    <2>2. /\ Admissible(x, S, D) /\ x.kind /= "remove" /\ x.path = p
          /\ Takes(x) => Taken(x) \notin History!Consumed(c)
      BY <1>3, <2>1, AppearsFacts
    <2>3. History!Compares(S, D, p, c) = Append(c, x)
      BY <1>3, <2>1 DEF History!Compares
    <2>4. FoundUpTo(Append(c, x), S, D, p)
      BY <1>0, <2>2, FoundGrows
    <2> QED BY <2>3, <2>4
  <1>4. CASE p \in DOMAIN S /\ p \in DOMAIN D /\ S[p] /= D[p]
    <2>1. PICK x : x = History!Alters(S, D, p)
      OBVIOUS
    <2>2. Admissible(x, S, D) /\ ~Takes(x) /\ x.kind /= "remove" /\ x.path = p
      BY <1>4, <2>1, AltersFacts
    <2>3. History!Compares(S, D, p, c) = Append(c, x)
      BY <1>4, <2>1 DEF History!Compares
    <2>4. FoundUpTo(Append(c, x), S, D, p)
      BY <1>0, <2>2, FoundGrows
    <2> QED BY <2>3, <2>4
  <1>5. CASE p \in DOMAIN S /\ p \in DOMAIN D /\ S[p] = D[p]
    <2>1. History!Compares(S, D, p, c) = c
      BY <1>5 DEF History!Compares
    <2> QED BY <1>1, <1>5, <2>1
  <1> QED BY <1>2, <1>3, <1>4, <1>5

LEMMA ComparesType ==
    ASSUME NEW S \in History!Manifests, NEW D \in History!Manifests, NEW p \in 1 .. PathCount,
           NEW c \in Seq(Changes)
    PROVE  History!Compares(S, D, p, c) \in Seq(Changes)
  <1>1. ASSUME p \in DOMAIN S PROVE History!Appears(S, D, p, c) \in Changes /\ History!Alters(S, D, p) \in Changes
    BY <1>1, AppearsFacts, AltersFacts DEF Admissible
  <1>2. \A x \in Changes : Append(c, x) \in Seq(Changes)
    BY AppendFacts
  <1> QED BY <1>1, <1>2 DEF History!Compares

LEMMA FoundSteps ==
    ASSUME NEW S \in History!Manifests, NEW D \in History!Manifests
    PROVE  \E f : /\ f[0] = <<>>
                  /\ \A p \in 1 .. PathCount : f[p] = History!Compares(S, D, p, f[p - 1])
                  /\ History!Found(S, D) = f[PathCount]
  <1> DEFINE n == PathCount
             Y == Seq(Changes)
             C(p, c) == History!Compares(S, D, p, c)
             step == [p \in 1 .. n |-> [c \in Y |-> C(p, c)]]
             body(f) == [path \in 0 .. n |-> IF path = 0 THEN <<>> ELSE History!Compares(S, D, path, f[path - 1])]
  <1>0. n \in Nat
    BY HistoryAssumption DEF History!WorkspaceHistoryConstants
  <1>1. step \in [1 .. n -> [Y -> Y]] /\ <<>> \in Y
    <2>1. \A p \in 1 .. n : \A c \in Y : C(p, c) \in Y
      BY ComparesType
    <2>2. <<>> \in Y
      OBVIOUS
    <2> HIDE DEF C, Y
    <2> QED BY <2>1, <2>2
  <1>2. PICK f \in [0 .. n -> Y] : f[0] = <<>> /\ \A i \in 1 .. n : f[i] = step[i][f[i - 1]]
    <2> HIDE DEF step, Y, n
    <2>1. \E f : Iterates(f, n, Y, <<>>, step)
      BY <1>0, <1>1, Recursion
    <2> QED BY <2>1, Zenon DEF Iterates
  <1>3. \A i \in 1 .. n : f[i] = C(i, f[i - 1])
    <2> SUFFICES ASSUME NEW i \in 1 .. n PROVE f[i] = C(i, f[i - 1])
      OBVIOUS
    <2>1. f[i - 1] \in Y
      <3>1. i - 1 \in 0 .. n
        BY <1>0
      <3> HIDE DEF Y
      <3> QED BY <3>1
    <2> HIDE DEF C, Y
    <2> QED BY <1>2, <2>1
  <1>4. f = body(f)
    <2>1. \A i \in 0 .. n : f[i] = IF i = 0 THEN <<>> ELSE C(i, f[i - 1])
      <3> HIDE DEF C
      <3> QED BY <1>0, <1>2, <1>3
    <2>2. f = [i \in 0 .. n |-> IF i = 0 THEN <<>> ELSE C(i, f[i - 1])]
      <3> HIDE DEF C, Y
      <3> QED BY <2>1
    <2> QED BY <2>2
  <1> DEFINE g == CHOOSE g : g = body(g)
  <1>5. g = body(g)
    <2> HIDE DEF body
    <2> QED BY <1>4, Zenon
  <1>6. History!Found(S, D) = g[n]
    BY DEF History!Found
  <1> HIDE DEF g
  <1>7. g[0] = <<>> /\ \A p \in 1 .. n : g[p] = C(p, g[p - 1])
    <2>1. g = [i \in 0 .. n |-> IF i = 0 THEN <<>> ELSE C(i, g[i - 1])]
      BY <1>5
    <2> HIDE DEF C
    <2> QED BY <1>0, <2>1
  <1> QED BY <1>6, <1>7

LEMMA FoundIsComplete ==
    ASSUME NEW S \in History!Manifests, NEW D \in History!Manifests
    PROVE  FoundUpTo(History!Found(S, D), S, D, PathCount)
  <1>0. PathCount \in Nat
    BY HistoryAssumption DEF History!WorkspaceHistoryConstants
  <1>1. PICK f : /\ f[0] = <<>>
                 /\ \A p \in 1 .. PathCount : f[p] = History!Compares(S, D, p, f[p - 1])
                 /\ History!Found(S, D) = f[PathCount]
    BY FoundSteps
  <1> DEFINE Bad == {p \in 0 .. PathCount : ~FoundUpTo(f[p], S, D, p)}
  <1>2. ASSUME Bad /= {} PROVE FALSE
    <2>1. PICK p \in Bad : \A other \in Bad : p <= other
      <3>1. Bad \subseteq Nat
        OBVIOUS
      <3> HIDE DEF Bad
      <3> QED BY <1>2, <3>1, NatMin
    <2>2. FoundUpTo(<<>>, S, D, 0)
      <3>1. Legal(<<>>, S, D)
        BY DEF Legal
      <3>2. Placed(<<>>, S, D, 0)
        <4>1. \A q \in DOMAIN S : q > 0 /\ q \in Nat
          BY ManifestFacts
        <4> QED BY <4>1 DEF Placed
      <3> QED BY <3>1, <3>2 DEF FoundUpTo
    <2>3. p /= 0
      BY <1>1, <2>1, <2>2
    <2>8. p \in 0 .. PathCount /\ \A other \in Bad : other \in 0 .. PathCount /\ p <= other
      BY <2>1
    <2>9. p \in 1 .. PathCount /\ p - 1 \in 0 .. PathCount /\ ~(p <= p - 1)
      BY <1>0, <2>3, <2>8
    <2>4. p \in 1 .. PathCount /\ p - 1 \in 0 .. PathCount /\ p - 1 \notin Bad
      <3> HIDE DEF Bad
      <3> QED BY <2>8, <2>9, Zenon
    <2>5. FoundUpTo(f[p - 1], S, D, p - 1)
      BY <2>4
    <2>6. f[p] = History!Compares(S, D, p, f[p - 1])
      BY <1>1, <2>4
    <2>7. FoundUpTo(f[p], S, D, p)
      BY <2>4, <2>5, <2>6, ComparesKeeps
    <2> QED BY <2>1, <2>7
  <1>3. FoundUpTo(f[PathCount], S, D, PathCount)
    BY <1>0, <1>2
  <1> QED BY <1>1, <1>3

LEMMA RemovesSteps ==
    ASSUME NEW paths, NEW kept \in Seq(Changes)
    PROVE  \E f : /\ f[0] = kept
                  /\ \A p \in 1 .. PathCount :
                       f[p] = IF p \in paths THEN Append(f[p - 1], History!Change("remove", p, 0)) ELSE f[p - 1]
                  /\ History!Removes(paths, kept) = f[PathCount]
  <1> DEFINE n == PathCount
             Y == Seq(Changes)
             C(p, c) == IF p \in paths THEN Append(c, History!Change("remove", p, 0)) ELSE c
             step == [p \in 1 .. n |-> [c \in Y |-> C(p, c)]]
             body(f) == [path \in 0 .. n |->
                           IF path = 0 THEN kept
                           ELSE IF path \in paths THEN Append(f[path - 1], History!Change("remove", path, 0))
                           ELSE f[path - 1]]
  <1>0. n \in Nat
    BY HistoryAssumption DEF History!WorkspaceHistoryConstants
  <1>1. step \in [1 .. n -> [Y -> Y]]
    <2>1. \A p \in 1 .. n : \A c \in Y : C(p, c) \in Y
      <3> SUFFICES ASSUME NEW p \in 1 .. n, NEW c \in Y PROVE C(p, c) \in Y
        OBVIOUS
      <3>1. History!Change("remove", p, 0) \in Changes
        BY <1>0 DEF History!Change, Changes
      <3>2. Append(c, History!Change("remove", p, 0)) \in Y
        BY <3>1, AppendFacts
      <3> QED BY <3>2
    <2> HIDE DEF C, Y
    <2> QED BY <2>1
  <1>2. PICK f \in [0 .. n -> Y] : f[0] = kept /\ \A i \in 1 .. n : f[i] = step[i][f[i - 1]]
    <2>1. kept \in Y
      OBVIOUS
    <2> HIDE DEF step, Y, n
    <2>2. \E f : Iterates(f, n, Y, kept, step)
      BY <1>0, <1>1, <2>1, Recursion
    <2> QED BY <2>2, Zenon DEF Iterates
  <1>3. \A i \in 1 .. n : f[i] = C(i, f[i - 1])
    <2> SUFFICES ASSUME NEW i \in 1 .. n PROVE f[i] = C(i, f[i - 1])
      OBVIOUS
    <2>1. f[i - 1] \in Y
      <3>1. i - 1 \in 0 .. n
        BY <1>0
      <3> HIDE DEF Y
      <3> QED BY <3>1
    <2> HIDE DEF C, Y
    <2> QED BY <1>2, <2>1
  <1>4. f = body(f)
    <2>1. \A i \in 0 .. n : f[i] = IF i = 0 THEN kept ELSE C(i, f[i - 1])
      <3> HIDE DEF C
      <3> QED BY <1>0, <1>2, <1>3
    <2>2. f = [i \in 0 .. n |-> IF i = 0 THEN kept ELSE C(i, f[i - 1])]
      <3> HIDE DEF C, Y
      <3> QED BY <2>1
    <2> QED BY <2>2
  <1> DEFINE g == CHOOSE g : g = body(g)
  <1>5. g = body(g)
    <2> HIDE DEF body
    <2> QED BY <1>4, Zenon
  <1>6. History!Removes(paths, kept) = g[n]
    BY DEF History!Removes
  <1> HIDE DEF g
  <1>7. g[0] = kept /\ \A p \in 1 .. n : g[p] = C(p, g[p - 1])
    <2>1. g = [i \in 0 .. n |-> IF i = 0 THEN kept ELSE C(i, g[i - 1])]
      BY <1>5
    <2> HIDE DEF C
    <2> QED BY <1>0, <2>1
  <1> QED BY <1>6, <1>7

(* What was removed up to a path, after the renames.                           *)
RemovedUpTo(c, S, D, renamed, gone, upto) ==
    /\ Legal(c, S, D) /\ Placed(c, S, D, PathCount)
    /\ Cleared(c, renamed, PathCount) /\ Cleared(c, gone, upto)
    /\ \A i \in DOMAIN c : Takes(c[i]) => Taken(c[i]) \in renamed \/ (Taken(c[i]) \in gone /\ Taken(c[i]) <= upto)

LEMMA RemovalKeeps ==
    ASSUME NEW S \in History!Manifests, NEW D \in History!Manifests, NEW renamed, NEW gone,
           gone \subseteq DOMAIN D \ DOMAIN S, renamed \cap gone = {}, NEW p \in 1 .. PathCount, p \in gone,
           NEW c, RemovedUpTo(c, S, D, renamed, gone, p - 1)
    PROVE  RemovedUpTo(Append(c, History!Change("remove", p, 0)), S, D, renamed, gone, p)
  <1> DEFINE d == Append(c, History!Change("remove", p, 0))
             n == Len(c)
  <1>0. p \in Nat /\ p > 0
    BY HistoryAssumption DEF History!WorkspaceHistoryConstants
  <1>1. PICK x : x = History!Change("remove", p, 0)
    OBVIOUS
  <1>2. x \in Changes /\ x.kind = "remove" /\ x.path = p
    BY <1>0, <1>1 DEF History!Change, Changes
  <1>3. Takes(x) /\ Taken(x) = p /\ Admissible(x, S, D)
    BY <1>2 DEF Takes, Taken, Admissible
  <1>4. c \in Seq(Changes)
    BY DEF RemovedUpTo, Legal
  <1>5. /\ \A i \in DOMAIN c : i \in DOMAIN d /\ d[i] = c[i]
        /\ \A i \in DOMAIN d : i \in DOMAIN c \/ i = n + 1
        /\ n + 1 \in DOMAIN d /\ d[n + 1] = x
    BY <1>1, <1>2, <1>4, AppendFacts
  <1>6. Legal(d, S, D)
    <2>1. ASSUME NEW i \in DOMAIN c, Takes(c[i]) PROVE Taken(c[i]) /= Taken(x)
      <3>1. Taken(c[i]) \in renamed \/ Taken(c[i]) <= p - 1
        BY <2>1 DEF RemovedUpTo
      <3>2. ASSUME Taken(c[i]) = p PROVE FALSE
        BY <1>0, <3>1, <3>2
      <3> QED BY <1>3, <3>2
    <2>2. Legal(c, S, D)
      BY DEF RemovedUpTo
    <2>3. Legal(Append(c, x), S, D)
      BY <1>3, <2>1, <2>2, LegalGrows
    <2> QED BY <1>1, <2>3
  <1> HIDE DEF d, n
  <1>7. Placed(d, S, D, PathCount) /\ Cleared(d, renamed, PathCount)
    BY <1>5 DEF RemovedUpTo, Placed, Cleared
  <1>8. Cleared(d, gone, p)
    <2> SUFFICES ASSUME NEW q \in gone, q <= p PROVE \E i \in DOMAIN d : Takes(d[i]) /\ Taken(d[i]) = q
      BY DEF Cleared
    <2>1. CASE q = p
      BY <1>3, <1>5, <2>1
    <2>2. CASE q /= p
      <3>1. q <= p - 1
        <4>1. q \in Nat
          BY ManifestFacts
        <4> QED BY <1>0, <2>2, <4>1
      <3>2. PICK i \in DOMAIN c : Takes(c[i]) /\ Taken(c[i]) = q
        BY <3>1 DEF RemovedUpTo, Cleared
      <3> QED BY <1>5, <3>2
    <2> QED BY <2>1, <2>2
  <1>9. ASSUME NEW i \in DOMAIN d, Takes(d[i])
        PROVE  Taken(d[i]) \in renamed \/ (Taken(d[i]) \in gone /\ Taken(d[i]) <= p)
    <2>1. CASE i \in DOMAIN c
      <3>1. d[i] = c[i] /\ Takes(c[i])
        BY <1>5, <1>9, <2>1
      <3>2. Taken(c[i]) \in renamed \/ (Taken(c[i]) \in gone /\ Taken(c[i]) <= p - 1)
        BY <2>1, <3>1 DEF RemovedUpTo
      <3>3. Taken(c[i]) \in gone => Taken(c[i]) \in Nat
        BY ManifestFacts
      <3>4. \A m \in Nat : m <= p - 1 => m <= p
        BY <1>0
      <3>5. Taken(c[i]) \in renamed \/ (Taken(c[i]) \in gone /\ Taken(c[i]) <= p)
        BY <3>2, <3>3, <3>4, Zenon
      <3> QED BY <3>1, <3>5, Zenon
    <2>2. CASE i = n + 1
      BY <1>0, <1>3, <1>5, <2>2
    <2> QED BY <1>5, <2>1, <2>2
  <1>10. RemovedUpTo(d, S, D, renamed, gone, p)
    BY <1>6, <1>7, <1>8, <1>9 DEF RemovedUpTo
  <1> QED BY <1>10 DEF d

LEMMA DiffIsComplete ==
    ASSUME NEW S \in History!Manifests, NEW D \in History!Manifests
    PROVE  /\ Legal(History!Diff(S, D), S, D) /\ Placed(History!Diff(S, D), S, D, PathCount)
           /\ Cleared(History!Diff(S, D), DOMAIN D \ DOMAIN S, PathCount)
  <1>0. PathCount \in Nat
    BY HistoryAssumption DEF History!WorkspaceHistoryConstants
  <1>1. PICK kept : kept = History!Found(S, D)
    OBVIOUS
  <1>2. FoundUpTo(kept, S, D, PathCount)
    BY <1>1, FoundIsComplete
  <1>3. PICK renamed : renamed = History!Consumed(kept)
    OBVIOUS
  <1>4. PICK gone : gone = (DOMAIN D \ DOMAIN S) \ renamed
    OBVIOUS
  <1>5. \A i \in DOMAIN kept : Takes(kept[i]) <=> kept[i].kind = "rename"
    BY <1>2 DEF FoundUpTo, Takes
  <1>6. \A i \in DOMAIN kept : Takes(kept[i]) => Taken(kept[i]) = kept[i].previous
    BY <1>5 DEF Taken
  <1>7. RemovedUpTo(kept, S, D, renamed, gone, 0)
    <2>1. Cleared(kept, renamed, PathCount)
      <3> SUFFICES ASSUME NEW q \in renamed PROVE \E i \in DOMAIN kept : Takes(kept[i]) /\ Taken(kept[i]) = q
        BY DEF Cleared
      <3>1. PICK i \in DOMAIN kept : kept[i].kind = "rename" /\ kept[i].previous = q
        BY <1>3 DEF History!Consumed
      <3> QED BY <1>5, <1>6, <3>1
    <2>2. Cleared(kept, gone, 0)
      <3>1. \A q \in gone : q > 0 /\ q \in Nat
        BY <1>4, ManifestFacts
      <3> QED BY <3>1 DEF Cleared
    <2>3. \A i \in DOMAIN kept : Takes(kept[i]) => Taken(kept[i]) \in renamed
      BY <1>3, <1>5, <1>6 DEF History!Consumed
    <2>4. Legal(kept, S, D) /\ Placed(kept, S, D, PathCount)
      BY <1>2, Zenon DEF FoundUpTo
    <2> QED BY <2>1, <2>2, <2>3, <2>4, Zenon DEF RemovedUpTo
  <1>8. kept \in Seq(Changes)
    BY <1>2 DEF FoundUpTo, Legal
  <1>9. PICK f : /\ f[0] = kept
                 /\ \A p \in 1 .. PathCount :
                      f[p] = IF p \in gone THEN Append(f[p - 1], History!Change("remove", p, 0)) ELSE f[p - 1]
                 /\ History!Removes(gone, kept) = f[PathCount]
    BY <1>8, RemovesSteps
  <1> DEFINE Bad == {p \in 0 .. PathCount : ~RemovedUpTo(f[p], S, D, renamed, gone, p)}
  <1>10. ASSUME Bad /= {} PROVE FALSE
    <2>1. PICK p \in Bad : \A other \in Bad : p <= other
      <3>1. Bad \subseteq Nat
        OBVIOUS
      <3> HIDE DEF Bad
      <3> QED BY <1>10, <3>1, NatMin
    <2>2. p /= 0
      BY <1>7, <1>9, <2>1
    <2>7. p \in 0 .. PathCount /\ \A other \in Bad : other \in 0 .. PathCount /\ p <= other
      BY <2>1
    <2>8. p \in 1 .. PathCount /\ p - 1 \in 0 .. PathCount /\ ~(p <= p - 1) /\ p \in Nat
      BY <1>0, <2>2, <2>7
    <2>3. p \in 1 .. PathCount /\ p - 1 \in 0 .. PathCount /\ p - 1 \notin Bad /\ p \in Nat
      <3> HIDE DEF Bad
      <3> QED BY <2>7, <2>8, Zenon
    <2>4. RemovedUpTo(f[p - 1], S, D, renamed, gone, p - 1)
      BY <2>3
    <2>5. CASE p \in gone
      <3>1. f[p] = Append(f[p - 1], History!Change("remove", p, 0))
        BY <1>9, <2>3, <2>5
      <3>2. gone \subseteq DOMAIN D \ DOMAIN S /\ renamed \cap gone = {}
        BY <1>4
      <3>3. p \in 1 .. PathCount
        BY <2>3
      <3>4. PICK c : c = f[p - 1]
        OBVIOUS
      <3>5. RemovedUpTo(c, S, D, renamed, gone, p - 1)
        BY <2>4, <3>4, Zenon
      <3>6. RemovedUpTo(Append(c, History!Change("remove", p, 0)), S, D, renamed, gone, p)
        BY <2>5, <3>2, <3>3, <3>5, RemovalKeeps, Zenon
      <3>7. RemovedUpTo(f[p], S, D, renamed, gone, p)
        BY <3>1, <3>4, <3>6, Zenon
      <3> QED BY <2>1, <3>7
    <2>6. CASE p \notin gone
      <3>1. f[p] = f[p - 1]
        BY <1>9, <2>3, <2>6
      <3>2. \A q \in gone : q \in Nat /\ (q <= p <=> q <= p - 1)
        <4>1. \A q \in gone : q \in Nat /\ q /= p
          BY <1>4, <2>6, ManifestFacts
        <4> QED BY <2>3, <4>1
      <3>4. PICK c : c = f[p - 1]
        OBVIOUS
      <3>5. RemovedUpTo(c, S, D, renamed, gone, p - 1)
        BY <2>4, <3>4, Zenon
      <3>6. Cleared(c, gone, p)
        BY <3>2, <3>5, Zenon DEF RemovedUpTo, Cleared
      <3>7. ASSUME NEW i \in DOMAIN c, Takes(c[i])
            PROVE  Taken(c[i]) \in renamed \/ (Taken(c[i]) \in gone /\ Taken(c[i]) <= p)
        BY <3>2, <3>5, <3>7, Zenon DEF RemovedUpTo
      <3>8. RemovedUpTo(c, S, D, renamed, gone, p)
        BY <3>5, <3>6, <3>7, Zenon DEF RemovedUpTo
      <3>9. RemovedUpTo(f[p], S, D, renamed, gone, p)
        BY <3>1, <3>4, <3>8, Zenon
      <3> QED BY <2>1, <3>9
    <2> QED BY <2>5, <2>6
  <1>11. RemovedUpTo(f[PathCount], S, D, renamed, gone, PathCount)
    BY <1>0, <1>10
  <1>12. History!Diff(S, D) = f[PathCount]
    BY <1>1, <1>3, <1>4, <1>9 DEF History!Diff, History!Gone
  <1>13. Cleared(f[PathCount], DOMAIN D \ DOMAIN S, PathCount)
    <2>1. \A q \in DOMAIN D \ DOMAIN S : q \in renamed \/ q \in gone
      BY <1>4
    <2> QED BY <1>11, <2>1 DEF RemovedUpTo, Cleared
  <1> QED BY <1>11, <1>12, <1>13 DEF RemovedUpTo

-----------------------------------------------------------------------------
(* What apply_manifest_diff makes of it.                                       *)

(* After some of the changes: what they put there, and what they took away.    *)
Put(F, i) == {F[j].path : j \in {k \in 1 .. i : F[k].kind /= "remove"}}
Out(F, i) == {Taken(F[j]) : j \in {k \in 1 .. i : Takes(F[k])}}
Left(F, S, D, i) ==
    [p \in (DOMAIN D \ Out(F, i)) \cup Put(F, i) |-> IF p \in Put(F, i) THEN S[p] ELSE D[p]]
After(F, S, D, i) == [thrown |-> FALSE, entries |-> Left(F, S, D, i)]

LEMMA ChangeFacts ==
    ASSUME NEW F, NEW S, NEW D, Legal(F, S, D), NEW i \in 1 .. Len(F)
    PROVE  /\ F[i] \in Changes /\ Admissible(F[i], S, D)
           /\ Put(F, i) = IF F[i].kind /= "remove" THEN Put(F, i - 1) \cup {F[i].path} ELSE Put(F, i - 1)
           /\ Out(F, i) = IF Takes(F[i]) THEN Out(F, i - 1) \cup {Taken(F[i])} ELSE Out(F, i - 1)
           /\ Put(F, i - 1) \subseteq DOMAIN S
           /\ Out(F, i - 1) \subseteq DOMAIN D \ DOMAIN S
           /\ Takes(F[i]) => Taken(F[i]) \notin Out(F, i - 1)
  <1>1. Len(F) \in Nat /\ DOMAIN F = 1 .. Len(F) /\ i \in DOMAIN F
    BY DEF Legal
  <1>2. \A k \in 1 .. i : k \in 1 .. i - 1 \/ k = i
    BY <1>1
  <1>3. \A k \in 1 .. i - 1 : k \in 1 .. i /\ k \in DOMAIN F /\ k /= i
    BY <1>1
  <1>4. i \in 1 .. i
    BY <1>1
  <1>5. \A k \in DOMAIN F : Admissible(F[k], S, D) /\ F[k] \in Changes
    BY DEF Legal, Admissible
  <1>6. Put(F, i) = IF F[i].kind /= "remove" THEN Put(F, i - 1) \cup {F[i].path} ELSE Put(F, i - 1)
    BY <1>2, <1>3, <1>4 DEF Put
  <1>7. Out(F, i) = IF Takes(F[i]) THEN Out(F, i - 1) \cup {Taken(F[i])} ELSE Out(F, i - 1)
    BY <1>2, <1>3, <1>4 DEF Out
  <1>8. Put(F, i - 1) \subseteq DOMAIN S
    BY <1>3, <1>5 DEF Put, Admissible
  <1>9. Out(F, i - 1) \subseteq DOMAIN D \ DOMAIN S
    BY <1>3, <1>5 DEF Out, Admissible
  <1>10. ASSUME Takes(F[i]), Taken(F[i]) \in Out(F, i - 1) PROVE FALSE
    <2>1. PICK j \in 1 .. i - 1 : Takes(F[j]) /\ Taken(F[j]) = Taken(F[i])
      BY <1>10 DEF Out
    <2>2. j \in DOMAIN F /\ j /= i
      BY <1>3
    <2> QED BY <1>1, <1>10, <2>1, <2>2 DEF Legal
  <1> QED BY <1>1, <1>5, <1>6, <1>7, <1>8, <1>9, <1>10

LEMMA AppliesOne ==
    ASSUME NEW F, NEW S, NEW D, Legal(F, S, D), NEW i \in 1 .. Len(F)
    PROVE  History!AppliedTo(S, After(F, S, D, i - 1), F[i]) = After(F, S, D, i)
  <1> DEFINE c == F[i]
             put == Put(F, i - 1)
             out == Out(F, i - 1)
             m == Left(F, S, D, i - 1)
             new == Left(F, S, D, i)
  <1>1. /\ c \in Changes /\ Admissible(c, S, D)
        /\ Put(F, i) = IF c.kind /= "remove" THEN put \cup {c.path} ELSE put
        /\ Out(F, i) = IF Takes(c) THEN out \cup {Taken(c)} ELSE out
        /\ put \subseteq DOMAIN S /\ out \subseteq DOMAIN D \ DOMAIN S
        /\ Takes(c) => Taken(c) \notin out
    BY ChangeFacts
  <1>2. /\ DOMAIN m = (DOMAIN D \ out) \cup put
        /\ \A p \in DOMAIN m : m[p] = IF p \in put THEN S[p] ELSE D[p]
    BY DEF Left
  <1>3. new = [p \in (DOMAIN D \ Out(F, i)) \cup Put(F, i) |-> IF p \in Put(F, i) THEN S[p] ELSE D[p]]
    BY DEF Left
  <1>4. After(F, S, D, i - 1).thrown = FALSE /\ After(F, S, D, i - 1).entries = m
    BY DEF After
  <1>5. After(F, S, D, i) = [thrown |-> FALSE, entries |-> new]
    BY DEF After
  <1>6. PICK r : r = After(F, S, D, i - 1)
    OBVIOUS
  <1>7. r.thrown = FALSE /\ r.entries = m
    BY <1>4, <1>6
  <1> HIDE DEF c, put, out, m, new
  <1>8. CASE c.kind = "remove"
    <2>1. PICK q : q = c.path
      OBVIOUS
    <2>2. q \in DOMAIN D \ DOMAIN S /\ q \notin out /\ q \notin put /\ q \in DOMAIN m
      BY <1>1, <1>2, <1>8, <2>1 DEF Admissible, Takes, Taken
    <2>3. Put(F, i) = put /\ Out(F, i) = out \cup {q}
      BY <1>1, <1>8, <2>1 DEF Takes, Taken
    <2>4. History!AppliedTo(S, r, c) = [thrown |-> FALSE, entries |-> History!Without(m, q)]
      BY <1>7, <1>8, <2>1, <2>2 DEF History!AppliedTo
    <2>5. History!Without(m, q) = new
      <3>1. DOMAIN m \ {q} = (DOMAIN D \ Out(F, i)) \cup Put(F, i)
        BY <1>2, <2>2, <2>3
      <3>2. \A p \in DOMAIN m \ {q} : m[p] = IF p \in Put(F, i) THEN S[p] ELSE D[p]
        BY <1>2, <2>3
      <3> QED BY <1>3, <3>1, <3>2 DEF History!Without
    <2> QED BY <1>5, <1>6, <2>4, <2>5 DEF c
  <1>9. CASE c.kind = "rename"
    <2>1. PICK q : q = c.previous
      OBVIOUS
    <2>2. q \in DOMAIN D \ DOMAIN S /\ q \notin out /\ q \notin put /\ q \in DOMAIN m /\ c.path \in DOMAIN S
      BY <1>1, <1>2, <1>9, <2>1 DEF Admissible, Takes, Taken
    <2>3. Put(F, i) = put \cup {c.path} /\ Out(F, i) = out \cup {q}
      BY <1>1, <1>9, <2>1 DEF Takes, Taken
    <2>4. History!AppliedTo(S, r, c) =
            [thrown |-> FALSE, entries |-> History!With(History!Without(m, q), c.path, S[c.path])]
      BY <1>7, <1>9, <2>1, <2>2 DEF History!AppliedTo
    <2>5. PICK w : w = History!Without(m, q)
      OBVIOUS
    <2>6. DOMAIN w = DOMAIN m \ {q} /\ \A p \in DOMAIN m \ {q} : w[p] = m[p]
      BY <2>5 DEF History!Without
    <2>7. History!With(w, c.path, S[c.path]) = new
      <3>1. DOMAIN w \cup {c.path} = (DOMAIN D \ Out(F, i)) \cup Put(F, i)
        BY <1>2, <2>2, <2>3, <2>6
      <3>2. \A p \in DOMAIN w \cup {c.path} :
              (IF p = c.path THEN S[c.path] ELSE w[p]) = IF p \in Put(F, i) THEN S[p] ELSE D[p]
        BY <1>2, <2>3, <2>6
      <3> QED BY <1>3, <3>1, <3>2 DEF History!With
    <2> QED BY <1>5, <1>6, <2>4, <2>5, <2>7 DEF c
  <1>10. CASE c.kind \notin {"remove", "rename"}
    <2>1. Put(F, i) = put \cup {c.path} /\ Out(F, i) = out /\ c.path \in DOMAIN S
      BY <1>1, <1>10 DEF Admissible, Takes
    <2>2. History!AppliedTo(S, r, c) = [thrown |-> FALSE, entries |-> History!With(m, c.path, S[c.path])]
      BY <1>7, <1>10 DEF History!AppliedTo
    <2>3. History!With(m, c.path, S[c.path]) = new
      <3>1. DOMAIN m \cup {c.path} = (DOMAIN D \ Out(F, i)) \cup Put(F, i)
        BY <1>1, <1>2, <2>1
      <3>2. \A p \in DOMAIN m \cup {c.path} :
              (IF p = c.path THEN S[c.path] ELSE m[p]) = IF p \in Put(F, i) THEN S[p] ELSE D[p]
        BY <1>2, <2>1
      <3> QED BY <1>3, <3>1, <3>2 DEF History!With
    <2> QED BY <1>5, <1>6, <2>2, <2>3 DEF c
  <1> QED BY <1>8, <1>9, <1>10

(* The changes of a legal difference are applied one after the other.          *)
LEMMA ApplyIsAfter ==
    ASSUME NEW F, NEW S, NEW D, Legal(F, S, D), D = [p \in DOMAIN D |-> D[p]]
    PROVE  History!Apply(S, D, F) = After(F, S, D, Len(F))
  <1> DEFINE n == Len(F)
             start == [thrown |-> FALSE, entries |-> D]
             A(r, i) == History!AppliedTo(S, r, F[i])
             body(f) == [i \in 0 .. n |-> IF i = 0 THEN [thrown |-> FALSE, entries |-> D]
                                          ELSE History!AppliedTo(S, f[i - 1], F[i])]
             h == [i \in 0 .. n |-> After(F, S, D, i)]
  <1>1. n \in Nat
    BY DEF Legal
  <1>2. After(F, S, D, 0) = start
    <2>1. Put(F, 0) = {} /\ Out(F, 0) = {}
      BY DEF Put, Out
    <2>2. Left(F, S, D, 0) = D
      BY <2>1 DEF Left
    <2> QED BY <2>2 DEF After
  <1>3. \A i \in 1 .. n : A(After(F, S, D, i - 1), i) = After(F, S, D, i)
    BY AppliesOne
  <1>4. h = body(h)
    <2>1. \A i \in 0 .. n : h[i] = IF i = 0 THEN start ELSE A(h[i - 1], i)
      <3> SUFFICES ASSUME NEW i \in 0 .. n PROVE h[i] = IF i = 0 THEN start ELSE A(h[i - 1], i)
        OBVIOUS
      <3>1. CASE i = 0
        BY <1>2, <3>1
      <3>2. CASE i /= 0
        <4>1. i \in 1 .. n /\ i - 1 \in 0 .. n
          BY <1>1, <3>2
        <4>2. h[i - 1] = After(F, S, D, i - 1) /\ h[i] = After(F, S, D, i)
          BY <4>1
        <4> HIDE DEF A, h
        <4> QED BY <1>3, <3>2, <4>1, <4>2
      <3> QED BY <3>1, <3>2
    <2>2. h = [i \in 0 .. n |-> IF i = 0 THEN start ELSE A(h[i - 1], i)]
      <3>1. h = [i \in 0 .. n |-> h[i]]
        OBVIOUS
      <3> HIDE DEF A, h, start
      <3> QED BY <2>1, <3>1
    <2> QED BY <2>2
  <1> DEFINE g == CHOOSE g : g = body(g)
  <1>5. g = body(g)
    <2> HIDE DEF body, h
    <2> QED BY <1>4, Zenon
  <1>6. History!Apply(S, D, F) = g[n]
    BY DEF History!Apply
  <1> HIDE DEF g
  <1>7. g[0] = start /\ \A i \in 1 .. n : g[i] = A(g[i - 1], i)
    <2>1. g = [i \in 0 .. n |-> IF i = 0 THEN start ELSE A(g[i - 1], i)]
      BY <1>5
    <2> HIDE DEF A, start
    <2> QED BY <1>1, <2>1
  <1> DEFINE Differ == {i \in 0 .. n : g[i] /= After(F, S, D, i)}
  <1>8. ASSUME Differ /= {} PROVE FALSE
    <2>1. PICK i \in Differ : \A other \in Differ : i <= other
      <3>1. Differ \subseteq Nat
        OBVIOUS
      <3> HIDE DEF Differ
      <3> QED BY <1>8, <3>1, NatMin
    <2>2. i /= 0
      BY <1>2, <1>7, <2>1
    <2>3. i \in 1 .. n /\ i - 1 \in 0 .. n /\ i - 1 \notin Differ
      BY <1>1, <2>1, <2>2
    <2>4. g[i - 1] = After(F, S, D, i - 1)
      BY <2>3
    <2> HIDE DEF A
    <2> QED BY <1>3, <1>7, <2>1, <2>3, <2>4
  <1>9. g[n] = After(F, S, D, n)
    <2>1. n \in 0 .. n
      BY <1>1
    <2> QED BY <1>8, <2>1
  <1> QED BY <1>6, <1>9

LEMMA AppliedIsSource ==
    ASSUME NEW S \in History!Manifests, NEW D \in History!Manifests
    PROVE  History!Apply(S, D, History!Diff(S, D)) = [thrown |-> FALSE, entries |-> S]
  <1>0. /\ DOMAIN S \subseteq 1 .. PathCount /\ DOMAIN D \subseteq 1 .. PathCount
        /\ S = [p \in DOMAIN S |-> S[p]] /\ D = [p \in DOMAIN D |-> D[p]]
        /\ PathCount \in Nat
    BY ManifestFacts, HistoryAssumption DEF History!WorkspaceHistoryConstants
  <1>1. PICK F : F = History!Diff(S, D)
    OBVIOUS
  <1>2. Legal(F, S, D) /\ Placed(F, S, D, PathCount) /\ Cleared(F, DOMAIN D \ DOMAIN S, PathCount)
    BY <1>1, DiffIsComplete
  <1>3. History!Apply(S, D, F) = After(F, S, D, Len(F))
    BY <1>0, <1>2, ApplyIsAfter
  <1> DEFINE put == Put(F, Len(F))
             out == Out(F, Len(F))
  <1>4. DOMAIN F = 1 .. Len(F) /\ \A i \in DOMAIN F : Admissible(F[i], S, D)
    BY <1>2 DEF Legal
  <1>5. put \subseteq DOMAIN S
    BY <1>4 DEF Put, Admissible
  <1>6. out = DOMAIN D \ DOMAIN S
    <2>1. out \subseteq DOMAIN D \ DOMAIN S
      BY <1>4 DEF Out, Admissible
    <2>2. ASSUME NEW p \in DOMAIN D \ DOMAIN S PROVE p \in out
      <3>1. PICK i \in DOMAIN F : Takes(F[i]) /\ Taken(F[i]) = p
        BY <1>0, <1>2 DEF Cleared
      <3> QED BY <1>4, <3>1 DEF Out
    <2> QED BY <2>1, <2>2
  <1>7. ASSUME NEW p \in DOMAIN S, p \notin put PROVE p \in DOMAIN D /\ S[p] = D[p]
    <2>1. ASSUME p \in DOMAIN D => S[p] /= D[p] PROVE FALSE
      <3>1. PICK i \in DOMAIN F : F[i].kind /= "remove" /\ F[i].path = p
        BY <1>0, <1>2, <2>1 DEF Placed
      <3> QED BY <1>4, <1>7, <3>1 DEF Put
    <2> QED BY <2>1
  <1> HIDE DEF put, out
  <1>8. (DOMAIN D \ out) \cup put = DOMAIN S
    BY <1>5, <1>6, <1>7
  <1>9. \A p \in DOMAIN S : (IF p \in put THEN S[p] ELSE D[p]) = S[p]
    BY <1>7
  <1>10. Left(F, S, D, Len(F)) = [p \in (DOMAIN D \ out) \cup put |-> IF p \in put THEN S[p] ELSE D[p]]
    BY DEF Left, put, out
  <1>11. Left(F, S, D, Len(F)) = [p \in DOMAIN S |-> S[p]]
    BY <1>8, <1>9, <1>10
  <1> QED BY <1>0, <1>1, <1>3, <1>11 DEF After

-----------------------------------------------------------------------------
(* The history of the revisions.                                               *)

Committed == [revision : Nat, manifest : History!Manifests]
HistoryInv ==
    /\ tree \in History!Manifests /\ revisions \in Seq(Committed) /\ revision \in Nat
    /\ Len(revisions) <= Capacity
    /\ \A i \in DOMAIN revisions : revisions[i].revision = History!Current + i - Len(revisions)
    /\ state = "synced" => revisions /= <<>> /\ revisions[Len(revisions)].manifest = tree
    /\ revision = IF state = "synchronizing" THEN History!Current + 1 ELSE 0

LEMMA CurrentIsNat == ASSUME revisions \in Seq(Committed) PROVE History!Current \in Nat
  <1>1. CASE revisions = <<>>
    BY <1>1 DEF History!Current
  <1>2. CASE revisions /= <<>>
    <2>1. Len(revisions) \in DOMAIN revisions
      BY <1>2
    <2>2. revisions[Len(revisions)] \in Committed
      BY <2>1
    <2> QED BY <1>2, <2>2 DEF History!Current, Committed
  <1> QED BY <1>1, <1>2

LEMMA HistoryInit == History!Init => HistoryInv
  <1> SUFFICES ASSUME History!Init PROVE HistoryInv
    OBVIOUS
  <1>1. tree = [path \in {} |-> History!Directory] /\ state = "idle" /\ revision = 0 /\ revisions = <<>>
    BY DEF History!Init
  <1>2. tree \in History!Manifests
    <2>1. DOMAIN tree = {} /\ tree \in [{} -> History!Entries]
      BY <1>1
    <2> QED BY <2>1, ManifestFacts
  <1>3. Capacity \in Nat \ {0}
    BY HistoryAssumption DEF History!WorkspaceHistoryConstants
  <1> QED BY <1>1, <1>2, <1>3 DEF HistoryInv

LEMMA RevisionKeeps ==
    ASSUME HistoryInv, NEW S \in History!Manifests, History!Commit(S) PROVE HistoryInv'
  <1>1. /\ state = "synchronizing" /\ state' = "synced" /\ revision' = 0
        /\ tree' = History!Apply(S, tree, History!Diff(S, tree)).entries
        /\ revisions' = History!Kept(Append(revisions, [revision |-> revision, manifest |-> S]))
    BY DEF History!Commit
  <1>2. tree' = S
    <2>1. tree \in History!Manifests
      BY DEF HistoryInv
    <2>2. History!Apply(S, tree, History!Diff(S, tree)) = [thrown |-> FALSE, entries |-> S]
      BY <2>1, AppliedIsSource
    <2> QED BY <1>1, <2>2
  <1>3. Capacity \in Nat /\ Capacity > 0
    BY HistoryAssumption DEF History!WorkspaceHistoryConstants
  <1>4. PICK last \in Nat : last = History!Current
    BY CurrentIsNat DEF HistoryInv
  <1>5. PICK n \in Nat : n = Len(revisions)
    BY DEF HistoryInv
  <1>6. PICK r : r = [revision |-> revision, manifest |-> S]
    OBVIOUS
  <1>7. r \in Committed /\ r.revision = last + 1 /\ r.manifest = S
    <2>1. revision = last + 1
      BY <1>1, <1>4 DEF HistoryInv
    <2> QED BY <1>6, <2>1 DEF Committed
  <1>8. PICK all : all = Append(revisions, r)
    OBVIOUS
  <1>9. /\ all \in Seq(Committed) /\ Len(all) = n + 1
        /\ \A i \in 1 .. n : all[i].revision = last + i - n
        /\ all[n + 1] = r
    <2>1. revisions \in Seq(Committed)
      BY DEF HistoryInv
    <2>2. /\ all \in Seq(Committed) /\ Len(all) = n + 1
          /\ \A i \in 1 .. n : all[i] = revisions[i]
          /\ all[n + 1] = r
      BY <1>5, <1>7, <1>8, <2>1, AppendProperties
    <2>3. \A i \in 1 .. n : revisions[i].revision = last + i - n
      BY <1>4, <1>5, <2>1 DEF HistoryInv
    <2> QED BY <2>2, <2>3
  <1>10. PICK new : new = revisions'
    OBVIOUS
  <1>11. PICK m \in Nat : /\ new \in Seq(Committed) /\ Len(new) = m /\ m > 0 /\ m <= Capacity
                          /\ \A i \in 1 .. m : new[i].revision = last + 1 + i - m
                          /\ new[m] = r
    <2>1. CASE n + 1 > Capacity
      <3>1. new = Tail(all) /\ n > 0 /\ n <= Capacity
        BY <1>1, <1>3, <1>5, <1>6, <1>8, <1>9, <1>10, <2>1 DEF History!Kept, HistoryInv
      <3>2. new \in Seq(Committed) /\ Len(new) = n /\ \A i \in 1 .. n : new[i] = all[i + 1]
        BY <1>9, <3>1
      <3>3. ASSUME NEW i \in 1 .. n PROVE new[i].revision = last + 1 + i - n
        <4>1. CASE i = n
          <5>1. new[i] = all[n + 1]
            BY <3>2, <4>1, Zenon
          <5>2. new[i].revision = last + 1
            BY <1>7, <1>9, <5>1, Zenon
          <5>3. last + 1 + i - n = last + 1
            BY <4>1
          <5> QED BY <5>2, <5>3, Zenon
        <4>2. CASE i /= n
          <5>1. i + 1 \in 1 .. n
            BY <4>2
          <5>2. all[i + 1].revision = last + (i + 1) - n
            BY <1>9, <5>1
          <5> QED BY <3>2, <5>2
        <4> QED BY <4>1, <4>2
      <3>4. new[n] = r
        BY <1>9, <3>1, <3>2
      <3> QED BY <3>1, <3>2, <3>3, <3>4
    <2>2. CASE ~(n + 1 > Capacity)
      <3>1. new = all /\ n + 1 <= Capacity
        BY <1>1, <1>3, <1>6, <1>8, <1>9, <1>10, <2>2 DEF History!Kept
      <3>2. ASSUME NEW i \in 1 .. n + 1 PROVE new[i].revision = last + 1 + i - (n + 1)
        <4>1. CASE i = n + 1
          <5>1. new[i].revision = last + 1
            BY <1>7, <1>9, <3>1, <4>1, Zenon
          <5>2. last + 1 + i - (n + 1) = last + 1
            BY <4>1
          <5> QED BY <5>1, <5>2, Zenon
        <4>2. CASE i /= n + 1
          <5>1. i \in 1 .. n
            BY <4>2
          <5>2. new[i].revision = last + i - n
            BY <1>9, <3>1, <5>1, Zenon
          <5>3. last + i - n = last + 1 + i - (n + 1)
            BY <5>1
          <5> QED BY <5>2, <5>3, Zenon
        <4> QED BY <4>1, <4>2
      <3>3. n + 1 \in Nat /\ n + 1 > 0
        OBVIOUS
      <3>4. new \in Seq(Committed) /\ Len(new) = n + 1 /\ new[n + 1] = r
        BY <1>9, <3>1, Zenon
      <3> QED BY <3>1, <3>2, <3>3, <3>4, Zenon
    <2> QED BY <2>1, <2>2
  <1>12. revisions' \in Seq(Committed) /\ Len(revisions') = m /\ revisions' /= <<>> /\ DOMAIN revisions' = 1 .. m
    BY <1>10, <1>11
  <1>13. History!Current' = last + 1
    BY <1>7, <1>10, <1>11, <1>12 DEF History!Current
  <1> QED BY <1>1, <1>2, <1>3, <1>7, <1>10, <1>11, <1>12, <1>13 DEF HistoryInv

LEMMA HistoryStep == HistoryInv /\ (History!Next \/ UNCHANGED history) => HistoryInv'
  <1> SUFFICES ASSUME HistoryInv, History!Next \/ UNCHANGED history PROVE HistoryInv'
    OBVIOUS
  <1>1. ASSUME tree' = tree, revisions' = revisions, revision' \in Nat, state' /= "synced" \/ state' = state,
               revision' = IF state' = "synchronizing" THEN History!Current + 1 ELSE 0
        PROVE  HistoryInv'
    <2>1. History!Current' = History!Current
      BY <1>1 DEF History!Current
    <2> QED BY <1>1, <2>1 DEF HistoryInv
  <1>2. CASE History!Begin
    <2>1. /\ tree' = tree /\ revisions' = revisions /\ state' = "synchronizing"
          /\ revision' = History!Current + 1
      BY <1>2 DEF History!Begin
    <2>2. revision' \in Nat
      BY <2>1, CurrentIsNat DEF HistoryInv
    <2> QED BY <1>1, <2>1, <2>2
  <1>3. CASE History!Fail
    <2>1. tree' = tree /\ revisions' = revisions /\ state' = "failed" /\ revision' = 0
      BY <1>3 DEF History!Fail
    <2> QED BY <1>1, <2>1
  <1>4. CASE UNCHANGED history
    <2>1. tree' = tree /\ revisions' = revisions /\ state' = state /\ revision' = revision
      BY <1>4 DEF history
    <2> QED BY <1>1, <2>1 DEF HistoryInv
  <1> QED BY <1>2, <1>3, <1>4, RevisionKeeps DEF History!Next

LEMMA HistoryImplies == HistoryInv => History!HistoryIsSound
  <1> SUFFICES ASSUME HistoryInv PROVE History!HistoryIsSound
    OBVIOUS
  <1>1. History!DiffReachesSource
    BY AppliedIsSource DEF HistoryInv, History!DiffReachesSource
  <1>2. state = "synchronizing" <=> revision = History!Current + 1
    <2>1. History!Current \in Nat
      BY CurrentIsNat DEF HistoryInv
    <2> QED BY <2>1 DEF HistoryInv
  <1>3. History!HistoryIsConnected
    BY <1>2 DEF HistoryInv, History!HistoryIsConnected
  <1> QED BY <1>1, <1>3 DEF History!HistoryIsSound

LEMMA HistoryPart ==
    [Next]_<<pairing, control, build, download, agent, history, trace, part>> =>
      History!Next \/ UNCHANGED history
  BY DEF Next

(* Applying the difference of any two manifests never throws and leads from    *)
(* the older to the newer one, whatever was added, moved, changed and removed  *)
(* at once; and the history keeps the last revisions without a gap and ends    *)
(* with what the destination holds (diff_manifests, apply_manifest_diff and    *)
(* WorkspaceRevisionHistory in workspace_sync.cpp).                            *)
THEOREM HistoryCorrect == Spec => []HistoryIsSound
  <1>1. Init => HistoryInv
    BY HistoryInit DEF Init
  <1>2. HistoryInv /\ [Next]_<<pairing, control, build, download, agent, history, trace, part>> => HistoryInv'
    BY HistoryPart, HistoryStep
  <1>3. HistoryInv => HistoryIsSound
    BY HistoryImplies DEF HistoryIsSound
  <1> QED BY <1>1, <1>2, <1>3, PTL DEF Spec

=============================================================================
