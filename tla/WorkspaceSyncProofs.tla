-------------------------- MODULE WorkspaceSyncProofs --------------------------
(* Theorems about WorkspaceSync, for any paths, trees, chunks and bounds: types,
   what the mirror shows, and why a sync that nothing disturbs commits. *)
EXTENDS WorkspaceSync, SequenceTheorems, FiniteSetTheorems, WellFoundedInduction, TLAPS

-----------------------------------------------------------------------------
(* The data: least elements, trees, the chunks of a file. *)

LEMMA LeastNumber ==
  ASSUME NEW S \in SUBSET Nat, S # {}
  PROVE  \E i \in S : \A j \in S : i <= j
<1> DEFINE less == {ij \in Nat \X Nat : ij[1] < ij[2]}
<1>1. IsWellFoundedOn(less, Nat)
  BY NatLessThanWellFounded, Zenon DEF OpToRel
<1>2. \E i \in S : \A j \in S : ~ (<<j, i>> \in less)
  <2> HIDE DEF less
  <2> QED BY <1>1, WFMin, Zenon
<1>3. \A i, j \in S : <<j, i>> \in less <=> j < i
  OBVIOUS
<1>4. \E i \in S : \A j \in S : ~ (j < i)
  <2> HIDE DEF less
  <2> QED BY <1>2, <1>3, Zenon
<1> QED BY <1>4

LEMMA FirstIsMember ==
  ASSUME NEW set \in SUBSET Paths, set # {}
  PROVE  First(set) \in set
<1> DEFINE ranks == {Rank[p] : p \in set}
<1>1. ranks \in SUBSET Nat /\ ranks # {}
  BY WorkspaceAssumption
<1>2. PICK r \in ranks : \A s \in ranks : r <= s
  BY <1>1, LeastNumber, Zenon
<1>3. \E p \in set : \A q \in set : Rank[p] <= Rank[q]
  BY <1>2
<1> QED BY <1>3, Zenon DEF First

LEMMA TreeIsTyped ==
  ASSUME NEW tree \in Trees
  PROVE  /\ tree \in [Paths -> [kind : Kinds, bytes : Seq(Chunks), to : Paths \cup {NoPath}]]
         /\ \A p \in Paths : tree[p].kind = "symlink" => tree[p].to \in Paths
BY WorkspaceAssumption

LEMMA PutIsTyped ==
  ASSUME NEW bytes \in Bytes, NEW i \in Indexes, NEW chunk \in Chunks \cup {Torn}
  PROVE  Put(bytes, i, chunk) \in Bytes
<1>1. CASE i <= Len(bytes)
  <2>1. i \in 1..Len(bytes)
    BY <1>1 DEF Bytes, Indexes
  <2>2. [bytes EXCEPT ![i] = chunk] \in Seq(Chunks \cup {Torn})
    BY <2>1, ExceptSeq DEF Bytes
  <2> QED BY <1>1, <2>2 DEF Put, Bytes
<1>2. CASE ~(i <= Len(bytes))
  <2>1. Append(bytes, chunk) \in Seq(Chunks \cup {Torn})
    BY DEF Bytes
  <2> QED BY <1>2, <2>1 DEF Put, Bytes
<1> QED BY <1>1, <1>2

LEMMA SourceIsTyped ==
  ASSUME source \in Trees, NEW p \in Paths
  PROVE  SourceBytes(p) \in Seq(Chunks)
<1>1. (IF source[p].kind = "symlink" THEN source[p].to ELSE p) \in Paths
  BY TreeIsTyped
<1> QED BY <1>1, TreeIsTyped DEF SourceBytes

LEMMA WireFields ==
  ASSUME wire \in Message
  PROVE  /\ wire.type = "manifest" => wire.rev \in Nat /\ wire.tree \in Trees
         /\ wire.type = "diff" => wire.current \in Nat /\ wire.requested \in SUBSET Paths
         /\ wire.type = "plan" =>
              wire.path \in Paths /\ wire.number \in Numbers /\ wire.plan \in Seq(Chunks)
         /\ wire.type = "missing" => wire.missing \in SUBSET Indexes
         /\ wire.type = "chunk" =>
              wire.path \in Paths /\ wire.index \in Indexes /\ wire.bytes \in Chunks
BY DEF Message

LEMMA MarksAreMessages == Nothing \in Message /\ Closed \in Message
BY DEF Nothing, Closed, Message

-----------------------------------------------------------------------------
(* Type correctness.  A transfer's number stays below the number of paths
   because the client counts the files it has still to send. *)

NumberInv ==
  /\ client.pc \in {"idle", "diff"} => client.number = 0
  /\ client.pc \in {"plan", "missing", "send"} => client.todo # {}
  /\ client.number + Cardinality(client.todo) <= Cardinality(Paths)

ClientTyped ==
  client \in [pc : ClientPhases, rev : Nat, tree : Trees, todo : SUBSET Paths, number : Nat,
              plan : Seq(Chunks), missing : SUBSET Indexes]
NodeTyped ==
  node \in [pc : NodePhases, rev : Nat, tree : Trees, requested : SUBSET Paths,
            transfer : [Paths -> [open : BOOLEAN, at : Paths \cup {NoPath}, number : Numbers,
                                  got : SUBSET Indexes, plan : Seq(Chunks)]],
            left : SUBSET Paths]

LEMMA IdleIsTyped ==
  ASSUME NEW rev \in Nat
  PROVE  /\ ClientIdle(rev) \in [pc : ClientPhases, rev : Nat, tree : Trees, todo : SUBSET Paths,
                                 number : Nat, plan : Seq(Chunks), missing : SUBSET Indexes]
         /\ ClientIdle(rev).pc = "idle" /\ ClientIdle(rev).number = 0 /\ ClientIdle(rev).todo = {}
<1>1. NoTree \in Trees
  BY WorkspaceAssumption
<1>2. <<>> \in Seq(Chunks)
  OBVIOUS
<1> QED BY <1>1, <1>2 DEF ClientIdle, ClientPhases

LEMMA OffIsTyped ==
  /\ NodeOff \in [pc : NodePhases, rev : Nat, tree : Trees, requested : SUBSET Paths,
                  transfer : [Paths -> [open : BOOLEAN, at : Paths \cup {NoPath}, number : Numbers,
                                        got : SUBSET Indexes, plan : Seq(Chunks)]],
                  left : SUBSET Paths]
  /\ NodeOff.pc = "off"
<1>1. NoTree \in Trees /\ IsFiniteSet(Paths)
  BY WorkspaceAssumption
<1>2. 0 \in Numbers
  BY <1>1, FS_CardinalityType DEF Numbers
<1>3. NoTransfer \in [open : BOOLEAN, at : Paths \cup {NoPath}, number : Numbers,
                      got : SUBSET Indexes, plan : Seq(Chunks)]
  BY <1>2 DEF NoTransfer
<1> QED BY <1>1, <1>3 DEF NodeOff, NoTransfers, NodePhases

LEMMA PathCount ==
  /\ IsFiniteSet(Paths) /\ Cardinality(Paths) \in Nat
  /\ \A S \in SUBSET Paths : /\ Cardinality(S) \in Nat /\ Cardinality(S) <= Cardinality(Paths)
                             /\ S # {} => Cardinality(S) >= 1
                             /\ \A p \in S : Cardinality(S \ {p}) = Cardinality(S) - 1
<1>1. IsFiniteSet(Paths)
  BY WorkspaceAssumption
<1>2. ASSUME NEW S \in SUBSET Paths
      PROVE  /\ IsFiniteSet(S) /\ Cardinality(S) \in Nat /\ Cardinality(S) <= Cardinality(Paths)
             /\ S # {} => Cardinality(S) # 0
             /\ \A p \in S : Cardinality(S \ {p}) = Cardinality(S) - 1
  BY <1>1, FS_Subset, FS_CardinalityType, FS_EmptySet, FS_RemoveElement
<1> QED BY <1>1, <1>2, FS_CardinalityType

LEMMA IdleCounts ==
  ASSUME NEW rev \in Nat, client' = ClientIdle(rev)
  PROVE  ClientTyped' /\ NumberInv'
<1>1. 0 + Cardinality({}) <= Cardinality(Paths)
  BY PathCount, FS_EmptySet
<1> QED BY <1>1, IdleIsTyped DEF ClientTyped, NumberInv

(* What a step of the client leaves to show. *)
LEMMA ClientStepTyped ==
  ASSUME TypeOK, ClientTyped', NumberInv', wire' \in Message, source' = source,
         spoiled' \in BOOLEAN, bounds' = bounds, acked' \subseteq Trees,
         mirror' = mirror, staging' = staging, state' = state, node' = node,
         dirty' = dirty, doomed' \in BOOLEAN
  PROVE  TypeOK' /\ NumberInv'
BY DEF TypeOK, ClientTyped

LEMMA FailsTyped ==
  ASSUME TypeOK, ClientFails
  PROVE  ClientTyped' /\ NumberInv' /\ wire' \in Message
<1>1. client.rev \in Nat
  BY DEF TypeOK
<1>2. client' = ClientIdle(client.rev) /\ wire' = Closed
  BY DEF ClientFails
<1> QED BY <1>1, <1>2, IdleCounts, MarksAreMessages

LEMMA CurrentIsPath ==
  ASSUME TypeOK, client.todo # {}
  PROVE  /\ Current \in client.todo /\ Current \in Paths
         /\ SourceBytes(Current) \in Seq(Chunks)
         /\ client.tree[Current].bytes \in Seq(Chunks)
<1>1. Current \in client.todo /\ Current \in Paths
  BY FirstIsMember DEF Current, TypeOK
<1> QED BY <1>1, SourceIsTyped, TreeIsTyped DEF TypeOK

LEMMA ClientTypeStep ==
  ASSUME TypeOK, NumberInv, Client
  PROVE  TypeOK' /\ NumberInv'
<1> USE DEF nodeVars
<1>0. ClientTyped /\ wire \in Message /\ source \in Trees
  BY DEF TypeOK, ClientTyped
<1>1. CASE ClientStarts
  <2>1. ClientTyped' /\ NumberInv'
    BY <1>0, <1>1 DEF ClientStarts, ClientTyped, NumberInv, ClientPhases
  <2>2. wire' \in Message
    BY <1>0, <1>1 DEF ClientStarts, ClientTyped, Message
  <2> QED BY <1>1, <2>1, <2>2, ClientStepTyped DEF ClientStarts, TypeOK
<1>2. CASE ClientReadsDiff
  <2>1. wire.current \in Nat /\ wire.requested \in SUBSET Paths
    BY <1>0, <1>2, WireFields DEF ClientReadsDiff
  <2>2. CASE wire.accepted
    <3> DEFINE todo == {p \in wire.requested : client.tree[p].bytes # <<>>}
    <3>1. client' = [client EXCEPT !.pc = "check", !.todo = todo]
      BY <1>2, <2>2 DEF ClientReadsDiff
    <3>2. todo \in SUBSET Paths
      BY <2>1
    <3>3. Cardinality(todo) \in Nat /\ Cardinality(todo) <= Cardinality(Paths)
      BY <3>2, PathCount
    <3>4. client.number = 0
      BY <1>2 DEF ClientReadsDiff, NumberInv
    <3> HIDE DEF todo
    <3>5. ClientTyped'
      BY <1>0, <3>1, <3>2 DEF ClientTyped, ClientPhases
    <3>6. NumberInv'
      BY <1>0, <3>1, <3>2, <3>3, <3>4, PathCount DEF ClientTyped, NumberInv
    <3> QED BY <1>2, <3>5, <3>6, MarksAreMessages, ClientStepTyped DEF ClientReadsDiff, TypeOK
  <2>3. CASE ~wire.accepted
    <3>1. client' = ClientIdle(wire.current + 1) /\ wire.current + 1 \in Nat
      BY <1>2, <2>1, <2>3 DEF ClientReadsDiff
    <3> QED BY <1>2, <3>1, IdleCounts, MarksAreMessages, ClientStepTyped DEF ClientReadsDiff, TypeOK
  <2> QED BY <2>2, <2>3
<1>3. CASE ClientChecksFile
  <2>1. ClientTyped' /\ NumberInv' /\ wire' \in Message
    <3>1. CASE ClientFails
      BY <3>1, FailsTyped
    <3>2. CASE client' = [client EXCEPT !.pc = "plan", !.plan = <<>>] /\ UNCHANGED wire
      <4>1. <<>> \in Seq(Chunks)
        OBVIOUS
      <4> QED BY <1>0, <1>3, <3>2, <4>1 DEF ClientChecksFile, ClientTyped, NumberInv, ClientPhases
    <3> QED BY <1>3, <3>1, <3>2 DEF ClientChecksFile
  <2> QED BY <1>3, <2>1, ClientStepTyped DEF ClientChecksFile, TypeOK
<1>4. CASE ClientHashesChunk
  <2>1. ClientTyped' /\ NumberInv' /\ wire' \in Message
    <3>1. CASE ClientFails
      BY <3>1, FailsTyped
    <3>2. CASE ~ClientFails
      <4> DEFINE chunk == SourceBytes(Current)[Len(client.plan) + 1]
      <4>1. client.todo # {}
        BY <1>4 DEF ClientHashesChunk, NumberInv
      <4>2. Len(client.plan) < Len(SourceBytes(Current))
        BY <1>4, <3>2 DEF ClientHashesChunk
      <4>3. client' = [client EXCEPT !.plan = Append(client.plan, chunk)] /\ UNCHANGED wire
        BY <1>4, <3>2 DEF ClientHashesChunk
      <4>4. client.plan \in Seq(Chunks)
        BY <1>0 DEF ClientTyped
      <4>5. chunk \in Chunks
        BY <4>1, <4>2, <4>4, CurrentIsPath
      <4>6. Append(client.plan, chunk) \in Seq(Chunks)
        BY <4>4, <4>5
      <4> HIDE DEF chunk
      <4> QED BY <1>0, <1>4, <4>3, <4>6 DEF ClientTyped, NumberInv
    <3> QED BY <3>1, <3>2
  <2> QED BY <1>4, <2>1, ClientStepTyped DEF ClientHashesChunk, TypeOK
<1>5. CASE ClientSendsPlan
  <2>1. client.todo # {}
    BY <1>5 DEF ClientSendsPlan, NumberInv
  <2>2. Current \in Paths
    BY <2>1, CurrentIsPath
  <2>3. client.number \in Numbers
    BY <1>0, <2>1, PathCount DEF NumberInv, ClientTyped, Numbers
  <2>4. wire' \in Message
    BY <1>0, <1>5, <2>2, <2>3 DEF ClientSendsPlan, Message, ClientTyped
  <2>5. ClientTyped' /\ NumberInv'
    BY <1>0, <1>5 DEF ClientSendsPlan, ClientTyped, NumberInv, ClientPhases
  <2> QED BY <1>5, <2>4, <2>5, ClientStepTyped DEF ClientSendsPlan, TypeOK
<1>6. CASE ClientReadsMissing
  <2>1. wire.missing \in SUBSET Indexes
    BY <1>0, <1>6, WireFields DEF ClientReadsMissing
  <2>2. ClientTyped' /\ NumberInv'
    BY <1>0, <1>6, <2>1 DEF ClientReadsMissing, ClientTyped, NumberInv, ClientPhases
  <2> QED BY <1>6, <2>2, MarksAreMessages, ClientStepTyped DEF ClientReadsMissing, TypeOK
<1>7. CASE ClientSendsChunk
  <2>1. ClientTyped' /\ NumberInv' /\ wire' \in Message
    <3>1. CASE ClientFails
      BY <3>1, FailsTyped
    <3>2. CASE ~ClientFails
      <4> DEFINE i == CHOOSE i \in client.missing : \A j \in client.missing : i <= j
      <4>1. client.missing \in SUBSET Indexes /\ client.missing # {} /\ client.todo # {}
        BY <1>0, <1>7 DEF ClientSendsChunk, ClientTyped, NumberInv
      <4>2. client.missing \in SUBSET Nat
        BY <4>1 DEF Indexes
      <4>3. i \in client.missing
        BY <4>1, <4>2, LeastNumber, Zenon
      <4>4. /\ i <= Len(SourceBytes(Current))
            /\ client' = [client EXCEPT !.missing = @ \ {i}]
            /\ wire' = [type |-> "chunk", path |-> Current, index |-> i,
                        bytes |-> SourceBytes(Current)[i]]
        BY <1>7, <3>2 DEF ClientSendsChunk
      <4> HIDE DEF i
      <4>5. i \in Indexes
        BY <4>1, <4>3
      <4>6. SourceBytes(Current)[i] \in Chunks
        BY <4>1, <4>4, <4>5, CurrentIsPath DEF Indexes
      <4>7. wire' \in Message
        BY <4>1, <4>4, <4>5, <4>6, CurrentIsPath DEF Message
      <4>8. ClientTyped' /\ NumberInv'
        BY <1>0, <1>7, <4>4 DEF ClientSendsChunk, ClientTyped, NumberInv
      <4> QED BY <4>7, <4>8
    <3> QED BY <3>1, <3>2
  <2> QED BY <1>7, <2>1, ClientStepTyped DEF ClientSendsChunk, TypeOK
<1>8. CASE ClientEndsFile
  <2>1. client.todo # {}
    BY <1>8 DEF ClientEndsFile, NumberInv
  <2>2. Current \in client.todo /\ client.todo \in SUBSET Paths
    BY <1>0, <2>1, CurrentIsPath DEF ClientTyped
  <2>3. Cardinality(client.todo \ {Current}) = Cardinality(client.todo) - 1
    BY <2>2, PathCount
  <2>4. client' = [client EXCEPT !.pc = "check", !.todo = client.todo \ {Current},
                                 !.number = client.number + 1]
    BY <1>8 DEF ClientEndsFile
  <2>5. Cardinality(client.todo) \in Nat /\ client.number \in Nat
    BY <1>0, <2>2, PathCount DEF ClientTyped
  <2>6. ClientTyped'
    <3> DEFINE rest == client.todo \ {Current}
    <3>1. rest \in SUBSET Paths /\ client.number + 1 \in Nat
      BY <2>2, <2>5
    <3>2. client' = [client EXCEPT !.pc = "check", !.todo = rest, !.number = client.number + 1]
      BY <2>4
    <3> HIDE DEF rest
    <3> QED BY <1>0, <3>1, <3>2 DEF ClientTyped, ClientPhases
  <2>7. NumberInv'
    BY <1>0, <2>2, <2>3, <2>4, <2>5, PathCount DEF ClientTyped, NumberInv
  <2> QED BY <1>0, <1>8, <2>6, <2>7, ClientStepTyped DEF ClientEndsFile, TypeOK
<1>9. CASE ClientCommits
  <2>1. ClientTyped' /\ NumberInv'
    BY <1>0, <1>9 DEF ClientCommits, ClientTyped, NumberInv, ClientPhases
  <2>2. wire' \in Message
    BY <1>9 DEF ClientCommits, Message
  <2> QED BY <1>9, <2>1, <2>2, ClientStepTyped DEF ClientCommits, TypeOK
<1>10. CASE ClientReadsReply
  <2>1. \E rev \in Nat : client' = ClientIdle(rev)
    <3>1. client.rev \in Nat /\ client.rev + 1 \in Nat
      BY <1>0 DEF ClientTyped
    <3> QED BY <1>10, <3>1, Zenon DEF ClientReadsReply
  <2>2. acked' \subseteq Trees
    BY <1>0, <1>10 DEF ClientReadsReply, ClientTyped, TypeOK
  <2> QED BY <1>10, <2>1, <2>2, IdleCounts, MarksAreMessages, ClientStepTyped
          DEF ClientReadsReply, TypeOK
<1>11. CASE ClientSeesClose
  BY <1>11, FailsTyped, ClientStepTyped DEF ClientSeesClose, TypeOK
<1> QED BY <1>1, <1>2, <1>3, <1>4, <1>5, <1>6, <1>7, <1>8, <1>9, <1>10, <1>11 DEF Client

MirrorEntry == [kind : Kinds, bytes : Bytes, to : Paths \cup {NoPath}]

LEMMA EntriesTyped ==
  /\ Absent \in MirrorEntry /\ Directory \in MirrorEntry
  /\ \A bytes \in Bytes : File(bytes) \in MirrorEntry
  /\ \A tree \in Trees : \A p \in Paths : tree[p] \in MirrorEntry
<1>1. <<>> \in Bytes
  BY DEF Bytes
<1>2. ASSUME NEW bytes \in Seq(Chunks) PROVE bytes \in Bytes
  BY <1>2 DEF Bytes
<1>3. ASSUME NEW tree \in Trees, NEW p \in Paths PROVE tree[p] \in MirrorEntry
  <2>1. tree[p] \in [kind : Kinds, bytes : Seq(Chunks), to : Paths \cup {NoPath}]
    BY TreeIsTyped
  <2> QED BY <2>1, <1>2 DEF MirrorEntry
<1> QED BY <1>1, <1>3 DEF MirrorEntry, Absent, Directory, File, Entry, Kinds

LEMMA MirrorStepTyped ==
  ASSUME mirror \in [Paths -> MirrorEntry], staging \in [Transfers -> Bytes], NEW p
  PROVE  /\ WithParents(p) \in [Paths -> MirrorEntry]
         /\ RemoveAll(p) => mirror' \in [Paths -> MirrorEntry] /\ staging' \in [Transfers -> Bytes]
         /\ \A i \in Indexes : \A chunk \in Chunks \cup {Torn} :
              [staging EXCEPT ![p] = Put(@, i, chunk)] \in [Transfers -> Bytes]
         /\ [staging EXCEPT ![p] = <<>>] \in [Transfers -> Bytes]
<1>1. WithParents(p) \in [Paths -> MirrorEntry]
  BY EntriesTyped DEF WithParents
<1>2. <<>> \in Bytes
  BY DEF Bytes
<1>3. ASSUME RemoveAll(p)
      PROVE  mirror' \in [Paths -> MirrorEntry] /\ staging' \in [Transfers -> Bytes]
  BY <1>2, <1>3, EntriesTyped DEF RemoveAll
<1>4. ASSUME NEW i \in Indexes, NEW chunk \in Chunks \cup {Torn}
      PROVE  [staging EXCEPT ![p] = Put(@, i, chunk)] \in [Transfers -> Bytes]
  <2>1. p \in Transfers => Put(staging[p], i, chunk) \in Bytes
    BY PutIsTyped
  <2> QED BY <2>1
<1>5. [staging EXCEPT ![p] = <<>>] \in [Transfers -> Bytes]
  BY <1>2
<1> QED BY <1>1, <1>3, <1>4, <1>5

LEMMA WritesTyped ==
  ASSUME mirror \in [Paths -> MirrorEntry], staging \in [Transfers -> Bytes],
         wire.index \in Indexes, NEW chunk \in Chunks \cup {Torn}, Writes(chunk)
  PROVE  mirror' \in [Paths -> MirrorEntry] /\ staging' \in [Transfers -> Bytes]
<1> DEFINE t == <<Incoming.at, Incoming.number>>
<1>1. mirror' = WithParents(Incoming.at)
  BY DEF Writes
<1>2. staging' = [staging EXCEPT ![t] = Put(staging[t], wire.index, chunk)]
  BY DEF Writes
<1>3. mirror' \in [Paths -> MirrorEntry]
  BY <1>1, MirrorStepTyped
<1> HIDE DEF t
<1>4. t \in Transfers => Put(staging[t], wire.index, chunk) \in Bytes
  BY PutIsTyped
<1> QED BY <1>2, <1>3, <1>4

LEMMA NodeStepTyped ==
  ASSUME TypeOK, NumberInv, NodeTyped', wire' \in Message, source' = source, client' = client,
         bounds' = bounds, spoiled' = spoiled, acked' \subseteq Trees,
         mirror' \in [Paths -> MirrorEntry], staging' \in [Transfers -> Bytes],
         state' \in [rev : Nat, tree : Trees], dirty' \in BOOLEAN, doomed' \in BOOLEAN
  PROVE  TypeOK' /\ NumberInv'
BY DEF TypeOK, NumberInv, NodeTyped, MirrorEntry

LEMMA ThrowsTyped ==
  ASSUME NodeThrows
  PROVE  NodeTyped' /\ wire' \in Message
BY OffIsTyped, MarksAreMessages DEF NodeThrows, NodeTyped

LEMMA NodeTypeStep ==
  ASSUME TypeOK, NumberInv, Node
  PROVE  TypeOK' /\ NumberInv'
<1> USE DEF clientVars, commitVars
<1>0. /\ NodeTyped /\ wire \in Message /\ state \in [rev : Nat, tree : Trees]
      /\ mirror \in [Paths -> MirrorEntry] /\ staging \in [Transfers -> Bytes]
      /\ acked \subseteq Trees /\ dirty \in BOOLEAN /\ doomed \in BOOLEAN
  BY DEF TypeOK, NodeTyped, MirrorEntry
<1>1. CASE NodeBegins
  <2>1. wire.rev \in Nat /\ wire.tree \in Trees
    BY <1>0, <1>1, WireFields DEF NodeBegins
  <2>2. Requested(wire.tree) \in SUBSET Paths
    BY DEF Requested
  <2>3. doomed' \in BOOLEAN
    BY <1>1 DEF NodeBegins, InTheWay
  <2>4. NodeTyped' /\ wire' \in Message
    <3>1. CASE wire.rev # state.rev + 1
      <4>1. wire' = [type |-> "diff", accepted |-> FALSE, current |-> state.rev, requested |-> {}]
        BY <1>1, <3>1 DEF NodeBegins
      <4>2. NodeTyped'
        BY <1>0, <1>1, <3>1 DEF NodeBegins, NodeTyped
      <4> QED BY <1>0, <4>1, <4>2 DEF Message
    <3>2. CASE NodeThrows
      BY <3>2, ThrowsTyped
    <3>3. CASE wire.rev = state.rev + 1 /\ ~NodeThrows
      <4>1. node' = [NodeOff EXCEPT !.pc = "serving", !.rev = wire.rev, !.tree = wire.tree,
                       !.requested = Requested(wire.tree)]
        BY <1>1, <3>3 DEF NodeBegins
      <4>2. wire' = [type |-> "diff", accepted |-> TRUE, current |-> state.rev,
                     requested |-> Requested(wire.tree)]
        BY <1>1, <3>3 DEF NodeBegins
      <4>3. NodeTyped'
        BY <2>1, <2>2, <4>1, OffIsTyped DEF NodeTyped, NodePhases
      <4> QED BY <1>0, <2>2, <4>2, <4>3 DEF Message
    <3> QED BY <3>1, <3>2, <3>3
  <2> QED BY <1>0, <1>1, <2>3, <2>4, NodeStepTyped DEF NodeBegins
<1>2. CASE NodeAcceptsPlan
  <2> DEFINE at == Resolved(mirror, wire.path)
             got == Confirmed(wire.plan, staging[<<at, wire.number>>])
             opened == [open |-> TRUE, at |-> at, number |-> wire.number, got |-> got,
                        plan |-> wire.plan]
  <2>1. wire.path \in Paths /\ wire.number \in Numbers /\ wire.plan \in Seq(Chunks)
    BY <1>0, <1>2, WireFields DEF NodeAcceptsPlan
  <2>2. at \in Paths \cup {NoPath}
    BY <1>0, <2>1 DEF Resolved, MirrorEntry
  <2>3. got \in SUBSET Indexes /\ (1..Len(wire.plan)) \ got \in SUBSET Indexes
    BY <2>1 DEF Confirmed, Indexes
  <2>4. /\ node' = [node EXCEPT !.transfer[wire.path] = opened]
        /\ wire' = [type |-> "missing", missing |-> (1..Len(wire.plan)) \ got]
    BY <1>2 DEF NodeAcceptsPlan
  <2> HIDE DEF at, got
  <2>5. NodeTyped'
    BY <1>0, <2>1, <2>2, <2>3, <2>4 DEF NodeTyped
  <2>6. wire' \in Message
    BY <2>3, <2>4 DEF Message
  <2> QED BY <1>0, <1>2, <2>5, <2>6, NodeStepTyped DEF NodeAcceptsPlan
<1>3. CASE NodeAcceptsChunk
  <2>1. wire.path \in Paths /\ wire.index \in Indexes /\ wire.bytes \in Chunks
    BY <1>0, <1>3, WireFields DEF NodeAcceptsChunk
  <2>2. CASE Accepts
    <3>1. mirror' \in [Paths -> MirrorEntry] /\ staging' \in [Transfers -> Bytes]
      BY <1>0, <1>3, <2>1, <2>2, WritesTyped DEF NodeAcceptsChunk
    <3>2. NodeTyped'
      <4> DEFINE got == node.transfer[wire.path].got \cup {wire.index}
      <4>1. got \in SUBSET Indexes
        BY <1>0, <2>1 DEF NodeTyped
      <4> DEFINE transfer == [node.transfer EXCEPT ![wire.path].got = got]
      <4>2. node' = [node EXCEPT !.transfer = transfer]
        BY <1>3, <2>2 DEF NodeAcceptsChunk
      <4> HIDE DEF got
      <4>3. transfer \in [Paths -> [open : BOOLEAN, at : Paths \cup {NoPath}, number : Numbers,
                                    got : SUBSET Indexes, plan : Seq(Chunks)]]
        BY <1>0, <4>1, ZenonT(100) DEF NodeTyped
      <4> HIDE DEF transfer
      <4> QED BY <1>0, <4>2, <4>3 DEF NodeTyped
    <3> QED BY <1>0, <1>3, <2>2, <3>1, <3>2, MarksAreMessages, NodeStepTyped DEF NodeAcceptsChunk
  <2>3. CASE ~Accepts
    BY <1>0, <1>3, <2>3, ThrowsTyped, NodeStepTyped DEF NodeAcceptsChunk
  <2> QED BY <2>2, <2>3
<1>4. CASE NodeSeesClose
  BY <1>0, <1>4, ThrowsTyped, NodeStepTyped DEF NodeSeesClose
<1>5. CASE NodeReceivesCommit
  <2>1. NodeTyped'
    <3>1. Entries \in SUBSET Paths
      BY DEF Entries
    <3>2. CASE node' = [node EXCEPT !.pc = "prepare", !.left = Entries]
      BY <1>0, <3>1, <3>2 DEF NodeTyped, NodePhases
    <3>3. CASE node' = NodeOff
      BY <3>3, OffIsTyped DEF NodeTyped
    <3> QED BY <1>5, <3>2, <3>3 DEF NodeReceivesCommit
  <2>2. wire' \in Message
    <3>1. [type |-> "committed", accepted |-> FALSE] \in Message
      BY DEF Message
    <3> QED BY <1>5, <3>1, MarksAreMessages DEF NodeReceivesCommit
  <2> QED BY <1>0, <1>5, <2>1, <2>2, NodeStepTyped DEF NodeReceivesCommit
<1>6. ASSUME NEW p \in Paths, Treated(p)
      PROVE  NodeTyped' /\ wire' \in Message
  BY <1>0, <1>6 DEF Treated, NodeTyped
<1>7. ASSUME NEW p \in Paths, NodePrepares(p) PROVE TypeOK' /\ NumberInv'
  BY <1>0, <1>6, <1>7, ThrowsTyped, MirrorStepTyped, NodeStepTyped DEF NodePrepares
<1>8. ASSUME NEW p \in Paths, NodeMakesDirectory(p) PROVE TypeOK' /\ NumberInv'
  BY <1>0, <1>6, <1>8, EntriesTyped, MirrorStepTyped, NodeStepTyped DEF NodeMakesDirectory
<1>9. ASSUME NEW p \in Paths, NodeFinalizes(p) PROVE TypeOK' /\ NumberInv'
  <2> DEFINE t == <<node.transfer[p].at, node.transfer[p].number>>
  <2>1. CASE NodeThrows /\ UNCHANGED <<mirror, staging>>
    BY <1>0, <1>9, <2>1, ThrowsTyped, NodeStepTyped DEF NodeFinalizes
  <2>2. CASE /\ Whole(staging[t], p)
             /\ mirror' = [mirror EXCEPT ![node.transfer[p].at] = File(staging[t])]
             /\ staging' = [staging EXCEPT ![t] = <<>>]
             /\ Treated(p)
    <3>1. staging[t] \in Bytes
      <4>1. node.tree[p].bytes \in Bytes
        BY <1>0, EntriesTyped DEF NodeTyped, MirrorEntry
      <4> QED BY <2>2, <4>1 DEF Whole
    <3>2. mirror' \in [Paths -> MirrorEntry]
      BY <1>0, <2>2, <3>1, EntriesTyped
    <3>3. staging' \in [Transfers -> Bytes]
      BY <1>0, <2>2, MirrorStepTyped
    <3> QED BY <1>0, <1>6, <1>9, <2>2, <3>2, <3>3, NodeStepTyped DEF NodeFinalizes
  <2> QED BY <1>9, <2>1, <2>2 DEF NodeFinalizes
<1>10. ASSUME NEW p \in Paths, NodeMakesSmall(p) PROVE TypeOK' /\ NumberInv'
  <2>1. node.tree[p] \in MirrorEntry
    BY <1>0, EntriesTyped DEF NodeTyped
  <2> QED BY <1>0, <1>6, <1>10, <2>1, MirrorStepTyped, NodeStepTyped DEF NodeMakesSmall
<1>11. CASE NodeRemovesExtra
  BY <1>0, <1>11, MirrorStepTyped, NodeStepTyped DEF NodeRemovesExtra, NodeTyped
<1>12. CASE NodeRemovesLeftover
  BY <1>0, <1>12, MirrorStepTyped, NodeStepTyped DEF NodeRemovesLeftover, NodeTyped
<1>13. ASSUME NEW phase, NEW next \in NodePhases, NEW left \in SUBSET Paths,
              PhaseEnds(phase, next, left)
       PROVE  TypeOK' /\ NumberInv'
  <2>1. NodeTyped'
    BY <1>0, <1>13 DEF PhaseEnds, NodeTyped
  <2> QED BY <1>0, <1>13, <2>1, NodeStepTyped DEF PhaseEnds
<1>14. CASE NodePhaseEnds
  <2>1. /\ Directories \in SUBSET Paths /\ Opened \in SUBSET Paths /\ Small \in SUBSET Paths
        /\ {} \in SUBSET Paths
    BY DEF Directories, Opened, Small, Entries
  <2> QED BY <1>13, <1>14, <2>1 DEF NodePhaseEnds, NodePhases
<1>15. CASE NodeVerifies
  <2>1. NodeTyped' /\ wire' \in Message
    BY <1>0, <1>15, ThrowsTyped, ZenonT(60) DEF NodeVerifies, NodeTyped, NodePhases
  <2> QED BY <1>0, <1>15, <2>1, NodeStepTyped DEF NodeVerifies
<1>16. CASE NodeReplies
  <2>1. NodeTyped'
    BY <1>0, <1>16 DEF NodeReplies, NodeTyped, NodePhases
  <2>2. wire' \in Message
    BY <1>16, MarksAreMessages DEF NodeReplies, Message
  <2> QED BY <1>0, <1>16, <2>1, <2>2, NodeStepTyped DEF NodeReplies
<1>17. CASE NodeReplyFails
  BY <1>0, <1>17, ThrowsTyped, NodeStepTyped DEF NodeReplyFails
<1>18. CASE NodePersists
  <2>1. state' \in [rev : Nat, tree : Trees] /\ NodeTyped'
    BY <1>0, <1>18, OffIsTyped DEF NodePersists, NodeTyped
  <2> QED BY <1>0, <1>18, <2>1, NodeStepTyped DEF NodePersists
<1> QED
  BY <1>1, <1>2, <1>3, <1>4, <1>5, <1>7, <1>8, <1>9, <1>10, <1>11, <1>12, <1>14, <1>15,
     <1>16, <1>17, <1>18 DEF Node, Commit

LEMMA TypeInit ==
  ASSUME Init
  PROVE  TypeOK /\ NumberInv
<1>1. NoTree \in Trees /\ <<>> \in Bytes
  BY WorkspaceAssumption DEF Bytes
<1>2. mirror \in [Paths -> MirrorEntry]
  BY EntriesTyped DEF Init, NoTree
<1>3. staging \in [Transfers -> Bytes]
  BY <1>1 DEF Init, NoStaging
<1>4. client = ClientIdle(1) /\ node = NodeOff /\ wire = Nothing
  BY DEF Init
<1>5. NumberInv
  <2>1. client.pc = "idle" /\ client.number = 0 /\ client.todo = {}
    BY <1>4, IdleIsTyped
  <2> QED BY <2>1, PathCount, FS_EmptySet DEF NumberInv
<1>6. ClientTyped /\ NodeTyped /\ wire \in Message
  BY <1>4, IdleIsTyped, OffIsTyped, MarksAreMessages DEF ClientTyped, NodeTyped
<1>7. state \in [rev : Nat, tree : Trees] /\ bounds \in [edits : Nat, faults : Nat]
  BY <1>1 DEF Init
<1> QED BY <1>2, <1>3, <1>5, <1>6, <1>7
        DEF Init, TypeOK, MirrorEntry, ClientTyped, NodeTyped

LEMMA TypeStep ==
  ASSUME TypeOK, NumberInv, [Next]_vars
  PROVE  TypeOK' /\ NumberInv'
<1> USE DEF nodeVars
<1>1. CASE Client
  BY <1>1, ClientTypeStep
<1>2. CASE Node
  BY <1>2, NodeTypeStep
<1>3. CASE Edit
  BY <1>3 DEF Edit, TypeOK, NumberInv
<1>4. CASE Disconnect
  BY <1>4, MarksAreMessages DEF Disconnect, Fault, TypeOK, NumberInv
<1>5. CASE NodeDies
  <2>1. NodeTyped'
    BY <1>5, OffIsTyped DEF NodeDies, NodeTyped
  <2>2. wire' \in Message /\ bounds' \in [edits : Nat, faults : Nat]
    BY <1>5, MarksAreMessages, SMTT(60) DEF NodeDies, Fault, TypeOK
  <2> QED BY <1>5, <2>1, <2>2 DEF NodeDies, Fault, TypeOK, NumberInv, NodeTyped
<1>6. CASE NodeDiesWriting
  <2>1. wire.index \in Indexes
    BY <1>6, WireFields DEF NodeDiesWriting, TypeOK
  <2>2. mirror' \in [Paths -> MirrorEntry] /\ staging' \in [Transfers -> Bytes]
    BY <1>6, <2>1, WritesTyped DEF NodeDiesWriting, TypeOK, MirrorEntry
  <2>3. NodeTyped'
    BY <1>6, OffIsTyped DEF NodeDiesWriting, NodeTyped
  <2>4. wire' \in Message /\ bounds' \in [edits : Nat, faults : Nat]
    BY <1>6, MarksAreMessages DEF NodeDiesWriting, Fault, TypeOK
  <2> QED BY <1>6, <2>2, <2>3, <2>4
          DEF NodeDiesWriting, Fault, TypeOK, NumberInv, MirrorEntry, NodeTyped
<1>7. CASE UNCHANGED vars
  BY <1>7 DEF vars, TypeOK, NumberInv
<1> QED BY <1>1, <1>2, <1>3, <1>4, <1>5, <1>6, <1>7 DEF Next

(* The variables keep their types (every step of client and node). *)
THEOREM TypeCorrect == Spec => []TypeOK
<1>1. Init => TypeOK /\ NumberInv
  BY TypeInit
<1>2. TypeOK /\ NumberInv /\ [Next]_vars => TypeOK' /\ NumberInv'
  BY TypeStep
<1> QED BY <1>1, <1>2, PTL DEF Spec

-----------------------------------------------------------------------------
(* What the mirror shows.  A commit is dirty until its revision is recorded and
   voids what was acknowledged before; it replies when the mirror is the tree,
   and the tree is the one the client waits for. *)

Committing == {"prepare", "directories", "finalize", "small", "extras", "verify", "reply"}

CommitInv ==
  /\ node.pc \in Committing => dirty /\ acked = {}
  /\ node.pc = "persist" => dirty
  /\ node.pc \in {"reply", "persist"} => mirror = node.tree

SessionInv ==
  /\ wire.type = "manifest" => /\ node.pc = "off" /\ client.pc # "idle"
                              /\ wire.tree = client.tree
  /\ wire.type = "diff" /\ ~wire.accepted => node.pc = "off"
  /\ wire.type = "committed" => node.pc \in {"persist", "off"}
  /\ wire.type = "committed" /\ wire.accepted => FilesAndLinks(mirror) = FilesAndLinks(client.tree)
  /\ node.pc \in {"serving"} \cup Committing /\ wire # Closed =>
       client.pc # "idle" /\ client.tree = node.tree

MirrorInv ==
  CommitInv /\ SessionInv /\ NoTornFiles /\ StateIsMirrored /\ AcknowledgedIsMirrored

LEMMA KeptFiles ==
  ASSUME TypeOK, Accepts, NEW chunk, Writes(chunk)
  PROVE  FilesAndLinks(mirror') = FilesAndLinks(mirror)
         /\ \A p \in Paths : mirror'[p].kind = "file" => mirror'[p] = mirror[p]
<1>1. mirror' = WithParents(Incoming.at)
  BY DEF Writes
<1>2. ASSUME NEW p \in Paths, p \in Above[Incoming.at]
      PROVE  mirror[p].kind \in {"absent", "directory"} /\ mirror'[p] = Directory
  BY <1>1, <1>2 DEF Accepts, WithParents
<1>3. ASSUME NEW p \in Paths, p \notin Above[Incoming.at]
      PROVE  mirror'[p] = mirror[p]
  BY <1>1, <1>3 DEF WithParents
<1>4. Directory.kind = "directory"
  BY DEF Directory, Entry
<1> QED BY <1>2, <1>3, <1>4 DEF FilesAndLinks

LEMMA TreeContents ==
  ASSUME NEW tree \in Trees, NEW p \in Paths
  PROVE  tree[p].bytes \in Contents
BY DEF Contents

(* Steps that do not touch the mirror's files, outside a commit. *)
LEMMA CalmStep ==
  ASSUME MirrorInv, CommitInv', SessionInv',
         FilesAndLinks(mirror') = FilesAndLinks(mirror),
         \A p \in Paths : mirror'[p].kind = "file" => mirror'[p] = mirror[p],
         state' = state, dirty' = dirty, acked' = acked
  PROVE  MirrorInv'
BY DEF MirrorInv, NoTornFiles, StateIsMirrored, AcknowledgedIsMirrored

(* Steps of a commit, which may change everything but put whole files. *)
LEMMA CommitStep ==
  ASSUME MirrorInv, node.pc \in Committing, CommitInv', SessionInv', NoTornFiles',
         state' = state, dirty' = dirty, acked' = acked
  PROVE  MirrorInv'
BY DEF MirrorInv, CommitInv, StateIsMirrored, AcknowledgedIsMirrored

LEMMA ClientMirrorStep ==
  ASSUME TypeOK, MirrorInv, Client
  PROVE  MirrorInv'
<1> USE DEF nodeVars
<1>1. UNCHANGED <<mirror, state, dirty, node>>
  BY DEF Client, ClientStarts, ClientReadsDiff, ClientChecksFile, ClientHashesChunk,
         ClientSendsPlan, ClientReadsMissing, ClientSendsChunk, ClientEndsFile, ClientCommits,
         ClientReadsReply, ClientSeesClose
<1>2. CASE ClientReadsReply
  <2>1. node.pc \in {"persist", "off"}
    BY <1>2 DEF ClientReadsReply, MirrorInv, SessionInv
  <2>2. AcknowledgedIsMirrored'
    BY <1>1, <1>2 DEF ClientReadsReply, MirrorInv, SessionInv, AcknowledgedIsMirrored
  <2> QED BY <1>1, <1>2, <2>1, <2>2
          DEF ClientReadsReply, MirrorInv, CommitInv, SessionInv, NoTornFiles, StateIsMirrored,
              Nothing, Committing
<1>3. CASE acked' = acked /\ SessionInv'
  <2>1. CommitInv'
    BY <1>1, <1>3 DEF MirrorInv, CommitInv
  <2> QED BY <1>1, <1>3, <2>1, CalmStep
<1>4. ASSUME ClientFails PROVE SessionInv'
  BY <1>4 DEF ClientFails, SessionInv, Closed
<1>5. client \in [pc : ClientPhases, rev : Nat, tree : Trees, todo : SUBSET Paths, number : Nat,
                  plan : Seq(Chunks), missing : SUBSET Indexes]
  BY DEF TypeOK
<1>6. CASE ClientStarts
  BY <1>1, <1>3, <1>5, <1>6 DEF ClientStarts, SessionInv, MirrorInv, Committing, Closed
<1>7. CASE ClientReadsDiff
  <2>1. CASE wire.accepted
    BY <1>1, <1>3, <1>5, <1>7, <2>1 DEF ClientReadsDiff, SessionInv, MirrorInv, Nothing, Closed
  <2>2. CASE ~wire.accepted
    BY <1>1, <1>3, <1>7, <2>2 DEF ClientReadsDiff, SessionInv, MirrorInv, Nothing, Committing
  <2> QED BY <2>1, <2>2
<1>8. CASE ClientChecksFile
  BY <1>1, <1>3, <1>4, <1>5, <1>8 DEF ClientChecksFile, SessionInv, MirrorInv
<1>9. CASE ClientHashesChunk
  BY <1>1, <1>3, <1>4, <1>5, <1>9 DEF ClientHashesChunk, SessionInv, MirrorInv
<1>10. CASE ClientSendsPlan
  BY <1>1, <1>3, <1>5, <1>10 DEF ClientSendsPlan, SessionInv, MirrorInv, Nothing, Closed
<1>11. CASE ClientReadsMissing
  BY <1>1, <1>3, <1>5, <1>11 DEF ClientReadsMissing, SessionInv, MirrorInv, Nothing, Closed
<1>12. CASE ClientSendsChunk
  <2>1. CASE ClientFails
    BY <1>3, <1>4, <1>12, <2>1 DEF ClientSendsChunk
  <2>2. CASE ~ClientFails
    <3>1. wire'.type = "chunk" /\ client'.tree = client.tree /\ client'.pc = client.pc
      BY <1>5, <1>12, <2>2 DEF ClientSendsChunk
    <3>2. wire = Nothing /\ client.pc = "send" /\ acked' = acked
      BY <1>12 DEF ClientSendsChunk
    <3> QED BY <1>1, <1>3, <3>1, <3>2 DEF SessionInv, MirrorInv, Nothing, Closed
  <2> QED BY <2>1, <2>2
<1>13. CASE ClientEndsFile
  BY <1>1, <1>3, <1>5, <1>13 DEF ClientEndsFile, SessionInv, MirrorInv
<1>14. CASE ClientCommits
  BY <1>1, <1>3, <1>5, <1>14 DEF ClientCommits, SessionInv, MirrorInv, Nothing, Closed
<1>15. CASE ClientSeesClose
  BY <1>3, <1>4, <1>15 DEF ClientSeesClose
<1> QED BY <1>2, <1>6, <1>7, <1>8, <1>9, <1>10, <1>11, <1>12, <1>13, <1>14, <1>15 DEF Client

LEMMA ThrowMirrorStep ==
  ASSUME MirrorInv, NodeThrows
  PROVE  SessionInv' /\ CommitInv'
BY OffIsTyped DEF NodeThrows, SessionInv, CommitInv, Closed, Committing

LEMMA PhaseMirrorStep ==
  ASSUME TypeOK, MirrorInv, node.pc \in Committing, wire' = wire, client' = client,
         node' \in [pc : NodePhases, rev : Nat, tree : Trees, requested : SUBSET Paths,
                    transfer : [Paths -> [open : BOOLEAN, at : Paths \cup {NoPath},
                                          number : Numbers, got : SUBSET Indexes,
                                          plan : Seq(Chunks)]], left : SUBSET Paths],
         node'.pc \in Committing, node'.tree = node.tree,
         node'.pc = "reply" => mirror' = node.tree,
         state' = state, dirty' = dirty, acked' = acked, NoTornFiles'
  PROVE  MirrorInv'
<1>1. CommitInv'
  BY DEF MirrorInv, CommitInv, Committing
<1>2. wire.type # "committed"
  BY DEF MirrorInv, SessionInv, Committing
<1>3. SessionInv'
  BY <1>2 DEF MirrorInv, SessionInv, Committing
<1> QED BY <1>1, <1>3, CommitStep

LEMMA NodeMirrorStep ==
  ASSUME TypeOK, MirrorInv, Node, TypeOK'
  PROVE  MirrorInv'
<1> USE DEF clientVars, commitVars
<1>0. /\ NodeTyped /\ NodeTyped'
      /\ mirror \in [Paths -> MirrorEntry] /\ staging \in [Transfers -> Bytes]
  BY DEF TypeOK, NodeTyped, MirrorEntry
<1>1. ASSUME UNCHANGED <<mirror, state, dirty, acked>>, CommitInv', SessionInv'
      PROVE  MirrorInv'
  BY <1>1, CalmStep
<1>2. CASE NodeBegins
  <2>1. UNCHANGED <<mirror, state, dirty, acked, client>>
    BY <1>2 DEF NodeBegins
  <2>2. CASE NodeThrows
    BY <1>1, <2>1, <2>2, ThrowMirrorStep
  <2>3. CASE wire.rev # state.rev + 1
    <3>1. node' = node /\ node.pc = "off"
          /\ wire' = [type |-> "diff", accepted |-> FALSE, current |-> state.rev, requested |-> {}]
      BY <1>2, <2>3 DEF NodeBegins
    <3> QED BY <1>1, <2>1, <3>1 DEF MirrorInv, CommitInv, SessionInv, Committing
  <2>4. CASE wire.rev = state.rev + 1 /\ ~NodeThrows
    <3>1. node' = [NodeOff EXCEPT !.pc = "serving", !.rev = wire.rev, !.tree = wire.tree,
                     !.requested = Requested(wire.tree)]
          /\ wire' = [type |-> "diff", accepted |-> TRUE, current |-> state.rev,
                      requested |-> Requested(wire.tree)]
      BY <1>2, <2>4 DEF NodeBegins
    <3>2. node'.pc = "serving" /\ node'.tree = wire.tree
      BY <3>1, OffIsTyped
    <3>3. client.tree = wire.tree /\ client.pc # "idle"
      BY <1>2 DEF NodeBegins, MirrorInv, SessionInv
    <3> QED BY <1>1, <2>1, <3>1, <3>2, <3>3 DEF MirrorInv, CommitInv, SessionInv, Committing
  <2> QED BY <2>2, <2>3, <2>4
<1>3. CASE NodeAcceptsPlan
  <2>1. node'.pc = "serving" /\ node'.tree = node.tree /\ wire'.type = "missing" /\ wire # Closed
    BY <1>0, <1>3 DEF NodeAcceptsPlan, NodeTyped, Closed
  <2> QED BY <1>1, <1>3, <2>1 DEF NodeAcceptsPlan, MirrorInv, CommitInv, SessionInv, Committing
<1>4. CASE NodeAcceptsChunk
  <2>1. CASE Accepts
    <3>1. node'.pc = "serving" /\ node'.tree = node.tree /\ wire' = Nothing /\ wire # Closed
          /\ node.pc = "serving"
      BY <1>0, <1>4, <2>1 DEF NodeAcceptsChunk, NodeTyped, Closed
    <3>2. FilesAndLinks(mirror') = FilesAndLinks(mirror)
          /\ \A p \in Paths : mirror'[p].kind = "file" => mirror'[p] = mirror[p]
      BY <1>4, <2>1, KeptFiles DEF NodeAcceptsChunk
    <3>3. CommitInv' /\ SessionInv'
      BY <1>4, <3>1 DEF NodeAcceptsChunk, MirrorInv, CommitInv, SessionInv, Committing, Nothing
    <3> QED BY <1>4, <3>2, <3>3, CalmStep DEF NodeAcceptsChunk
  <2>2. CASE ~Accepts
    BY <1>1, <1>4, <2>2, ThrowMirrorStep DEF NodeAcceptsChunk
  <2> QED BY <2>1, <2>2
<1>5. CASE NodeSeesClose
  BY <1>1, <1>5, ThrowMirrorStep DEF NodeSeesClose
<1>6. CASE NodeReceivesCommit
  <2>1. CASE Complete
    <3>1. /\ node' = [node EXCEPT !.pc = "prepare", !.left = Entries]
          /\ wire' = Nothing /\ dirty' = TRUE /\ acked' = {}
          /\ wire.type = "commit" /\ node.pc = "serving"
          /\ UNCHANGED <<clientVars, mirror, state>>
      BY <1>6, <2>1 DEF NodeReceivesCommit
    <3>2. node'.pc = "prepare" /\ node'.tree = node.tree
      <4> HIDE DEF Entries
      <4> QED BY <1>0, <3>1 DEF NodeTyped
    <3>3. wire # Closed
      BY <3>1 DEF Closed
    <3>4. CommitInv'
      BY <3>1, <3>2 DEF MirrorInv, CommitInv
    <3>5. SessionInv'
      BY <3>1, <3>2, <3>3 DEF MirrorInv, SessionInv, Committing, Nothing, Closed
    <3>6. NoTornFiles' /\ StateIsMirrored' /\ AcknowledgedIsMirrored'
      BY <3>1 DEF MirrorInv, NoTornFiles, StateIsMirrored, AcknowledgedIsMirrored
    <3> QED BY <3>4, <3>5, <3>6 DEF MirrorInv
  <2>2. CASE ~Complete
    <3>1. node'.pc = "off" /\ wire' = [type |-> "committed", accepted |-> FALSE]
      BY <1>6, <2>2, OffIsTyped DEF NodeReceivesCommit
    <3> QED BY <1>1, <1>6, <2>2, <3>1
            DEF NodeReceivesCommit, MirrorInv, CommitInv, SessionInv, Committing
  <2> QED BY <2>1, <2>2
<1>7. ASSUME NEW phase \in Committing \ {"reply"}, NEW p \in Paths, Treats(phase, p), Treated(p),
             UNCHANGED commitVars, NoTornFiles'
      PROVE  MirrorInv'
  <2>1. node.pc = phase /\ node'.pc = phase /\ node'.tree = node.tree
    BY <1>0, <1>7 DEF Treats, Treated, NodeTyped
  <2> QED BY <1>0, <1>7, <2>1, PhaseMirrorStep DEF Treated, NodeTyped
<1>8. ASSUME NodeThrows, UNCHANGED <<mirror, commitVars>> PROVE MirrorInv'
  BY <1>1, <1>8, ThrowMirrorStep
<1>9. NoTornFiles
  BY DEF MirrorInv
<1>10. ASSUME NEW p, RemoveAll(p) PROVE NoTornFiles'
  BY <1>9, <1>10 DEF RemoveAll, NoTornFiles, Absent, Entry
<1>11. ASSUME NEW p \in Paths, NodePrepares(p) PROVE MirrorInv'
  <2>1. CASE NodeThrows /\ UNCHANGED <<mirror, staging>>
    BY <1>8, <1>11, <2>1 DEF NodePrepares
  <2>2. CASE Treated(p) /\ (RemoveAll(p) \/ UNCHANGED <<mirror, staging>>)
    <3>1. NoTornFiles'
      BY <1>9, <1>10, <2>2 DEF NoTornFiles
    <3> QED BY <1>7, <1>11, <2>2, <3>1 DEF NodePrepares, Committing
  <2> QED BY <1>11, <2>1, <2>2 DEF NodePrepares
<1>12. ASSUME NEW p \in Paths, NEW q \in Paths, NEW entry,
              mirror' = [WithParents(q) EXCEPT ![p] = entry],
              entry.kind = "file" => entry.bytes \in Contents
       PROVE  NoTornFiles'
  <2>1. Directory.kind = "directory"
    BY DEF Directory, Entry
  <2> QED BY <1>9, <1>12, <2>1 DEF NoTornFiles, WithParents
<1>13. ASSUME NEW p \in Paths, NodeMakesDirectory(p) PROVE MirrorInv'
  <2>1. NoTornFiles'
    BY <1>12, <1>13 DEF NodeMakesDirectory, Directory, Entry
  <2> QED BY <1>7, <1>13, <2>1 DEF NodeMakesDirectory, Committing
<1>14. ASSUME NEW p \in Paths, NodeFinalizes(p) PROVE MirrorInv'
  <2> DEFINE t == <<node.transfer[p].at, node.transfer[p].number>>
  <2>1. CASE NodeThrows /\ UNCHANGED <<mirror, staging>>
    BY <1>8, <1>14, <2>1 DEF NodeFinalizes
  <2>2. CASE /\ Whole(staging[t], p)
             /\ mirror' = [mirror EXCEPT ![node.transfer[p].at] = File(staging[t])]
             /\ Treated(p)
    <3>1. staging[t] \in Contents
      BY <1>0, <2>2, TreeContents DEF Whole, NodeTyped
    <3>2. File(staging[t]).bytes = staging[t]
      BY DEF File, Entry
    <3> HIDE DEF t
    <3>3. NoTornFiles'
      BY <1>0, <1>9, <2>2, <3>1, <3>2 DEF NoTornFiles
    <3> QED BY <1>7, <1>14, <2>2, <3>3 DEF NodeFinalizes, Committing
  <2> QED BY <1>14, <2>1, <2>2 DEF NodeFinalizes
<1>15. ASSUME NEW p \in Paths, NodeMakesSmall(p) PROVE MirrorInv'
  <2>1. node.tree[p].bytes \in Contents
    BY <1>0, TreeContents DEF NodeTyped
  <2>2. NoTornFiles'
    BY <1>12, <1>15, <2>1 DEF NodeMakesSmall
  <2> QED BY <1>7, <1>15, <2>2 DEF NodeMakesSmall, Committing
<1>16. CASE NodeRemovesExtra
  <2>1. NoTornFiles'
    BY <1>10, <1>16 DEF NodeRemovesExtra
  <2> QED BY <1>0, <1>16, <2>1, PhaseMirrorStep DEF NodeRemovesExtra, NodeTyped, Committing
<1>17. CASE NodeRemovesLeftover
  <2>1. NoTornFiles'
    BY <1>9, <1>17 DEF NodeRemovesLeftover, NoTornFiles
  <2> QED BY <1>0, <1>17, <2>1, PhaseMirrorStep DEF NodeRemovesLeftover, NodeTyped, Committing
<1>18. ASSUME NEW phase \in Committing \ {"reply"}, NEW next \in Committing \ {"reply"}, NEW left,
              PhaseEnds(phase, next, left)
       PROVE  MirrorInv'
  <2>1. node.pc = phase /\ node'.pc = next /\ node'.tree = node.tree
    BY <1>0, <1>18 DEF PhaseEnds, NodeTyped
  <2>2. NoTornFiles'
    BY <1>9, <1>18 DEF PhaseEnds, NoTornFiles
  <2> QED BY <1>0, <1>18, <2>1, <2>2, PhaseMirrorStep DEF PhaseEnds, NodeTyped
<1>19. CASE NodePhaseEnds
  BY <1>18, <1>19 DEF NodePhaseEnds, Committing
<1>20. CASE NodeVerifies
  <2>1. CASE mirror = node.tree /\ staging = NoStaging
    <3>1. node'.pc = "reply" /\ node'.tree = node.tree /\ node.pc = "verify"
      BY <1>0, <1>20, <2>1 DEF NodeVerifies, NodeTyped
    <3>2. NoTornFiles'
      BY <1>9, <1>20 DEF NodeVerifies, NoTornFiles
    <3> QED BY <1>0, <1>20, <2>1, <3>1, <3>2, PhaseMirrorStep
            DEF NodeVerifies, NodeTyped, Committing
  <2>2. CASE ~(mirror = node.tree /\ staging = NoStaging)
    BY <1>8, <1>20, <2>2 DEF NodeVerifies
  <2> QED BY <2>1, <2>2
<1>21. CASE NodeReplies
  <2>1. node.pc = "reply" /\ node'.pc = "persist" /\ node'.tree = node.tree
    BY <1>0, <1>21 DEF NodeReplies, NodeTyped
  <2>2. CommitInv'
    BY <1>21, <2>1 DEF NodeReplies, MirrorInv, CommitInv, Committing
  <2>3. CASE wire = Closed
    BY <1>1, <1>21, <2>1, <2>2, <2>3
       DEF NodeReplies, MirrorInv, SessionInv, Closed, Committing
  <2>4. CASE wire # Closed
    <3>1. client.tree = node.tree /\ mirror = node.tree
      BY <2>1, <2>4 DEF MirrorInv, CommitInv, SessionInv, Committing
    <3>2. SessionInv'
      BY <1>21, <2>1, <2>4, <3>1 DEF NodeReplies, SessionInv, Committing
    <3> QED BY <1>1, <1>21, <2>2, <3>2 DEF NodeReplies
  <2> QED BY <2>3, <2>4
<1>22. CASE NodeReplyFails
  BY <1>8, <1>22 DEF NodeReplyFails
<1>23. CASE NodePersists
  <2>1. node'.pc = "off" /\ state'.tree = node.tree /\ mirror = node.tree
    BY <1>23, OffIsTyped DEF NodePersists, MirrorInv, CommitInv
  <2>2. CommitInv' /\ SessionInv'
    BY <1>23, <2>1 DEF NodePersists, MirrorInv, CommitInv, SessionInv, Committing
  <2> QED BY <1>23, <2>1, <2>2
          DEF NodePersists, MirrorInv, NoTornFiles, StateIsMirrored, AcknowledgedIsMirrored
<1> QED
  BY <1>2, <1>3, <1>4, <1>5, <1>6, <1>11, <1>13, <1>14, <1>15, <1>16, <1>17, <1>19, <1>20,
     <1>21, <1>22, <1>23 DEF Node, Commit

LEMMA MirrorInit ==
  ASSUME Init
  PROVE  MirrorInv
<1>1. mirror = NoTree /\ state.tree = NoTree /\ acked = {} /\ wire = Nothing /\ node = NodeOff
  BY DEF Init
<1>2. \A p \in Paths : NoTree[p].kind = "absent"
  BY DEF NoTree, Absent, Entry
<1>3. CommitInv /\ SessionInv
  BY <1>1, OffIsTyped DEF CommitInv, SessionInv, Nothing, Committing
<1> QED BY <1>1, <1>2, <1>3 DEF MirrorInv, NoTornFiles, StateIsMirrored, AcknowledgedIsMirrored

LEMMA MirrorStep ==
  ASSUME TypeOK, MirrorInv, [Next]_vars, TypeOK'
  PROVE  MirrorInv'
<1> USE DEF nodeVars
<1>1. ASSUME UNCHANGED <<client, state, dirty, acked>>, node' = NodeOff, wire' = Closed,
             FilesAndLinks(mirror') = FilesAndLinks(mirror),
             \A p \in Paths : mirror'[p].kind = "file" => mirror'[p] = mirror[p]
      PROVE  MirrorInv'
  <2>1. CommitInv' /\ SessionInv'
    BY <1>1, OffIsTyped DEF CommitInv, SessionInv, Closed, Committing
  <2> QED BY <1>1, <2>1, CalmStep
<1>2. CASE Client
  BY <1>2, ClientMirrorStep
<1>3. CASE Node
  BY <1>3, NodeMirrorStep
<1>4. CASE Edit
  <2>1. CommitInv' /\ SessionInv'
    BY <1>4 DEF Edit, MirrorInv, CommitInv, SessionInv
  <2> QED BY <1>4, <2>1, CalmStep DEF Edit
<1>5. CASE Disconnect
  <2>1. CommitInv' /\ SessionInv'
    BY <1>5 DEF Disconnect, Fault, MirrorInv, CommitInv, SessionInv, Closed
  <2> QED BY <1>5, <2>1, CalmStep DEF Disconnect
<1>6. CASE NodeDies
  BY <1>1, <1>6 DEF NodeDies, Fault
<1>7. CASE NodeDiesWriting
  BY <1>1, <1>7, KeptFiles DEF NodeDiesWriting, Fault
<1>8. CASE UNCHANGED vars
  <2>1. CommitInv' /\ SessionInv'
    BY <1>8 DEF vars, MirrorInv, CommitInv, SessionInv
  <2> QED BY <1>8, <2>1, CalmStep DEF vars
<1> QED BY <1>2, <1>3, <1>4, <1>5, <1>6, <1>7, <1>8 DEF Next

(* The mirror, its state file and what the client was told agree as long as no
   commit is under way (commit, persist, serve_workspace_sync). *)
THEOREM MirrorCorrect == Spec => []MirrorInv
<1>1. Init => MirrorInv
  BY MirrorInit
<1>2. TypeOK /\ TypeOK' /\ MirrorInv /\ [Next]_vars => MirrorInv'
  BY MirrorStep
<1> QED BY <1>1, <1>2, TypeCorrect, PTL DEF Spec

(* However transfers and commits are interrupted, each file of the mirror is a
   whole file of a source (FileTransfer::finalize, commit). *)
THEOREM WholeFiles == Spec => []NoTornFiles
<1>1. MirrorInv => NoTornFiles
  BY DEF MirrorInv
<1> QED BY <1>1, MirrorCorrect, PTL

(* Unless a commit has begun since, the files and links of the mirror are those
   of the revision that the state file names (commit, persist). *)
THEOREM RecordedIsMirrored == Spec => []StateIsMirrored
<1>1. MirrorInv => StateIsMirrored
  BY DEF MirrorInv
<1> QED BY <1>1, MirrorCorrect, PTL

(* The files and links the client was told are committed stay until another
   commit begins, even if the node dies before it writes its state
   (serve_workspace_sync). *)
THEOREM AcknowledgedKept == Spec => []AcknowledgedIsMirrored
<1>1. MirrorInv => AcknowledgedIsMirrored
  BY DEF MirrorInv
<1> QED BY <1>1, MirrorCorrect, PTL

-----------------------------------------------------------------------------
(* Why a sync that nothing disturbs commits.  The ground: the mirror and the
   staging files are trees, and a link of the mirror is one of some source. *)

Rooted(p) == \A q \in Above[p] : mirror[q].kind = "directory"
GroundInv ==
  /\ \A p \in Paths :
       /\ mirror[p].kind = "absent" => mirror[p] = Absent
       /\ mirror[p].kind = "directory" => mirror[p] = Directory
       /\ mirror[p].kind = "symlink" => \E tree \in Trees : mirror[p] = tree[p]
       /\ mirror[p].kind # "absent" => Rooted(p)
  /\ \A p \in Paths : \A n \in Numbers : staging[<<p, n>>] # <<>> => Rooted(p)

(* The files the node waits for, and the staging file of the transfer of one. *)
Due == Wanted(node.tree, node.requested)
Staged(p) == staging[<<node.transfer[p].at, node.transfer[p].number>>]
IsTarget(p) == p \in Paths /\ Above[p] = {} /\ \A tree \in Trees : tree[p].kind # "symlink"

(* What is open is wanted, in the order of the manifest, each under its number. *)
TransferInv ==
  /\ node.pc = "off" => Opened = {}
  /\ \A p \in node.requested : node.tree[p].kind = "file"
  /\ \A p \in Opened :
       /\ p \in Due
       /\ node.transfer[p].number = Number(p, Due)
       /\ Len(node.transfer[p].plan) = Len(node.tree[p].bytes)
       /\ node.transfer[p].got \subseteq 1..Len(node.transfer[p].plan)
       /\ node.transfer[p].at = p \/ IsTarget(node.transfer[p].at)
       /\ \A q \in Due : Rank[q] < Rank[p] => q \in Opened

(* While the node serves, a staging file holds the chunks that were got, and a
   transfer that goes elsewhere goes where a link leads. *)
Holds(p) ==
  \A i \in node.transfer[p].got :
    i <= Len(Staged(p)) /\ Staged(p)[i] = node.transfer[p].plan[i]
ServingInv ==
  node.pc = "serving" =>
    \A p \in Opened :
      /\ Holds(p)
      /\ node.transfer[p].at # p =>
           mirror[p].kind = "symlink" /\ node.transfer[p].at = mirror[p].to

(* The commit: what each phase has done so far. *)
Past(phase, phases, p) ==
  \/ node.pc \in phases
  \/ node.pc = phase /\ p \notin node.left
PhaseInv ==
  /\ node.pc \in Committing => Complete
  /\ node.pc = "prepare" => \A p, q \in Entries : p \in node.left /\ Rank[p] < Rank[q] => q \in node.left
  /\ node.pc = "prepare" => node.left \subseteq Entries
  /\ node.pc = "directories" => node.left \subseteq Directories
  /\ node.pc = "finalize" => node.left \subseteq Opened
  /\ node.pc = "small" => node.left \subseteq Small
  /\ \A p \in Entries : Past("prepare", {"directories", "finalize", "small"}, p) =>
       mirror[p].kind \in {"absent", node.tree[p].kind}
  /\ \A p \in Directories : Past("directories", {"finalize", "small", "extras", "verify"}, p) =>
       mirror[p].kind = "directory"
  /\ node.pc = "verify" => Extras = {} /\ Leftovers = {}

(* A sync that began with nothing in its way: no transfer leaves its path, no
   staging file is too long, and each phase makes its entries those of the tree. *)
SmoothInv ==
  ~doomed /\ node.pc # "off" =>
    /\ \A p \in Opened : node.transfer[p].at = p
    /\ node.pc = "serving" =>
         \A p \in Due \ Opened : mirror[p].kind = "symlink" =>
           /\ mirror[mirror[p].to].kind = "absent"
           /\ \A q \in Due : Rank[q] < Rank[p] => mirror[p].to \notin Above[q]
    /\ node.pc \in {"serving", "prepare"} =>
         \A p \in Due : \A q \in Above[p] : mirror[q].kind \in {"absent", "directory"}
    /\ \A p \in Entries : node.tree[p].kind = "file" /\ p \notin node.requested => mirror[p] = node.tree[p]
    /\ \A p \in Due :
         \/ node.pc \in {"serving", "prepare", "directories"}
         \/ node.pc = "finalize" /\ p \in node.left
         => /\ Len(staging[<<p, Number(p, Due)>>]) <= Len(node.tree[p].bytes)
            /\ p \in Opened => Holds(p)
    /\ \A p \in Due : Past("finalize", {"small", "extras", "verify"}, p) => mirror[p] = node.tree[p]
    /\ \A p \in Small : Past("small", {"extras", "verify"}, p) => mirror[p] = node.tree[p]

(* A sync that did not: one of its files never gets all its chunks, or gets them
   where a link leads, or has a staging file that is not the file. *)
Blocked(p) ==
  node.pc = "serving" /\ \E q \in Above[p] : mirror[q].kind = "file"
Misled(p) ==
  \/ /\ node.pc = "serving" /\ mirror[p].kind = "symlink"
     /\ IF p \in Opened THEN node.transfer[p].at # p ELSE Leads(p, Due)
  \/ /\ node.pc \in Committing \ {"reply"}
     /\ \E tree \in Trees : tree[p].kind = "symlink"
     /\ node.transfer[p].at # p /\ mirror[p].kind # "file"
TooLong(p) ==
  LET bytes == staging[<<p, Number(p, Due)>>] IN
  /\ p \in Opened => node.transfer[p].at = p
  /\ \/ Len(bytes) > Len(node.tree[p].bytes)
     \/ node.pc # "serving" /\ bytes = <<>>
  /\ \/ node.pc \in {"serving", "prepare", "directories"}
     \/ node.pc = "finalize" /\ p \in node.left
DoomInv ==
  doomed /\ node.pc # "off" => \E p \in Due : Blocked(p) \/ Misled(p) \/ TooLong(p)

(* Client and node agree on what was sent. *)
OnWire(p) == IF wire.type = "chunk" /\ wire.path = p THEN {wire.index} ELSE {}
Accounted(p) ==
  /\ node.transfer[p].open
  /\ node.transfer[p].got \cup OnWire(p) = 1..Len(node.transfer[p].plan)
Turns ==
  /\ wire.type \in {"manifest", "diff"} => client.pc = "diff"
  /\ wire.type \in {"plan", "missing"} => client.pc = "missing"
  /\ wire.type = "chunk" => client.pc \in {"send", "check", "plan"}
  /\ wire.type \in {"commit", "committed"} => client.pc = "committed"
  /\ wire.type = "none" => client.pc \in {"idle", "check", "plan", "send", "committed"}
TodoInv ==
  /\ node.pc = "serving" /\ client.tree = node.tree
  /\ client.todo \subseteq Due
  /\ \A p \in client.todo : \A q \in Due : Rank[p] < Rank[q] => q \in client.todo
  /\ client.number = Cardinality(Due \ client.todo)
  /\ \A p \in Due \ client.todo : Accounted(p)
  /\ \A p \in client.todo :
       node.transfer[p].open => p = Current /\ (wire.type = "missing" \/ client.pc = "send")
FileInv ==
  /\ client.pc = "plan" => Len(client.plan) <= Size
  /\ client.pc \in {"missing", "send"} => Len(client.plan) = Size
  /\ wire.type = "plan" =>
       wire.path = Current /\ wire.number = client.number /\ wire.plan = client.plan
  /\ wire.type = "missing" \/ client.pc = "send" =>
       node.transfer[Current].open /\ node.transfer[Current].plan = client.plan
  /\ wire.type = "missing" => wire.missing = (1..Size) \ node.transfer[Current].got
  /\ client.pc = "send" =>
       client.missing = (1..Size) \ (node.transfer[Current].got \cup OnWire(Current))
ChunkInv ==
  wire.type = "chunk" =>
    /\ node.pc = "serving" /\ wire.path \in Opened
    /\ wire.index \in 1..Len(node.transfer[wire.path].plan)
    /\ \A j \in 1..(wire.index - 1) : j \in node.transfer[wire.path].got
    /\ client.pc = "send" => wire.path = Current /\ \A j \in client.missing : wire.index < j
    /\ client.pc # "send" => wire.path \notin client.todo
EndsInv ==
  /\ client.pc = "idle" => node.pc \in {"off", "persist"}
  /\ wire.type = "diff" /\ wire.accepted =>
       node.pc = "serving" /\ wire.requested = node.requested /\ Opened = {}
  /\ wire.type = "commit" => node.pc = "serving" /\ Complete
  /\ client.pc = "committed" /\ wire = Nothing => node.pc \in Committing
  /\ wire.type = "committed" => wire.accepted
WireInv ==
  wire # Closed =>
    /\ Turns /\ EndsInv /\ ChunkInv
    /\ client.pc \in {"check", "plan", "missing", "send"} => TodoInv
    /\ client.pc \in {"plan", "missing", "send"} => FileInv

(* Without an edit, what is sent is the tree. *)
HonestInv ==
  ~spoiled =>
    /\ client.pc # "idle" => source = client.tree
    /\ \A p \in Opened : node.transfer[p].plan = node.tree[p].bytes
    /\ client.pc \in {"plan", "missing", "send"} /\ wire # Closed =>
         \A i \in 1..Len(client.plan) : client.plan[i] = client.tree[Current].bytes[i]
    /\ wire.type = "chunk" => wire.bytes = node.transfer[wire.path].plan[wire.index]

CommitsInv ==
  /\ GroundInv /\ TransferInv /\ ServingInv /\ PhaseInv /\ SmoothInv /\ DoomInv
  /\ WireInv /\ HonestInv /\ UndisturbedCommits

-----------------------------------------------------------------------------
(* What the proof needs of the data. *)

LEMMA FirstIsLeast ==
  ASSUME NEW set \in SUBSET Paths, set # {}
  PROVE  First(set) \in set /\ \A q \in set : Rank[First(set)] <= Rank[q]
<1> DEFINE ranks == {Rank[p] : p \in set}
<1>1. ranks \in SUBSET Nat /\ ranks # {}
  BY WorkspaceAssumption
<1>2. PICK r \in ranks : \A s \in ranks : r <= s
  BY <1>1, LeastNumber, Zenon
<1>3. \E p \in set : \A q \in set : Rank[p] <= Rank[q]
  BY <1>2
<1> QED BY <1>3, Zenon DEF First

LEMMA RankFacts ==
  /\ \A p \in Paths : Rank[p] \in Nat
  /\ \A p, q \in Paths : p # q => Rank[p] < Rank[q] \/ Rank[q] < Rank[p]
<1>1. Rank \in [Paths -> Nat] /\ \A p, q \in Paths : p # q => Rank[p] # Rank[q]
  BY WorkspaceAssumption
<1> QED BY <1>1

LEMMA AboveFacts ==
  ASSUME NEW p \in Paths
  PROVE  /\ Above[p] \subseteq Paths /\ p \notin Above[p]
         /\ \A q \in Above[p] : Rank[q] < Rank[p] /\ Above[q] \subseteq Above[p]
<1>1. /\ Above \in [Paths -> SUBSET Paths] /\ Rank \in [Paths -> Nat]
      /\ \A q \in Paths : \A r \in Above[q] : Rank[r] < Rank[q] /\ Above[r] \subseteq Above[q]
  BY WorkspaceAssumption
<1> QED BY <1>1

LEMMA TreeFacts ==
  ASSUME NEW tree \in Trees, NEW p \in Paths
  PROVE  /\ tree[p].kind \in Kinds /\ tree[p].bytes \in Seq(Chunks)
         /\ tree[p].kind # "file" => tree[p].bytes = <<>>
         /\ tree[p].kind = "symlink" => IsTarget(tree[p].to)
         /\ tree[p].kind # "absent" => \A q \in Above[p] : tree[q].kind = "directory"
         /\ tree[p].kind = "absent" => tree[p] = Absent
         /\ tree[p].kind = "directory" => tree[p] = Directory
         /\ tree[p].kind = "file" => tree[p] = File(tree[p].bytes)
<1>1. tree[p] \in [kind : Kinds, bytes : Seq(Chunks), to : Paths \cup {NoPath}]
  BY TreeIsTyped
<1>2. /\ tree[p].kind # "file" => tree[p].bytes = <<>>
      /\ IF tree[p].kind = "symlink"
         THEN /\ tree[p].to \in Paths /\ Above[tree[p].to] = {}
              /\ \A other \in Trees : other[tree[p].to].kind # "symlink"
         ELSE tree[p].to = NoPath
      /\ tree[p].kind # "absent" => \A q \in Above[p] : tree[q].kind = "directory"
  BY WorkspaceAssumption
<1>3. tree[p] = [kind |-> tree[p].kind, bytes |-> tree[p].bytes, to |-> tree[p].to]
  BY <1>1
<1>4. /\ tree[p].kind = "absent" => tree[p] = Absent
      /\ tree[p].kind = "directory" => tree[p] = Directory
      /\ tree[p].kind = "file" => tree[p] = File(tree[p].bytes)
  BY <1>2, <1>3 DEF Absent, Directory, File, Entry
<1> QED BY <1>1, <1>2, <1>4 DEF IsTarget

LEMMA EntryFacts ==
  /\ Absent.kind = "absent" /\ Directory.kind = "directory"
  /\ \A bytes : File(bytes).kind = "file" /\ File(bytes).bytes = bytes
BY DEF Absent, Directory, File, Entry

(* The files wanted before one are as many as its number: it names one file. *)
LEMMA NumberFacts ==
  ASSUME NEW S \in SUBSET Paths
  PROVE  /\ \A p \in Paths : Number(p, S) \in Numbers
         /\ \A p, q \in S : p # q => Number(p, S) # Number(q, S)
<1> DEFINE before(p) == {q \in S : Rank[q] < Rank[p]}
<1>1. ASSUME NEW p \in S, NEW q \in S, Rank[p] < Rank[q] PROVE Number(p, S) < Number(q, S)
  <2>1. before(p) \subseteq before(q) \ {p} /\ p \in before(q) /\ before(q) \in SUBSET Paths
    BY <1>1, RankFacts
  <2>2. /\ IsFiniteSet(before(q) \ {p}) /\ Cardinality(before(q)) \in Nat
        /\ Cardinality(before(q) \ {p}) = Cardinality(before(q)) - 1
    BY <2>1, PathCount, FS_Subset
  <2>3. Cardinality(before(p)) <= Cardinality(before(q) \ {p}) /\ Cardinality(before(p)) \in Nat
    BY <2>1, <2>2, FS_Subset, FS_CardinalityType
  <2> QED BY <2>2, <2>3 DEF Number
<1>2. ASSUME NEW p \in S, NEW q \in S, p # q PROVE Number(p, S) # Number(q, S)
  <2>1. Number(p, S) \in Nat /\ Number(q, S) \in Nat
    BY PathCount DEF Number
  <2> QED BY <1>1, <1>2, <2>1, RankFacts
<1>3. ASSUME NEW p \in Paths PROVE Number(p, S) \in Numbers
  <2>1. before(p) \in SUBSET Paths
    OBVIOUS
  <2> QED BY <2>1, PathCount DEF Number, Numbers
<1> QED BY <1>2, <1>3

(* When the files still to send are the last ones, the number of the first of
   them is how many were sent. *)
LEMMA NumberOfFirst ==
  ASSUME NEW S \in SUBSET Paths, NEW todo \in SUBSET S, todo # {},
         \A p \in todo : \A q \in S : Rank[p] < Rank[q] => q \in todo
  PROVE  Number(First(todo), S) = Cardinality(S \ todo)
<1>1. First(todo) \in todo /\ \A q \in todo : Rank[First(todo)] <= Rank[q]
  BY FirstIsLeast
<1>2. {q \in S : Rank[q] < Rank[First(todo)]} = S \ todo
  <2>1. ASSUME NEW q \in S, Rank[q] < Rank[First(todo)] PROVE q \notin todo
    BY <1>1, <2>1, RankFacts
  <2>2. ASSUME NEW q \in S \ todo PROVE Rank[q] < Rank[First(todo)]
    BY <1>1, <2>2, RankFacts
  <2> QED BY <2>1, <2>2
<1> QED BY <1>2 DEF Number

(* Writing the next chunk, or one that is there, of a staging file. *)
LEMMA PutFacts ==
  ASSUME NEW bytes \in Bytes, NEW i \in Indexes, NEW chunk
  PROVE  LET put == Put(bytes, i, chunk) IN
         /\ put # <<>> /\ Len(put) >= Len(bytes)
         /\ i <= Len(bytes) => Len(put) = Len(bytes)
         /\ i - 1 <= Len(bytes) => /\ i <= Len(put) /\ put[i] = chunk
                                   /\ i > Len(bytes) => Len(put) = i
         /\ \A j \in 1..Len(bytes) : j # i => put[j] = bytes[j]
<1>1. bytes \in Seq(Chunks \cup {Torn}) /\ Len(bytes) \in Nat /\ i \in Nat /\ i >= 1
  BY DEF Bytes, Indexes
<1>2. CASE i <= Len(bytes)
  <2>1. Put(bytes, i, chunk) = [bytes EXCEPT ![i] = chunk]
    BY <1>2 DEF Put
  <2>2. /\ Len([bytes EXCEPT ![i] = chunk]) = Len(bytes)
        /\ \A j \in 1..Len(bytes) : [bytes EXCEPT ![i] = chunk][j] = IF j = i THEN chunk ELSE bytes[j]
    BY <1>1, <1>2
  <2>3. [bytes EXCEPT ![i] = chunk] # <<>> /\ i \in 1..Len(bytes)
    BY <1>1, <1>2, <2>2
  <2>4. [bytes EXCEPT ![i] = chunk][i] = chunk
    BY <2>2, <2>3
  <2> DEFINE put == [bytes EXCEPT ![i] = chunk]
  <2> HIDE DEF put
  <2>5. /\ Put(bytes, i, chunk) = put /\ put # <<>> /\ Len(put) = Len(bytes) /\ put[i] = chunk
        /\ \A j \in 1..Len(bytes) : j # i => put[j] = bytes[j]
    BY <2>1, <2>2, <2>3, <2>4 DEF put
  <2> QED BY <1>1, <1>2, <2>5
<1>3. CASE ~(i <= Len(bytes))
  <2>1. Put(bytes, i, chunk) = Append(bytes, chunk)
    BY <1>3 DEF Put
  <2>2. /\ Len(Append(bytes, chunk)) = Len(bytes) + 1
        /\ Append(bytes, chunk)[Len(bytes) + 1] = chunk
        /\ \A j \in 1..Len(bytes) : Append(bytes, chunk)[j] = bytes[j]
        /\ Append(bytes, chunk) # <<>>
    BY <1>1
  <2> QED BY <1>1, <1>3, <2>1, <2>2
<1> QED BY <1>2, <1>3

LEMMA ParentsFacts ==
  ASSUME NEW p
  PROVE  \A q \in Paths : WithParents(p)[q] = IF q \in Above[p] THEN Directory ELSE mirror[q]
BY DEF WithParents

-----------------------------------------------------------------------------
(* The steps that change the mirror keep it a tree. *)

LEMMA GroundWrites ==
  ASSUME TypeOK, GroundInv, NEW at \in Paths, NEW n \in Numbers, NEW bytes,
         mirror' = WithParents(at), staging' = [staging EXCEPT ![<<at, n>>] = bytes]
  PROVE  GroundInv'
<1>1. \A q \in Paths : mirror'[q] = IF q \in Above[at] THEN Directory ELSE mirror[q]
  BY ParentsFacts
<1>2. \A q \in Paths : mirror[q].kind = "directory" => mirror'[q].kind = "directory"
  BY <1>1, EntryFacts
<1>3. ASSUME NEW p \in Paths, Rooted(p) PROVE Rooted(p)'
  BY <1>2, <1>3, AboveFacts DEF Rooted
<1>4. ASSUME NEW p \in Paths, p = at \/ p \in Above[at] PROVE Rooted(p)'
  <2>1. Above[p] \subseteq Above[at] /\ Above[p] \subseteq Paths
    BY <1>4, AboveFacts
  <2> QED BY <1>1, <2>1, EntryFacts DEF Rooted
<1>5. ASSUME NEW p \in Paths
      PROVE  /\ mirror'[p].kind = "absent" => mirror'[p] = Absent
             /\ mirror'[p].kind = "directory" => mirror'[p] = Directory
             /\ mirror'[p].kind = "symlink" => \E tree \in Trees : mirror'[p] = tree[p]
             /\ mirror'[p].kind # "absent" => Rooted(p)'
  <2>1. CASE p \in Above[at]
    BY <1>1, <1>4, <2>1, EntryFacts
  <2>2. CASE p \notin Above[at]
    <3>1. mirror'[p] = mirror[p]
      BY <1>1, <2>2
    <3> QED BY <1>3, <3>1 DEF GroundInv
  <2> QED BY <2>1, <2>2
<1>6. ASSUME NEW p \in Paths, NEW m \in Numbers, staging'[<<p, m>>] # <<>> PROVE Rooted(p)'
  <2>1. staging \in [Transfers -> Bytes] /\ <<p, m>> \in Transfers
    BY DEF TypeOK, Transfers
  <2>2. CASE p = at
    BY <1>4, <2>2
  <2>3. CASE p # at
    <3>1. staging'[<<p, m>>] = staging[<<p, m>>]
      BY <2>1, <2>3
    <3> QED BY <1>3, <1>6, <3>1 DEF GroundInv
  <2> QED BY <2>2, <2>3
<1> QED BY <1>5, <1>6 DEF GroundInv

LEMMA RemoveFacts ==
  ASSUME TypeOK, NEW p \in Paths, RemoveAll(p)
  PROVE  /\ \A q \in Paths : mirror'[q] = IF q = p \/ p \in Above[q] THEN Absent ELSE mirror[q]
         /\ \A q \in Paths : \A n \in Numbers :
              staging'[<<q, n>>] = IF p \in Above[q] THEN <<>> ELSE staging[<<q, n>>]
         /\ staging' \in [Transfers -> Bytes]
<1>1. mirror' = [q \in Paths |-> IF q \in {p} \cup Below(p) THEN Absent ELSE mirror[q]]
  BY DEF RemoveAll
<1>2. staging' = [t \in Transfers |-> IF t[1] \in Below(p) THEN <<>> ELSE staging[t]]
  BY DEF RemoveAll
<1>3. \A q \in Paths : q \in Below(p) <=> p \in Above[q]
  BY DEF Below
<1>4. ASSUME NEW q \in Paths, NEW n \in Numbers
      PROVE  staging'[<<q, n>>] = IF p \in Above[q] THEN <<>> ELSE staging[<<q, n>>]
  <2>1. <<q, n>> \in Transfers /\ <<q, n>>[1] = q
    BY DEF Transfers
  <2> QED BY <1>2, <1>3, <2>1
<1>5. <<>> \in Bytes /\ staging \in [Transfers -> Bytes]
  BY DEF Bytes, TypeOK
<1> QED BY <1>1, <1>2, <1>3, <1>4, <1>5

LEMMA GroundRemoves ==
  ASSUME TypeOK, GroundInv, NEW p \in Paths, RemoveAll(p)
  PROVE  GroundInv'
<1>1. \A q \in Paths : mirror'[q] = IF q = p \/ p \in Above[q] THEN Absent ELSE mirror[q]
  BY RemoveFacts
<1>2. \A q \in Paths : \A n \in Numbers :
        staging'[<<q, n>>] = IF p \in Above[q] THEN <<>> ELSE staging[<<q, n>>]
  BY RemoveFacts
<1>3. ASSUME NEW q \in Paths, p \notin Above[q], Rooted(q) PROVE Rooted(q)'
  <2>1. ASSUME NEW r \in Above[q] PROVE r \in Paths /\ r # p /\ p \notin Above[r]
    BY <1>3, <2>1, AboveFacts
  <2> QED BY <1>1, <1>3, <2>1 DEF Rooted
<1>4. ASSUME NEW q \in Paths
      PROVE  /\ mirror'[q].kind = "absent" => mirror'[q] = Absent
             /\ mirror'[q].kind = "directory" => mirror'[q] = Directory
             /\ mirror'[q].kind = "symlink" => \E tree \in Trees : mirror'[q] = tree[q]
             /\ mirror'[q].kind # "absent" => Rooted(q)'
  <2>1. CASE q = p \/ p \in Above[q]
    BY <1>1, <2>1, EntryFacts
  <2>2. CASE ~(q = p \/ p \in Above[q])
    <3>1. mirror'[q] = mirror[q]
      BY <1>1, <2>2
    <3> QED BY <1>3, <2>2, <3>1 DEF GroundInv
  <2> QED BY <2>1, <2>2
<1>5. ASSUME NEW q \in Paths, NEW n \in Numbers, staging'[<<q, n>>] # <<>> PROVE Rooted(q)'
  <2>1. p \notin Above[q] /\ staging[<<q, n>>] # <<>>
    BY <1>2, <1>5
  <2> QED BY <1>3, <2>1 DEF GroundInv
<1> QED BY <1>4, <1>5 DEF GroundInv

(* An entry is put below its parents, where no directory is or to make one. *)
LEMMA GroundPuts ==
  ASSUME TypeOK, GroundInv, NEW p \in Paths, NEW entry, UNCHANGED staging,
         mirror' = [WithParents(p) EXCEPT ![p] = entry],
         entry.kind # "absent",
         entry.kind = "directory" => entry = Directory,
         entry.kind = "symlink" => \E tree \in Trees : entry = tree[p],
         mirror[p].kind # "directory" \/ entry = Directory
  PROVE  GroundInv'
<1>1. \A q \in Paths : mirror'[q] = IF q = p THEN entry ELSE IF q \in Above[p] THEN Directory ELSE mirror[q]
  BY ParentsFacts DEF WithParents
<1>2. p \notin Above[p] /\ Above[p] \subseteq Paths
  BY AboveFacts
<1>3. ASSUME NEW q \in Paths, mirror[q].kind = "directory" PROVE mirror'[q].kind = "directory"
  BY <1>1, <1>3, EntryFacts
<1>4. ASSUME NEW q \in Paths, Rooted(q) PROVE Rooted(q)'
  BY <1>3, <1>4, AboveFacts DEF Rooted
<1>5. ASSUME NEW q \in Paths, q = p \/ q \in Above[p] PROVE Rooted(q)'
  <2>1. Above[q] \subseteq Above[p] /\ Above[q] \subseteq Paths
    BY <1>5, AboveFacts
  <2> QED BY <1>1, <1>2, <2>1, EntryFacts DEF Rooted
<1>6. ASSUME NEW q \in Paths
      PROVE  /\ mirror'[q].kind = "absent" => mirror'[q] = Absent
             /\ mirror'[q].kind = "directory" => mirror'[q] = Directory
             /\ mirror'[q].kind = "symlink" => \E tree \in Trees : mirror'[q] = tree[q]
             /\ mirror'[q].kind # "absent" => Rooted(q)'
  <2>1. CASE q = p
    BY <1>1, <1>5, <2>1
  <2>2. CASE q \in Above[p]
    BY <1>1, <1>2, <1>5, <2>2, EntryFacts
  <2>3. CASE q # p /\ q \notin Above[p]
    <3>1. mirror'[q] = mirror[q]
      BY <1>1, <2>3
    <3> QED BY <1>4, <3>1 DEF GroundInv
  <2> QED BY <2>1, <2>2, <2>3
<1>7. ASSUME NEW q \in Paths, NEW n \in Numbers, staging'[<<q, n>>] # <<>> PROVE Rooted(q)'
  BY <1>4, <1>7 DEF GroundInv
<1> QED BY <1>6, <1>7 DEF GroundInv

(* A staging file takes its place, or goes. *)
LEMMA GroundFinalizes ==
  ASSUME TypeOK, GroundInv, NEW at \in Paths, NEW t, NEW bytes,
         mirror' = [mirror EXCEPT ![at] = File(bytes)], staging' = [staging EXCEPT ![t] = <<>>],
         mirror[at].kind # "directory", Rooted(at)
  PROVE  GroundInv'
<1>0. mirror \in [Paths -> MirrorEntry] /\ staging \in [Transfers -> Bytes]
  BY DEF TypeOK, MirrorEntry
<1>1. \A q \in Paths : mirror'[q] = IF q = at THEN File(bytes) ELSE mirror[q]
  BY <1>0
<1>2. ASSUME NEW q \in Paths, Rooted(q) PROVE Rooted(q)'
  BY <1>1, <1>2, AboveFacts DEF Rooted
<1>3. ASSUME NEW q \in Paths
      PROVE  /\ mirror'[q].kind = "absent" => mirror'[q] = Absent
             /\ mirror'[q].kind = "directory" => mirror'[q] = Directory
             /\ mirror'[q].kind = "symlink" => \E tree \in Trees : mirror'[q] = tree[q]
             /\ mirror'[q].kind # "absent" => Rooted(q)'
  <2>1. CASE q = at
    BY <1>1, <1>2, <2>1, EntryFacts
  <2>2. CASE q # at
    <3>1. mirror'[q] = mirror[q]
      BY <1>1, <2>2
    <3> QED BY <1>2, <3>1 DEF GroundInv
  <2> QED BY <2>1, <2>2
<1>4. ASSUME NEW q \in Paths, NEW n \in Numbers, staging'[<<q, n>>] # <<>> PROVE Rooted(q)'
  <2>1. <<q, n>> \in Transfers
    BY DEF Transfers
  <2>2. staging[<<q, n>>] # <<>>
    BY <1>0, <1>4, <2>1
  <2> QED BY <1>2, <2>2 DEF GroundInv
<1> QED BY <1>3, <1>4 DEF GroundInv

LEMMA GroundCleans ==
  ASSUME TypeOK, GroundInv, NEW t, mirror' = mirror, staging' = [staging EXCEPT ![t] = <<>>]
  PROVE  GroundInv'
<1>1. \A q \in Paths : \A n \in Numbers : <<q, n>> \in Transfers
  BY DEF Transfers
<1>2. \A q \in Paths : \A n \in Numbers : staging'[<<q, n>>] # <<>> => staging[<<q, n>>] # <<>>
  BY <1>1 DEF TypeOK
<1> QED BY <1>2 DEF GroundInv, Rooted

-----------------------------------------------------------------------------
(* Steps that leave the node's sync alone, or end it. *)

NodeInv == TransferInv /\ ServingInv /\ PhaseInv /\ SmoothInv /\ DoomInv

LEMMA TransferFacts ==
  ASSUME TypeOK
  PROVE  /\ node.tree \in Trees /\ node.requested \in SUBSET Paths /\ node.left \in SUBSET Paths
         /\ node.pc \in NodePhases
         /\ \A p \in Paths : /\ node.transfer[p].at \in Paths \cup {NoPath}
                             /\ node.transfer[p].number \in Numbers
                             /\ node.transfer[p].got \in SUBSET Indexes
                             /\ node.transfer[p].plan \in Seq(Chunks)
         /\ Due \in SUBSET node.requested /\ Due \in SUBSET Paths
         /\ Opened \in SUBSET Paths
         /\ \A p \in Due : node.tree[p].bytes # <<>>
<1>1. NodeTyped
  BY DEF TypeOK, NodeTyped
<1>2. Due \in SUBSET node.requested /\ \A p \in Due : node.tree[p].bytes # <<>>
  BY DEF Due, Wanted
<1>3. Opened \in SUBSET Paths
  BY DEF Opened
<1> QED BY <1>1, <1>2, <1>3 DEF NodeTyped

LEMMA DueFacts ==
  ASSUME TypeOK, TransferInv
  PROVE  /\ \A p \in Due : /\ p \in Paths /\ node.tree[p].kind = "file"
                           /\ node.tree[p].bytes \in Seq(Chunks)
                           /\ Len(node.tree[p].bytes) \in Nat /\ Len(node.tree[p].bytes) >= 1
                           /\ node.tree[p] = File(node.tree[p].bytes)
                           /\ p \in Entries /\ Number(p, Due) \in Numbers
         /\ Opened \in SUBSET Due
         /\ \A p \in Opened : node.transfer[p].at \in Paths
         /\ \A p, q \in Due : p # q => Number(p, Due) # Number(q, Due)
<1>1. Due \in SUBSET node.requested /\ Due \in SUBSET Paths /\ \A p \in Due : node.tree[p].bytes # <<>>
  BY TransferFacts
<1>2. ASSUME NEW p \in Due
      PROVE  /\ p \in Paths /\ node.tree[p].kind = "file" /\ node.tree[p].bytes \in Seq(Chunks)
             /\ node.tree[p] = File(node.tree[p].bytes)
  BY <1>1, TransferFacts, TreeFacts DEF TransferInv
<1>3. ASSUME NEW p \in Due
      PROVE  Len(node.tree[p].bytes) \in Nat /\ Len(node.tree[p].bytes) >= 1
  <2>1. node.tree[p].bytes \in Seq(Chunks) /\ node.tree[p].bytes # <<>>
    BY <1>1, <1>2
  <2> QED BY <2>1
<1>4. \A p \in Due : Number(p, Due) \in Numbers
  BY <1>1, NumberFacts
<1>5. \A p, q \in Due : p # q => Number(p, Due) # Number(q, Due)
  BY <1>1, NumberFacts
<1>6. \A p \in Opened : p \in Due /\ node.transfer[p].at \in Paths
  BY DEF TransferInv, IsTarget, Opened
<1>7. \A p \in Due : p \in Entries
  BY <1>2 DEF Entries
<1> QED BY <1>2, <1>3, <1>4, <1>5, <1>6, <1>7

LEMMA StillNode ==
  ASSUME GroundInv, NodeInv, UNCHANGED <<mirror, staging, node>>,
         doomed' = doomed \/ node.pc = "off"
  PROVE  GroundInv' /\ NodeInv'
<1>1. GroundInv'
  BY DEF GroundInv, Rooted
<1>2. Due' = Due /\ Opened' = Opened /\ Entries' = Entries /\ Directories' = Directories
      /\ Small' = Small /\ Extras' = Extras /\ Leftovers' = Leftovers /\ (Complete' <=> Complete)
  BY DEF Due, Opened, Entries, Directories, Small, Extras, Leftovers, Complete
<1>3. \A p : /\ Staged(p)' = Staged(p) /\ (Holds(p)' <=> Holds(p))
             /\ (Leads(p, Due)' <=> Leads(p, Due)) /\ (Blocked(p)' <=> Blocked(p))
  BY <1>2 DEF Staged, Holds, Leads, Blocked
<1>4. \A p : (Misled(p)' <=> Misled(p)) /\ (TooLong(p)' <=> TooLong(p))
  BY <1>2, <1>3 DEF Misled, TooLong, Leads, Number
<1>5. TransferInv'
  BY <1>2 DEF NodeInv, TransferInv
<1>6. ServingInv'
  BY <1>2, <1>3 DEF NodeInv, ServingInv
<1>7. PhaseInv'
  BY <1>2 DEF NodeInv, PhaseInv, Past
<1>8. SmoothInv'
  BY <1>2, <1>3 DEF NodeInv, SmoothInv, Past
<1>9. DoomInv'
  <2> SUFFICES ASSUME doomed', node'.pc # "off"
               PROVE  \E p \in Due' : Blocked(p)' \/ Misled(p)' \/ TooLong(p)'
    BY Zenon DEF DoomInv
  <2>1. PICK p \in Due : Blocked(p) \/ Misled(p) \/ TooLong(p)
    BY DEF NodeInv, DoomInv
  <2>2. p \in Due' /\ (Blocked(p)' \/ Misled(p)' \/ TooLong(p)')
    BY <1>2, <1>3, <1>4, <2>1
  <2> QED BY <2>2, Zenon
<1> QED BY <1>1, <1>5, <1>6, <1>7, <1>8, <1>9 DEF NodeInv

LEMMA EndedNode ==
  ASSUME node' = NodeOff
  PROVE  NodeInv' /\ Opened' = {}
<1>1. NodeOff.pc = "off" /\ NodeOff.requested = {} /\ \A p \in Paths : ~NodeOff.transfer[p].open
  BY DEF NodeOff, NoTransfers, NoTransfer
<1>2. Opened' = {}
  BY <1>1 DEF Opened
<1>3. TransferInv' /\ ServingInv' /\ SmoothInv' /\ DoomInv'
  BY <1>1, <1>2 DEF TransferInv, ServingInv, SmoothInv, DoomInv
<1>4. PhaseInv'
  BY <1>1 DEF PhaseInv, Committing, Past
<1> QED BY <1>2, <1>3, <1>4 DEF NodeInv

(* When one side gives up, the other is told by the closed stream. *)
LEMMA ClosedStream ==
  ASSUME wire' = Closed, HonestInv, UNCHANGED source, spoiled => spoiled',
         client'.pc # "idle" => client' = client,
         node' = NodeOff \/ UNCHANGED node
  PROVE  WireInv' /\ HonestInv'
<1>1. WireInv' /\ wire'.type = "closed"
  BY DEF WireInv, Closed
<1>2. node' = NodeOff => Opened' = {}
  BY EndedNode
<1>3. UNCHANGED node => Opened' = Opened
  BY DEF Opened
<1> QED BY <1>1, <1>2, <1>3 DEF HonestInv

-----------------------------------------------------------------------------
(* The client's steps. *)

LEMMA WireTypes ==
  ASSUME TypeOK
  PROVE  /\ wire.type \in {"none", "closed", "manifest", "diff", "plan", "missing", "chunk",
                           "commit", "committed"}
         /\ wire.type = "none" <=> wire = Nothing
         /\ wire.type = "closed" <=> wire = Closed
<1>1. wire \in Message
  BY DEF TypeOK
<1> QED BY <1>1 DEF Message, Nothing, Closed

LEMMA OpenStream ==
  ASSUME TypeOK, NumberInv, MirrorInv, TransferInv, WireInv, wire # Closed,
         client.pc \in {"check", "plan", "missing", "send"}
  PROVE  /\ Turns /\ EndsInv /\ ChunkInv /\ TodoInv
         /\ client.pc \in {"plan", "missing", "send"} => FileInv
         /\ client.tree = node.tree /\ client.todo \in SUBSET Due
         /\ client.todo # {} =>
              /\ Current \in client.todo /\ Current \in Due /\ Current \in Paths
              /\ \A q \in client.todo : Rank[Current] <= Rank[q]
              /\ client.number = Number(Current, Due)
              /\ Size \in Nat /\ Size = Len(node.tree[Current].bytes) /\ Size >= 1
         /\ client.pc # "check" => client.todo # {}
<1>1. Turns /\ EndsInv /\ ChunkInv /\ TodoInv /\ (client.pc \in {"plan", "missing", "send"} => FileInv)
  BY DEF WireInv
<1>2. client.tree = node.tree /\ client.todo \in SUBSET Due
  BY <1>1 DEF TodoInv
<1>3. Due \in SUBSET Paths
  BY TransferFacts
<1>4. ASSUME client.todo # {}
      PROVE  /\ Current \in client.todo /\ Current \in Due /\ Current \in Paths
             /\ \A q \in client.todo : Rank[Current] <= Rank[q]
             /\ client.number = Number(Current, Due)
  <2>1. Current \in client.todo /\ \A q \in client.todo : Rank[Current] <= Rank[q]
    BY <1>2, <1>3, <1>4, FirstIsLeast DEF Current
  <2>2. client.number = Number(Current, Due)
    BY <1>1, <1>2, <1>3, <1>4, NumberOfFirst DEF TodoInv, Current
  <2> QED BY <1>2, <1>3, <2>1, <2>2
<1>5. client.todo # {} => Size \in Nat /\ Size = Len(node.tree[Current].bytes) /\ Size >= 1
  BY <1>2, <1>4, DueFacts DEF Size
<1>6. client.pc # "check" => client.todo # {}
  BY DEF NumberInv
<1> QED BY <1>1, <1>2, <1>4, <1>5, <1>6

(* As long as nobody edits, the client reads what the manifest says. *)
LEMMA HonestSource ==
  ASSUME TypeOK, NumberInv, MirrorInv, TransferInv, WireInv, HonestInv, wire # Closed, ~spoiled,
         client.pc \in {"check", "plan", "missing", "send"}, client.todo # {}
  PROVE  SourceBytes(Current) = client.tree[Current].bytes
<1>1. source = client.tree
  BY DEF HonestInv
<1>2. client.tree[Current].kind = "file"
  BY OpenStream, DueFacts
<1> QED BY <1>1, <1>2 DEF SourceBytes

(* What a step of the client leaves to show. *)
LEMMA ClientKeeps ==
  ASSUME CommitsInv, UNCHANGED <<mirror, staging, node, doomed>>, spoiled' = spoiled,
         WireInv', HonestInv', wire' = Closed => spoiled \/ doomed,
         wire'.type = "committed" => wire'.accepted
  PROVE  CommitsInv'
<1>1. GroundInv' /\ NodeInv'
  BY StillNode DEF CommitsInv, NodeInv
<1>2. UndisturbedCommits'
  BY DEF CommitsInv, UndisturbedCommits
<1> QED BY <1>1, <1>2 DEF CommitsInv, NodeInv

LEMMA ClientGivesUp ==
  ASSUME TypeOK, CommitsInv, ClientFails, UNCHANGED <<nodeVars, source, acked, spoiled, bounds>>,
         spoiled \/ doomed
  PROVE  CommitsInv'
<1>1. wire' = Closed /\ client'.pc = "idle" /\ wire'.type = "closed"
  BY DEF ClientFails, ClientIdle, Closed
<1>2. WireInv' /\ HonestInv'
  BY <1>1, ClosedStream DEF CommitsInv, nodeVars
<1> QED BY <1>1, <1>2, ClientKeeps DEF nodeVars

(* A step of the client while the stream is closed. *)
LEMMA ClientUnaware ==
  ASSUME TypeOK, CommitsInv, wire = Closed, UNCHANGED <<nodeVars, source, wire, spoiled>>,
         client.pc # "idle", client'.tree = client.tree
  PROVE  CommitsInv'
<1>1. WireInv' /\ wire'.type = "closed"
  BY DEF WireInv, Closed
<1>2. Opened' = Opened
  BY DEF Opened, nodeVars
<1>3. HonestInv'
  BY <1>1, <1>2 DEF CommitsInv, HonestInv, nodeVars
<1>4. spoiled \/ doomed
  BY DEF CommitsInv, UndisturbedCommits
<1> QED BY <1>1, <1>3, <1>4, ClientKeeps DEF nodeVars

LEMMA StartsCommit ==
  ASSUME TypeOK, MirrorInv, CommitsInv, ClientStarts
  PROVE  CommitsInv'
<1>1. /\ wire' = [type |-> "manifest", rev |-> client.rev, tree |-> source]
      /\ UNCHANGED <<source, mirror, staging, node>> /\ node.pc = "off"
      /\ client' = [client EXCEPT !.pc = "diff", !.tree = source]
  BY DEF ClientStarts
<1>2. client'.pc = "diff" /\ client'.tree = source
  BY <1>1 DEF TypeOK
<1>3. GroundInv' /\ NodeInv'
  BY <1>1, StillNode DEF CommitsInv, NodeInv
<1>4. Opened' = {}
  BY <1>1 DEF CommitsInv, TransferInv, Opened
<1>5. WireInv'
  BY <1>1, <1>2 DEF WireInv, Turns, EndsInv, ChunkInv, Nothing
<1>6. HonestInv'
  BY <1>1, <1>2, <1>4 DEF HonestInv
<1>7. UndisturbedCommits'
  BY <1>1 DEF UndisturbedCommits, Closed
<1> QED BY <1>3, <1>5, <1>6, <1>7 DEF CommitsInv, NodeInv

LEMMA ReadsDiffCommit ==
  ASSUME TypeOK, NumberInv, MirrorInv, CommitsInv, ClientReadsDiff
  PROVE  CommitsInv'
<1>1. /\ client.pc = "diff" /\ wire.type = "diff" /\ wire' = Nothing /\ wire # Closed
      /\ UNCHANGED <<nodeVars, source, acked, spoiled, bounds>>
  BY DEF ClientReadsDiff, Closed
<1>2. Opened' = Opened /\ Due' = Due
  BY <1>1 DEF Opened, Due, nodeVars
<1>3. CASE wire.accepted
  <2> DEFINE todo == {p \in wire.requested : client.tree[p].bytes # <<>>}
  <2>1. node.pc = "serving" /\ wire.requested = node.requested /\ Opened = {}
    BY <1>1, <1>3 DEF CommitsInv, WireInv, EndsInv
  <2>2. client.tree = node.tree
    BY <1>1, <2>1 DEF MirrorInv, SessionInv
  <2>3. todo = Due
    BY <2>1, <2>2 DEF Due, Wanted
  <2>4. client' = [client EXCEPT !.pc = "check", !.todo = Due]
    BY <1>3, <2>3 DEF ClientReadsDiff
  <2>5. /\ client'.pc = "check" /\ client'.todo = Due /\ client'.tree = client.tree
        /\ client'.number = client.number
    BY <2>4 DEF TypeOK
  <2>6. client.number = 0 /\ Due \ Due = {} /\ Cardinality({}) = 0
    BY <1>1, FS_EmptySet DEF NumberInv
  <2>7. TodoInv'
    <3>1. \A p \in Due : ~node.transfer[p].open
      BY <2>1, TransferFacts DEF Opened
    <3> QED BY <1>1, <1>2, <2>1, <2>2, <2>5, <2>6, <3>1, Zenon DEF TodoInv, nodeVars
  <2>8. WireInv'
    BY <1>1, <2>5, <2>7 DEF WireInv, Turns, EndsInv, ChunkInv, Nothing
  <2>9. HonestInv'
    BY <1>1, <1>2, <2>1, <2>5 DEF CommitsInv, HonestInv, Nothing
  <2> QED BY <1>1, <2>8, <2>9, ClientKeeps DEF nodeVars, Nothing, Closed
<1>4. CASE ~wire.accepted
  <2>1. client'.pc = "idle" /\ node.pc = "off"
    BY <1>1, <1>4 DEF ClientReadsDiff, ClientIdle, MirrorInv, SessionInv
  <2>2. WireInv'
    BY <1>1, <2>1 DEF WireInv, Turns, EndsInv, ChunkInv, Nothing, nodeVars
  <2>3. HonestInv'
    BY <1>1, <1>2, <2>1 DEF CommitsInv, HonestInv, Nothing, nodeVars
  <2> QED BY <1>1, <2>2, <2>3, ClientKeeps DEF nodeVars, Nothing, Closed
<1> QED BY <1>3, <1>4

LEMMA ChecksFileCommit ==
  ASSUME TypeOK, NumberInv, MirrorInv, CommitsInv, ClientChecksFile
  PROVE  CommitsInv'
<1>1. client.pc = "check" /\ client.todo # {} /\ UNCHANGED <<nodeVars, source, acked, spoiled, bounds>>
  BY DEF ClientChecksFile
<1>2. TransferInv /\ WireInv /\ HonestInv /\ UndisturbedCommits
  BY DEF CommitsInv
<1>3. CASE SourceBytes(Current) # client.tree[Current].bytes
  <2>1. wire # Closed => spoiled
    BY <1>1, <1>2, <1>3, HonestSource
  <2>2. ClientFails /\ (spoiled \/ doomed)
    BY <1>2, <1>3, <2>1 DEF ClientChecksFile, UndisturbedCommits
  <2> QED BY <1>1, <2>2, ClientGivesUp
<1>4. CASE SourceBytes(Current) = client.tree[Current].bytes
  <2>1. client' = [client EXCEPT !.pc = "plan", !.plan = <<>>] /\ UNCHANGED wire
    BY <1>4 DEF ClientChecksFile
  <2>2. /\ client'.pc = "plan" /\ client'.plan = <<>> /\ client'.tree = client.tree
        /\ client'.todo = client.todo /\ client'.number = client.number
    BY <2>1 DEF TypeOK
  <2>3. CASE wire = Closed
    BY <1>1, <2>1, <2>2, <2>3, ClientUnaware
  <2>4. CASE wire # Closed
    <3>1. Turns /\ EndsInv /\ ChunkInv /\ TodoInv /\ Size \in Nat
      BY <1>1, <1>2, <2>4, OpenStream
    <3>2. Due' = Due /\ Current' = Current /\ Size' = Size /\ Opened' = Opened
      BY <1>1, <2>2 DEF Due, Current, Size, Opened, nodeVars
    <3>3. Turns' /\ EndsInv' /\ ChunkInv'
      BY <1>1, <2>1, <2>2, <3>1, <3>2 DEF Turns, EndsInv, ChunkInv, nodeVars, Nothing
    <3>4. TodoInv'
      BY <1>1, <2>1, <2>2, <3>1, <3>2 DEF TodoInv, Accounted, OnWire, nodeVars
    <3>5. FileInv'
      BY <1>1, <2>1, <2>2, <3>1, <3>2 DEF FileInv, Turns, nodeVars
    <3>6. WireInv'
      BY <3>3, <3>4, <3>5 DEF WireInv
    <3>7. HonestInv'
      BY <1>1, <1>2, <2>1, <2>2, <3>2 DEF HonestInv, nodeVars
    <3> QED BY <1>1, <1>2, <2>1, <2>4, <3>6, <3>7, ClientKeeps DEF nodeVars, UndisturbedCommits
  <2> QED BY <2>3, <2>4
<1> QED BY <1>3, <1>4

LEMMA HashesChunkCommit ==
  ASSUME TypeOK, NumberInv, MirrorInv, CommitsInv, ClientHashesChunk
  PROVE  CommitsInv'
<1> DEFINE chunk == SourceBytes(Current)[Len(client.plan) + 1]
<1>1. /\ client.pc = "plan" /\ Len(client.plan) < Size /\ client.todo # {}
      /\ UNCHANGED <<nodeVars, source, acked, spoiled, bounds>>
  BY DEF ClientHashesChunk, NumberInv
<1>2. TransferInv /\ WireInv /\ HonestInv /\ UndisturbedCommits
  BY DEF CommitsInv
<1>3. CASE ~(Len(client.plan) < Len(SourceBytes(Current)))
  <2>1. wire # Closed => spoiled
    BY <1>1, <1>2, <1>3, HonestSource DEF Size
  <2>2. ClientFails /\ (spoiled \/ doomed)
    BY <1>2, <1>3, <2>1 DEF ClientHashesChunk, UndisturbedCommits
  <2> QED BY <1>1, <2>2, ClientGivesUp
<1>4. CASE Len(client.plan) < Len(SourceBytes(Current))
  <2>1. client' = [client EXCEPT !.plan = Append(client.plan, chunk)] /\ UNCHANGED wire
    BY <1>4 DEF ClientHashesChunk
  <2>2. client.plan \in Seq(Chunks) /\ Len(client.plan) \in Nat
    BY DEF TypeOK
  <2>3. /\ client'.pc = "plan" /\ client'.plan = Append(client.plan, chunk)
        /\ client'.tree = client.tree /\ client'.todo = client.todo /\ client'.number = client.number
    <3> DEFINE plan == Append(client.plan, chunk)
    <3>1. client' = [client EXCEPT !.plan = plan]
      BY <2>1
    <3> HIDE DEF plan
    <3>2. client'.plan = plan /\ client'.pc = "plan" /\ client'.tree = client.tree
          /\ client'.todo = client.todo /\ client'.number = client.number
      BY <1>1, <3>1 DEF TypeOK
    <3> QED BY <3>2 DEF plan
  <2> HIDE DEF chunk
  <2>4. /\ Len(client'.plan) = Len(client.plan) + 1 /\ client'.plan[Len(client.plan) + 1] = chunk
        /\ \A i \in 1..Len(client.plan) : client'.plan[i] = client.plan[i]
    BY <2>2, <2>3
  <2>5. CASE wire = Closed
    BY <1>1, <2>1, <2>3, <2>5, ClientUnaware
  <2>6. CASE wire # Closed
    <3>1. Turns /\ EndsInv /\ ChunkInv /\ TodoInv /\ FileInv /\ Size \in Nat
      BY <1>1, <1>2, <2>6, OpenStream
    <3>2. Due' = Due /\ Current' = Current /\ Size' = Size /\ Opened' = Opened
      BY <1>1, <2>3 DEF Due, Current, Size, Opened, nodeVars
    <3>3. Turns' /\ EndsInv' /\ ChunkInv'
      BY <1>1, <2>1, <2>3, <3>1, <3>2 DEF Turns, EndsInv, ChunkInv, nodeVars, Nothing
    <3>4. TodoInv'
      BY <1>1, <2>1, <2>3, <3>1, <3>2 DEF TodoInv, Accounted, OnWire, nodeVars
    <3>5. FileInv'
      <4>1. Len(client'.plan) <= Size'
        BY <1>1, <2>2, <2>4, <3>1, <3>2
      <4> QED BY <1>1, <2>1, <2>3, <3>1, <4>1 DEF FileInv, Turns
    <3>6. WireInv'
      BY <3>3, <3>4, <3>5 DEF WireInv
    <3>7. HonestInv'
      <4> SUFFICES ASSUME ~spoiled' PROVE HonestInv'
        BY Zenon DEF HonestInv
      <4>1. chunk = client.tree[Current].bytes[Len(client.plan) + 1]
        BY <1>1, <1>2, <2>6, HonestSource DEF chunk
      <4>2. \A i \in 1..Len(client.plan) : client.plan[i] = client.tree[Current].bytes[i]
        BY <1>1, <1>2, <2>6 DEF HonestInv
      <4>3. \A i \in 1..Len(client'.plan) : client'.plan[i] = client.tree[Current].bytes[i]
        BY <2>2, <2>4, <4>1, <4>2
      <4>4. /\ source = client.tree /\ \A p \in Opened : node.transfer[p].plan = node.tree[p].bytes
            /\ wire.type = "chunk" => wire.bytes = node.transfer[wire.path].plan[wire.index]
        BY <1>1, <1>2 DEF HonestInv
      <4> QED BY <1>1, <2>1, <2>3, <3>2, <4>3, <4>4 DEF HonestInv, nodeVars
    <3> QED BY <1>1, <1>2, <2>1, <2>6, <3>6, <3>7, ClientKeeps DEF nodeVars, UndisturbedCommits
  <2> QED BY <2>5, <2>6
<1> QED BY <1>3, <1>4

LEMMA SendsPlanCommit ==
  ASSUME TypeOK, NumberInv, MirrorInv, CommitsInv, ClientSendsPlan
  PROVE  CommitsInv'
<1>1. /\ client.pc = "plan" /\ Len(client.plan) = Size /\ wire = Nothing /\ wire # Closed
      /\ client' = [client EXCEPT !.pc = "missing"]
      /\ wire' = [type |-> "plan", path |-> Current, number |-> client.number, plan |-> client.plan]
      /\ UNCHANGED <<nodeVars, source, acked, spoiled, bounds>>
  BY DEF ClientSendsPlan, Nothing, Closed
<1>2. TransferInv /\ WireInv /\ HonestInv
  BY DEF CommitsInv
<1>3. /\ client'.pc = "missing" /\ client'.plan = client.plan /\ client'.tree = client.tree
      /\ client'.todo = client.todo /\ client'.number = client.number
  BY <1>1 DEF TypeOK
<1>4. TodoInv
  BY <1>1, <1>2, OpenStream
<1>5. Due' = Due /\ Current' = Current /\ Size' = Size /\ Opened' = Opened
  BY <1>1, <1>3 DEF Due, Current, Size, Opened, nodeVars
<1>6. Turns' /\ EndsInv' /\ ChunkInv'
  BY <1>1, <1>3 DEF Turns, EndsInv, ChunkInv, Nothing
<1>7. TodoInv'
  BY <1>1, <1>3, <1>4, <1>5 DEF TodoInv, Accounted, OnWire, nodeVars, Nothing
<1>8. FileInv'
  BY <1>1, <1>3, <1>5 DEF FileInv
<1>9. WireInv'
  BY <1>6, <1>7, <1>8 DEF WireInv
<1>10. HonestInv'
  BY <1>1, <1>2, <1>3, <1>5 DEF HonestInv, nodeVars
<1> QED BY <1>1, <1>9, <1>10, ClientKeeps DEF nodeVars, Closed

LEMMA ReadsMissingCommit ==
  ASSUME TypeOK, NumberInv, MirrorInv, CommitsInv, ClientReadsMissing
  PROVE  CommitsInv'
<1>1. /\ client.pc = "missing" /\ wire.type = "missing" /\ wire # Closed /\ wire' = Nothing
      /\ client' = [client EXCEPT !.pc = "send", !.missing = wire.missing]
      /\ UNCHANGED <<nodeVars, source, acked, spoiled, bounds>>
  BY DEF ClientReadsMissing, Closed
<1>2. TransferInv /\ WireInv /\ HonestInv
  BY DEF CommitsInv
<1>3. /\ client'.pc = "send" /\ client'.plan = client.plan /\ client'.tree = client.tree
      /\ client'.todo = client.todo /\ client'.number = client.number
      /\ client'.missing = wire.missing
  BY <1>1 DEF TypeOK
<1>4. TodoInv /\ FileInv
  BY <1>1, <1>2, OpenStream
<1>5. Due' = Due /\ Current' = Current /\ Size' = Size /\ Opened' = Opened
  BY <1>1, <1>3 DEF Due, Current, Size, Opened, nodeVars
<1>6. Turns' /\ EndsInv' /\ ChunkInv'
  BY <1>1, <1>3 DEF Turns, EndsInv, ChunkInv, Nothing
<1>7. TodoInv'
  BY <1>1, <1>3, <1>4, <1>5 DEF TodoInv, Accounted, OnWire, nodeVars, Nothing
<1>8. FileInv'
  BY <1>1, <1>3, <1>4, <1>5 DEF FileInv, OnWire, Nothing, nodeVars
<1>9. WireInv'
  BY <1>6, <1>7, <1>8 DEF WireInv
<1>10. HonestInv'
  BY <1>1, <1>2, <1>3, <1>5 DEF HonestInv, nodeVars, Nothing
<1> QED BY <1>1, <1>9, <1>10, ClientKeeps DEF nodeVars, Closed, Nothing

LEMMA SendsChunkCommit ==
  ASSUME TypeOK, NumberInv, MirrorInv, CommitsInv, ClientSendsChunk
  PROVE  CommitsInv'
<1> DEFINE i == CHOOSE i \in client.missing : \A j \in client.missing : i <= j
<1>1. /\ client.pc = "send" /\ client.missing # {} /\ wire = Nothing /\ wire # Closed
      /\ UNCHANGED <<nodeVars, source, acked, spoiled, bounds>>
  BY DEF ClientSendsChunk, Nothing, Closed
<1>2. TransferInv /\ WireInv /\ HonestInv
  BY DEF CommitsInv
<1>3. client.missing \in SUBSET Indexes /\ client.missing \in SUBSET Nat
  BY DEF TypeOK, Indexes
<1>4. \E k \in client.missing : \A j \in client.missing : k <= j
  BY <1>1, <1>3, LeastNumber, Zenon
<1>5. i \in client.missing /\ \A j \in client.missing : i <= j
  BY <1>4, Zenon
<1>6. /\ TodoInv /\ FileInv /\ client.tree = node.tree /\ client.todo # {}
      /\ Current \in client.todo /\ Current \in Due /\ Size \in Nat
      /\ Size = Len(node.tree[Current].bytes)
  BY <1>1, <1>2, OpenStream
<1>7. CASE ~(i <= Len(SourceBytes(Current)))
  <2>1. ClientFails
    BY <1>7 DEF ClientSendsChunk
  <2>2. OnWire(Current) = {}
    BY <1>1 DEF OnWire, Nothing
  <2>3. i <= Size
    BY <1>1, <1>5, <1>6, <2>2 DEF FileInv
  <2>4. spoiled
    BY <1>1, <1>2, <1>6, <1>7, <2>3, HonestSource
  <2> QED BY <1>1, <2>1, <2>4, ClientGivesUp
<1>8. CASE i <= Len(SourceBytes(Current))
  <2>1. /\ client' = [client EXCEPT !.missing = client.missing \ {i}]
        /\ wire' = [type |-> "chunk", path |-> Current, index |-> i, bytes |-> SourceBytes(Current)[i]]
    BY <1>8 DEF ClientSendsChunk
  <2> HIDE DEF i
  <2>2. /\ client'.pc = "send" /\ client'.plan = client.plan /\ client'.tree = client.tree
        /\ client'.todo = client.todo /\ client'.number = client.number
        /\ client'.missing = client.missing \ {i}
    BY <1>1, <2>1 DEF TypeOK
  <2>3. /\ wire'.type = "chunk" /\ wire'.path = Current /\ wire'.index = i
        /\ wire'.bytes = SourceBytes(Current)[i] /\ wire' # Closed /\ wire' # Nothing
    BY <2>1 DEF Closed, Nothing
  <2>4. Due' = Due /\ Current' = Current /\ Size' = Size /\ Opened' = Opened
    BY <1>1, <2>2 DEF Due, Current, Size, Opened, nodeVars
  <2>5. /\ node.transfer[Current].open /\ node.transfer[Current].plan = client.plan
        /\ Len(client.plan) = Size
        /\ client.missing = (1..Size) \ node.transfer[Current].got
    BY <1>1, <1>6 DEF FileInv, OnWire, Nothing
  <2>6. i \in 1..Size /\ \A j \in 1..(i - 1) : j \in node.transfer[Current].got
    <3>1. i \in 1..Size
      BY <1>5, <2>5
    <3>2. ASSUME NEW j \in 1..(i - 1), j \notin node.transfer[Current].got PROVE FALSE
      <4>1. j \in 1..Size /\ j < i
        BY <1>6, <3>1
      <4>2. j \in client.missing
        BY <2>5, <3>2, <4>1
      <4> QED BY <1>5, <3>1, <4>1, <4>2
    <3> QED BY <3>1, <3>2
  <2>7. \A j \in client.missing \ {i} : i < j
    BY <1>3, <1>5
  <2>8. Current \in Opened
    BY <1>6, <2>5, DueFacts, <1>2 DEF Opened
  <2>9. ChunkInv'
    BY <1>1, <1>6, <2>2, <2>3, <2>4, <2>5, <2>6, <2>7, <2>8 DEF ChunkInv, TodoInv, nodeVars
  <2>10. Turns' /\ EndsInv'
    BY <2>2, <2>3 DEF Turns, EndsInv
  <2>11. TodoInv'
    <3>1. \A p \in Due \ client.todo : OnWire(p) = {} /\ OnWire(p)' = {}
      BY <1>1, <1>6, <2>3 DEF OnWire, Nothing
    <3>2. \A p \in Due \ client.todo : Accounted(p)'
      BY <1>1, <1>6, <3>1 DEF TodoInv, Accounted, nodeVars
    <3> QED BY <1>1, <1>6, <2>2, <2>4, <3>2 DEF TodoInv, nodeVars
  <2>12. FileInv'
    <3>1. OnWire(Current)' = {i}
      BY <2>3, <2>4 DEF OnWire
    <3>2. client'.missing = (1..Size) \ (node.transfer[Current].got \cup {i})
      BY <2>2, <2>5
    <3> QED BY <1>1, <2>2, <2>3, <2>4, <2>5, <3>1, <3>2 DEF FileInv, nodeVars
  <2>13. WireInv'
    BY <2>9, <2>10, <2>11, <2>12 DEF WireInv
  <2>14. HonestInv'
    <3> SUFFICES ASSUME ~spoiled' PROVE HonestInv'
      BY Zenon DEF HonestInv
    <3>1. /\ source = client.tree /\ \A p \in Opened : node.transfer[p].plan = node.tree[p].bytes
          /\ \A j \in 1..Len(client.plan) : client.plan[j] = client.tree[Current].bytes[j]
      BY <1>1, <1>2 DEF HonestInv
    <3>2. SourceBytes(Current)[i] = node.transfer[Current].plan[i]
      BY <1>1, <1>2, <1>6, <2>8, <3>1, HonestSource
    <3> QED BY <1>1, <2>2, <2>3, <2>4, <3>1, <3>2 DEF HonestInv, nodeVars
  <2> QED BY <1>1, <2>3, <2>13, <2>14, ClientKeeps DEF nodeVars
<1> QED BY <1>7, <1>8

LEMMA EndsFileCommit ==
  ASSUME TypeOK, NumberInv, MirrorInv, CommitsInv, ClientEndsFile
  PROVE  CommitsInv'
<1> DEFINE rest == client.todo \ {Current}
<1>1. /\ client.pc = "send" /\ client.missing = {} /\ UNCHANGED wire
      /\ client' = [client EXCEPT !.pc = "check", !.todo = rest, !.number = client.number + 1]
      /\ UNCHANGED <<nodeVars, source, acked, spoiled, bounds>>
  BY DEF ClientEndsFile
<1>2. TransferInv /\ WireInv /\ HonestInv /\ UndisturbedCommits
  BY DEF CommitsInv
<1> HIDE DEF rest
<1>3. /\ client'.pc = "check" /\ client'.tree = client.tree
      /\ client'.todo = rest /\ client'.number = client.number + 1
  BY <1>1 DEF TypeOK
<1>4. CASE wire = Closed
  BY <1>1, <1>3, <1>4, ClientUnaware
<1>5. CASE wire # Closed
  <2>1. /\ Turns /\ EndsInv /\ ChunkInv /\ TodoInv /\ FileInv
        /\ client.todo # {} /\ client.todo \in SUBSET Due
        /\ Current \in client.todo /\ Current \in Due /\ Size \in Nat
        /\ \A q \in client.todo : Rank[Current] <= Rank[q]
    BY <1>1, <1>2, <1>5, OpenStream
  <2>2. Due' = Due /\ Opened' = Opened /\ Due \in SUBSET Paths
    BY <1>1, TransferFacts DEF Due, Opened, nodeVars
  <2>3. wire.type = "chunk" => wire.path = Current /\ wire.index \in 1..Len(node.transfer[Current].plan)
    BY <1>1, <2>1 DEF ChunkInv
  <2>4. Accounted(Current)
    <3>1. node.transfer[Current].open /\ Len(node.transfer[Current].plan) = Size
      BY <1>1, <2>1 DEF FileInv
    <3>2. Current \in Opened
      BY <2>1, <2>2, <3>1 DEF Opened
    <3>3. node.transfer[Current].got \subseteq 1..Size
      BY <1>2, <3>1, <3>2 DEF TransferInv
    <3>4. OnWire(Current) \subseteq 1..Size
      BY <2>3, <3>1 DEF OnWire
    <3>5. (1..Size) \ (node.transfer[Current].got \cup OnWire(Current)) = {}
      BY <1>1, <2>1 DEF FileInv
    <3> QED BY <3>1, <3>3, <3>4, <3>5 DEF Accounted
  <2>5. Due \ rest = (Due \ client.todo) \cup {Current} /\ (Due \ rest) \ {Current} = Due \ client.todo
    BY <2>1 DEF rest
  <2>6. \A p \in Due \ rest : Accounted(p)
    BY <2>1, <2>4, <2>5 DEF TodoInv
  <2>7. Cardinality(Due \ rest) = client.number + 1
    <3>1. Due \ rest \in SUBSET Paths /\ Current \in Due \ rest
      BY <2>1, <2>2 DEF rest
    <3>2. Cardinality(Due \ client.todo) = Cardinality(Due \ rest) - 1 /\ Cardinality(Due \ rest) \in Nat
      BY <2>5, <3>1, PathCount
    <3> QED BY <2>1, <3>2 DEF TodoInv
  <2>8. \A p \in rest : \A q \in Due : Rank[p] < Rank[q] => q \in rest
    <3> SUFFICES ASSUME NEW p \in rest, NEW q \in Due, Rank[p] < Rank[q] PROVE q \in rest
      OBVIOUS
    <3>1. p \in client.todo /\ p \in Paths /\ q \in Paths /\ Current \in Paths
      BY <2>1, <2>2 DEF rest
    <3>2. q \in client.todo /\ q # Current
      BY <2>1, <3>1, RankFacts DEF TodoInv
    <3> QED BY <3>2 DEF rest
  <2>9. TodoInv'
    <3>1. \A p \in Due \ rest : Accounted(p)'
      BY <1>1, <2>6 DEF Accounted, OnWire, nodeVars
    <3>2. rest \subseteq Due /\ \A p \in rest : ~node.transfer[p].open
      BY <2>1 DEF rest, TodoInv
    <3>3. node.pc = "serving" /\ client.tree = node.tree
      BY <2>1 DEF TodoInv
    <3> QED BY <1>1, <1>3, <2>2, <2>7, <2>8, <3>1, <3>2, <3>3, Zenon DEF TodoInv, nodeVars
  <2>10. Turns' /\ EndsInv'
    BY <1>1, <1>3, <2>1, <2>2 DEF Turns, EndsInv, nodeVars, Nothing
  <2>11. ChunkInv'
    <3>1. Current \notin rest
      BY DEF rest
    <3> QED BY <1>1, <1>3, <2>1, <2>2, <2>3, <3>1 DEF ChunkInv, nodeVars
  <2>12. WireInv'
    BY <1>3, <2>9, <2>10, <2>11 DEF WireInv
  <2>13. HonestInv'
    BY <1>1, <1>2, <1>3, <2>2 DEF HonestInv, nodeVars
  <2> QED BY <1>1, <1>2, <1>5, <2>12, <2>13, ClientKeeps DEF nodeVars, UndisturbedCommits
<1> QED BY <1>4, <1>5

LEMMA CommitsCommit ==
  ASSUME TypeOK, NumberInv, MirrorInv, CommitsInv, ClientCommits
  PROVE  CommitsInv'
<1>1. /\ client.pc = "check" /\ client.todo = {} /\ wire = Nothing /\ wire # Closed
      /\ client' = [client EXCEPT !.pc = "committed"] /\ wire' = [type |-> "commit"]
      /\ UNCHANGED <<nodeVars, source, acked, spoiled, bounds>>
  BY DEF ClientCommits, Nothing, Closed
<1>2. TransferInv /\ WireInv /\ HonestInv
  BY DEF CommitsInv
<1>3. client'.pc = "committed" /\ client'.tree = client.tree
  BY <1>1 DEF TypeOK
<1>4. Opened' = Opened /\ (Complete' <=> Complete)
  BY <1>1 DEF Opened, Complete, nodeVars
<1>5. TodoInv
  BY <1>1, <1>2, OpenStream
<1>6. Complete
  <2>1. \A p \in Due : Accounted(p) /\ OnWire(p) = {}
    BY <1>1, <1>5 DEF TodoInv, OnWire, Nothing
  <2> QED BY <2>1 DEF Accounted, Complete, Due
<1>7. WireInv'
  BY <1>1, <1>3, <1>4, <1>5, <1>6 DEF WireInv, Turns, EndsInv, ChunkInv, TodoInv, Nothing, nodeVars
<1>8. HonestInv'
  BY <1>1, <1>2, <1>3, <1>4 DEF HonestInv, nodeVars
<1> QED BY <1>1, <1>7, <1>8, ClientKeeps DEF nodeVars, Closed

LEMMA ReadsReplyCommit ==
  ASSUME TypeOK, NumberInv, MirrorInv, CommitsInv, ClientReadsReply
  PROVE  CommitsInv'
<1>1. /\ wire.type = "committed" /\ wire' = Nothing
      /\ UNCHANGED <<nodeVars, source, spoiled, bounds>>
  BY DEF ClientReadsReply
<1>2. client'.pc = "idle"
  BY DEF ClientReadsReply, ClientIdle
<1>3. node.pc \in {"persist", "off"}
  BY <1>1 DEF MirrorInv, SessionInv
<1>4. Opened' = Opened
  BY <1>1 DEF Opened, nodeVars
<1>5. WireInv'
  BY <1>1, <1>2, <1>3 DEF WireInv, Turns, EndsInv, ChunkInv, Nothing, nodeVars
<1>6. HonestInv'
  BY <1>1, <1>2, <1>4 DEF CommitsInv, HonestInv, nodeVars, Nothing
<1> QED BY <1>1, <1>5, <1>6, ClientKeeps DEF nodeVars, Closed, Nothing

LEMMA ClientCommitsStep ==
  ASSUME TypeOK, NumberInv, MirrorInv, CommitsInv, Client
  PROVE  CommitsInv'
<1>1. CASE ClientSeesClose
  BY <1>1, ClientGivesUp DEF ClientSeesClose, CommitsInv, UndisturbedCommits
<1> QED BY <1>1, StartsCommit, ReadsDiffCommit, ChecksFileCommit, HashesChunkCommit, SendsPlanCommit,
           ReadsMissingCommit, SendsChunkCommit, EndsFileCommit, CommitsCommit, ReadsReplyCommit
        DEF Client

-----------------------------------------------------------------------------
(* The node's steps up to the commit. *)

LEMMA NodeGivesUp ==
  ASSUME CommitsInv, NodeThrows, GroundInv', UNCHANGED clientVars, spoiled \/ doomed'
  PROVE  CommitsInv'
<1>1. node' = NodeOff /\ wire' = Closed /\ node'.pc = "off" /\ wire'.type = "closed"
  BY OffIsTyped DEF NodeThrows, Closed
<1>2. NodeInv'
  BY <1>1, EndedNode
<1>3. WireInv' /\ HonestInv'
  BY <1>1, ClosedStream DEF CommitsInv, clientVars
<1>4. UndisturbedCommits'
  BY <1>1 DEF UndisturbedCommits, clientVars
<1> QED BY <1>2, <1>3, <1>4 DEF CommitsInv, NodeInv

LEMMA SameGround ==
  ASSUME GroundInv, UNCHANGED <<mirror, staging>>
  PROVE  GroundInv'
BY DEF GroundInv, Rooted

LEMMA BeginsCommit ==
  ASSUME TypeOK, NumberInv, MirrorInv, CommitsInv, NodeBegins
  PROVE  CommitsInv'
<1>1. /\ node.pc = "off" /\ wire.type = "manifest" /\ wire # Closed /\ (doomed' <=> InTheWay(wire.tree))
      /\ UNCHANGED <<clientVars, mirror, staging, state, acked, dirty>>
  BY DEF NodeBegins, Closed
<1>2. client.pc = "diff" /\ wire.tree \in Trees
  BY <1>1, WireFields DEF TypeOK, CommitsInv, WireInv, Turns
<1>3. GroundInv'
  BY <1>1, SameGround DEF CommitsInv
<1>4. CASE wire.rev # state.rev + 1
  <2>1. /\ wire' = [type |-> "diff", accepted |-> FALSE, current |-> state.rev, requested |-> {}]
        /\ UNCHANGED node
    BY <1>4 DEF NodeBegins
  <2>2. NodeInv'
    BY <1>1, <2>1, StillNode DEF CommitsInv, NodeInv
  <2>3. WireInv'
    BY <1>1, <1>2, <2>1 DEF WireInv, Turns, EndsInv, ChunkInv, Nothing, clientVars
  <2>4. Opened' = Opened
    BY <2>1 DEF Opened
  <2>5. HonestInv'
    BY <1>1, <1>2, <2>1, <2>4 DEF CommitsInv, HonestInv, clientVars
  <2>6. UndisturbedCommits'
    BY <1>1, <2>1 DEF UndisturbedCommits, Closed
  <2> QED BY <1>3, <2>2, <2>3, <2>5, <2>6 DEF CommitsInv, NodeInv
<1>5. CASE wire.rev = state.rev + 1 /\ \E p \in Paths : wire.tree[p].kind = "file" /\ LinkAbove(mirror, p)
  <2>1. NodeThrows
    BY <1>5 DEF NodeBegins
  <2>2. doomed'
    BY <1>1, <1>5, Zenon DEF InTheWay
  <2> QED BY <1>1, <1>3, <2>1, <2>2, NodeGivesUp
<1>6. CASE wire.rev = state.rev + 1 /\ ~ \E p \in Paths : wire.tree[p].kind = "file" /\ LinkAbove(mirror, p)
  <2> DEFINE requested == Requested(wire.tree)
             wanted == Wanted(wire.tree, requested)
  <2>1. /\ wire' = [type |-> "diff", accepted |-> TRUE, current |-> state.rev, requested |-> requested]
        /\ node' = [NodeOff EXCEPT !.pc = "serving", !.rev = wire.rev, !.tree = wire.tree,
                      !.requested = requested]
    BY <1>6, Zenon DEF NodeBegins
  <2>2. /\ requested \in SUBSET Paths /\ wanted \in SUBSET requested
        /\ \A p \in requested : wire.tree[p].kind = "file"
        /\ \A p \in Paths : wire.tree[p].kind = "file" /\ p \notin requested => mirror[p] = wire.tree[p]
    BY DEF Requested, Wanted
  <2>3. doomed' <=> \E p \in wanted : \/ \E q \in Above[p] : mirror[q].kind = "file"
                                      \/ Leads(p, wanted)
                                      \/ Len(staging[<<p, Number(p, wanted)>>]) > Len(wire.tree[p].bytes)
    BY <1>1, <1>6, Zenon DEF InTheWay
  <2> HIDE DEF requested, wanted
  <2>4. /\ node'.pc = "serving" /\ node'.tree = wire.tree /\ node'.requested = requested
        /\ \A p \in Paths : ~node'.transfer[p].open
    BY <2>1 DEF NodeOff, NoTransfers, NoTransfer
  <2>5. Opened' = {} /\ Due' = wanted
    BY <2>4 DEF Opened, Due, wanted
  <2>6. TransferInv' /\ ServingInv'
    BY <2>2, <2>4, <2>5 DEF TransferInv, ServingInv
  <2>7. PhaseInv'
    BY <2>4 DEF PhaseInv, Past, Committing
  <2>8. SmoothInv'
    <3> SUFFICES ASSUME ~doomed' PROVE SmoothInv'
      BY DEF SmoothInv
    <3>1. ASSUME NEW p \in wanted
          PROVE  /\ \A q \in Above[p] : mirror[q].kind \in {"absent", "directory"}
                 /\ Len(staging[<<p, Number(p, wanted)>>]) <= Len(wire.tree[p].bytes)
                 /\ ~Leads(p, wanted)
      <4>1. p \in Paths /\ wire.tree[p].kind = "file" /\ wire.tree[p].bytes \in Seq(Chunks)
        BY <1>2, <2>2, TreeFacts
      <4>2. ASSUME NEW q \in Above[p] PROVE mirror[q].kind \in {"absent", "directory"}
        <5>1. q \in Paths /\ mirror[q].kind \in Kinds
          BY <4>1, AboveFacts DEF TypeOK
        <5>2. mirror[q].kind # "symlink"
          BY <1>6, <4>1 DEF LinkAbove
        <5>3. mirror[q].kind # "file"
          BY <2>3
        <5> QED BY <5>1, <5>2, <5>3 DEF Kinds
      <4>3. Number(p, wanted) \in Numbers
        BY <2>2, <4>1, NumberFacts
      <4>4. staging[<<p, Number(p, wanted)>>] \in Bytes
        BY <4>1, <4>3 DEF TypeOK, Transfers
      <4>5. Len(staging[<<p, Number(p, wanted)>>]) \in Nat /\ Len(wire.tree[p].bytes) \in Nat
        BY <4>1, <4>4 DEF Bytes
      <4> QED BY <2>3, <4>2, <4>5
    <3>2. \A p \in wanted : mirror[p].kind = "symlink" =>
            /\ mirror[mirror[p].to].kind = "absent"
            /\ \A q \in wanted : Rank[q] < Rank[p] => mirror[p].to \notin Above[q]
      BY <3>1 DEF Leads
    <3>3. \A p \in Entries' : node'.tree[p].kind = "file" /\ p \notin node'.requested => mirror'[p] = node'.tree[p]
      BY <1>1, <2>2, <2>4 DEF Entries
    <3>4. \A p \in wanted : Len(staging'[<<p, Number(p, wanted)>>]) <= Len(node'.tree[p].bytes)
      BY <1>1, <2>4, <3>1
    <3>5. \A p \in wanted : \A q \in Above[p] : mirror'[q].kind \in {"absent", "directory"}
      BY <1>1, <3>1
    <3> QED BY <1>1, <2>4, <2>5, <3>2, <3>3, <3>4, <3>5 DEF SmoothInv, Past
  <2>9. DoomInv'
    <3> SUFFICES ASSUME doomed' PROVE \E p \in Due' : Blocked(p)' \/ Misled(p)' \/ TooLong(p)'
      BY Zenon DEF DoomInv
    <3>1. PICK p \in wanted : \/ \E q \in Above[p] : mirror[q].kind = "file"
                              \/ Leads(p, wanted)
                              \/ Len(staging[<<p, Number(p, wanted)>>]) > Len(wire.tree[p].bytes)
      BY <2>3
    <3>2. (\E q \in Above[p] : mirror[q].kind = "file") => Blocked(p)'
      BY <1>1, <2>4 DEF Blocked
    <3>3. Leads(p, wanted) => Misled(p)'
      BY <1>1, <2>4, <2>5 DEF Leads, Misled
    <3>4. Len(staging[<<p, Number(p, wanted)>>]) > Len(wire.tree[p].bytes) => TooLong(p)'
      BY <1>1, <2>4, <2>5 DEF TooLong
    <3> QED BY <2>5, <3>1, <3>2, <3>3, <3>4
  <2>10. WireInv'
    BY <1>1, <1>2, <2>1, <2>4, <2>5 DEF WireInv, Turns, EndsInv, ChunkInv, Nothing, clientVars
  <2>11. HonestInv'
    BY <1>1, <1>2, <2>1, <2>5 DEF CommitsInv, HonestInv, clientVars
  <2>12. UndisturbedCommits'
    BY <2>1, <2>4 DEF UndisturbedCommits, Closed
  <2> QED BY <1>3, <2>6, <2>7, <2>8, <2>9, <2>10, <2>11, <2>12 DEF CommitsInv, NodeInv
<1> QED BY <1>4, <1>5, <1>6, Zenon

(* A link of the mirror leads to a top-level path that is no link. *)
LEMMA LinkFacts ==
  ASSUME TypeOK, GroundInv, NEW p \in Paths, mirror[p].kind = "symlink"
  PROVE  /\ IsTarget(mirror[p].to) /\ mirror[p].to \in Paths /\ mirror[p].to # p
         /\ \E tree \in Trees : tree[p].kind = "symlink"
         /\ Rooted(p)
<1>1. PICK tree \in Trees : mirror[p] = tree[p]
  BY DEF GroundInv
<1>2. IsTarget(mirror[p].to) /\ tree[p].kind = "symlink"
  BY <1>1, TreeFacts
<1>3. Rooted(p)
  BY DEF GroundInv
<1> QED BY <1>2, <1>3 DEF IsTarget

(* A file that has one of its chunks has made the directories above it. *)
LEMMA GotIsRooted ==
  ASSUME TypeOK, GroundInv, TransferInv, ServingInv, node.pc = "serving",
         NEW p \in Opened, node.transfer[p].got # {}
  PROVE  Rooted(p)
<1>1. /\ p \in Due /\ p \in Paths /\ node.transfer[p].at \in Paths
      /\ node.transfer[p].number \in Numbers /\ node.transfer[p].got \in SUBSET Indexes
  BY DueFacts, TransferFacts
<1>2. CASE node.transfer[p].at # p
  BY <1>1, <1>2, LinkFacts DEF ServingInv
<1>3. CASE node.transfer[p].at = p
  <2>1. PICK i \in node.transfer[p].got : i \in Nat /\ i >= 1
    BY <1>1 DEF Indexes
  <2>2. i <= Len(Staged(p))
    BY <2>1 DEF ServingInv, Holds
  <2>3. Staged(p) # <<>>
    BY <2>1, <2>2
  <2> QED BY <1>1, <1>3, <2>3 DEF Staged, GroundInv
<1> QED BY <1>2, <1>3

LEMMA PlanTransfers ==
  ASSUME TypeOK, NumberInv, MirrorInv, CommitsInv, NodeAcceptsPlan
  PROVE  LET c == Current
             at == Resolved(mirror, c)
             got == Confirmed(client.plan, staging[<<at, client.number>>]) IN
         /\ node.pc = "serving" /\ node'.pc = "serving" /\ wire # Closed /\ wire.type = "plan"
         /\ client.pc = "missing"
         /\ wire' = [type |-> "missing", missing |-> (1..Len(client.plan)) \ got]
         /\ node'.tree = node.tree /\ node'.requested = node.requested /\ node'.left = node.left
         /\ \A p \in Paths \ {c} : node'.transfer[p] = node.transfer[p]
         /\ node'.transfer[c] = [open |-> TRUE, at |-> at, number |-> client.number, got |-> got,
                                 plan |-> client.plan]
         /\ Due' = Due /\ Opened' = Opened \cup {c} /\ c \in Due /\ c \in Paths /\ c \notin Opened
         /\ client.number = Number(c, Due) /\ client.plan \in Seq(Chunks)
         /\ Len(client.plan) = Len(node.tree[c].bytes)
<1> DEFINE c == Current
           at == Resolved(mirror, c)
           got == Confirmed(client.plan, staging[<<at, client.number>>])
           opened == [open |-> TRUE, at |-> at, number |-> client.number, got |-> got,
                      plan |-> client.plan]
<1>1. node.pc = "serving" /\ wire.type = "plan" /\ wire # Closed
  BY DEF NodeAcceptsPlan, Closed
<1>2. TransferInv /\ WireInv
  BY DEF CommitsInv
<1>3. client.pc = "missing"
  BY <1>1, <1>2 DEF WireInv, Turns
<1>4. /\ TodoInv /\ FileInv /\ c \in Due /\ c \in Paths /\ c \in client.todo
      /\ client.number = Number(c, Due) /\ Size = Len(node.tree[c].bytes)
  BY <1>1, <1>2, <1>3, OpenStream
<1>5. wire.path = c /\ wire.number = client.number /\ wire.plan = client.plan /\ Len(client.plan) = Size
  BY <1>1, <1>3, <1>4 DEF FileInv
<1>6. client.plan \in Seq(Chunks)
  BY DEF TypeOK
<1>7. c \notin Opened
  BY <1>1, <1>3, <1>4 DEF TodoInv, Opened
<1>8. /\ node' = [node EXCEPT !.transfer[c] = opened]
      /\ wire' = [type |-> "missing", missing |-> (1..Len(client.plan)) \ got]
  BY <1>5 DEF NodeAcceptsPlan
<1> HIDE DEF opened, got, c
<1>9. /\ node'.pc = "serving" /\ node'.tree = node.tree /\ node'.requested = node.requested
      /\ node'.left = node.left
      /\ \A p \in Paths \ {c} : node'.transfer[p] = node.transfer[p]
      /\ node'.transfer[c] = opened
  BY <1>1, <1>4, <1>8 DEF TypeOK
<1>10. opened.open
  BY DEF opened
<1>11. Due' = Due /\ Opened' = Opened \cup {c}
  BY <1>4, <1>9, <1>10 DEF Due, Opened
<1> QED BY <1>1, <1>3, <1>4, <1>5, <1>6, <1>7, <1>8, <1>9, <1>11 DEF c, got, opened

LEMMA PlanCommit ==
  ASSUME TypeOK, NumberInv, MirrorInv, CommitsInv, NodeAcceptsPlan
  PROVE  CommitsInv'
<1>c. PICK c : c = Current
  OBVIOUS
<1>at. PICK at : at = Resolved(mirror, c)
  OBVIOUS
<1>got. PICK got : got = Confirmed(client.plan, staging[<<at, client.number>>])
  OBVIOUS
<1>1. /\ node.pc = "serving" /\ node'.pc = "serving" /\ wire # Closed /\ wire.type = "plan"
      /\ client.pc = "missing"
      /\ wire' = [type |-> "missing", missing |-> (1..Len(client.plan)) \ got]
      /\ node'.tree = node.tree /\ node'.requested = node.requested /\ node'.left = node.left
      /\ \A p \in Paths \ {c} : node'.transfer[p] = node.transfer[p]
      /\ node'.transfer[c] = [open |-> TRUE, at |-> at, number |-> client.number, got |-> got,
                              plan |-> client.plan]
  BY PlanTransfers, <1>c, <1>at, <1>got
<1>2. /\ Due' = Due /\ Opened' = Opened \cup {c} /\ c \in Due /\ c \in Paths /\ c \notin Opened
      /\ client.number = Number(c, Due) /\ client.plan \in Seq(Chunks)
      /\ Len(client.plan) = Len(node.tree[c].bytes)
  BY PlanTransfers, <1>c, <1>at, <1>got
<1>3. /\ GroundInv /\ TransferInv /\ ServingInv /\ SmoothInv /\ DoomInv /\ WireInv /\ HonestInv
      /\ UndisturbedCommits
  BY DEF CommitsInv
<1>4. UNCHANGED <<clientVars, mirror, staging, state, acked, dirty, doomed>>
  BY DEF NodeAcceptsPlan
<1>5. /\ TodoInv /\ FileInv /\ c \in client.todo /\ client.tree = node.tree
      /\ c = Current /\ \A q \in client.todo : Rank[c] <= Rank[q]
  BY <1>1, <1>3, OpenStream, <1>c
<1>6. Opened \in SUBSET Due /\ Due \in SUBSET Paths /\ \A p \in Opened : p \in Paths \ {c}
  BY <1>2, <1>3, DueFacts, TransferFacts
<1>7. /\ node'.transfer[c].open /\ node'.transfer[c].at = at /\ node'.transfer[c].number = client.number
      /\ node'.transfer[c].got = got /\ node'.transfer[c].plan = client.plan
  BY <1>1
\* What was sent before is all there.
<1>8. \A q \in Due : Rank[q] < Rank[c] => q \in Opened /\ node.transfer[q].got # {}
  <2> SUFFICES ASSUME NEW q \in Due, Rank[q] < Rank[c] PROVE q \in Opened /\ node.transfer[q].got # {}
    OBVIOUS
  <2>1. q \in Paths /\ q \notin client.todo
    BY <1>2, <1>5, <1>6, RankFacts
  <2>2. Accounted(q) /\ OnWire(q) = {}
    BY <1>1, <1>5, <2>1 DEF TodoInv, OnWire
  <2>3. q \in Opened /\ node.transfer[q].got = 1..Len(node.transfer[q].plan)
    BY <2>1, <2>2 DEF Accounted, Opened
  <2>4. Len(node.transfer[q].plan) = Len(node.tree[q].bytes) /\ Len(node.tree[q].bytes) \in Nat
        /\ Len(node.tree[q].bytes) >= 1
    BY <1>3, <2>3, DueFacts DEF TransferInv
  <2>5. 1 \in node.transfer[q].got
    BY <2>3, <2>4
  <2> QED BY <2>3, <2>5
<1>9. /\ at = c \/ (mirror[c].kind = "symlink" /\ at = mirror[c].to /\ IsTarget(at) /\ at # c)
      /\ at = c => mirror[c].kind # "symlink" \/ mirror[mirror[c].to].kind = "absent"
  BY <1>2, <1>3, <1>at, LinkFacts DEF Resolved
<1>10. got = {i \in 1..Len(client.plan) :
                i <= Len(staging[<<at, client.number>>]) /\ staging[<<at, client.number>>][i] = client.plan[i]}
  BY <1>got DEF Confirmed
<1>11. TransferInv'
  <2>1. ASSUME NEW p \in Opened
        PROVE  /\ p \in Due /\ node'.transfer[p].number = Number(p, Due)
               /\ Len(node'.transfer[p].plan) = Len(node.tree[p].bytes)
               /\ node'.transfer[p].got \subseteq 1..Len(node'.transfer[p].plan)
               /\ node'.transfer[p].at = p \/ IsTarget(node'.transfer[p].at)
               /\ \A q \in Due : Rank[q] < Rank[p] => q \in Opened
    BY <1>1, <1>3, <1>6 DEF TransferInv
  <2>2. got \subseteq 1..Len(client.plan)
    BY <1>10
  <2> QED BY <1>1, <1>2, <1>3, <1>7, <1>8, <1>9, <2>1, <2>2 DEF TransferInv
<1>12. /\ \A p \in Opened : Staged(p)' = Staged(p) /\ (Holds(p)' <=> Holds(p))
       /\ Holds(c)'
  <2>1. ASSUME NEW p \in Opened PROVE Staged(p)' = Staged(p) /\ (Holds(p)' <=> Holds(p))
    <3>1. node'.transfer[p] = node.transfer[p] /\ staging' = staging
      BY <1>1, <1>4, <1>6
    <3> QED BY <3>1 DEF Staged, Holds
  <2>2. Staged(c)' = staging[<<at, client.number>>]
    BY <1>4, <1>7 DEF Staged
  <2>3. Holds(c)'
    BY <1>7, <1>10, <2>2 DEF Holds
  <2> QED BY <2>1, <2>3
<1>13. ServingInv'
  <2>1. ASSUME NEW p \in Opened
        PROVE  /\ Holds(p)'
               /\ node'.transfer[p].at # p =>
                    mirror'[p].kind = "symlink" /\ node'.transfer[p].at = mirror'[p].to
    <3>1. node'.transfer[p] = node.transfer[p] /\ mirror' = mirror
      BY <1>1, <1>4, <1>6
    <3>2. /\ Holds(p)
          /\ node.transfer[p].at # p => mirror[p].kind = "symlink" /\ node.transfer[p].at = mirror[p].to
      BY <1>1, <1>3 DEF ServingInv
    <3> QED BY <1>12, <3>1, <3>2
  <2>2. node'.transfer[c].at # c => mirror'[c].kind = "symlink" /\ node'.transfer[c].at = mirror'[c].to
    BY <1>4, <1>7, <1>9
  <2> QED BY <1>2, <1>12, <2>1, <2>2 DEF ServingInv
<1>14. PhaseInv'
  BY <1>1 DEF PhaseInv, Past, Committing
<1>15. SmoothInv'
  <2> SUFFICES ASSUME ~doomed PROVE SmoothInv'
    BY <1>4 DEF SmoothInv
  <2>1. at = c
    <3>1. mirror[c].kind = "symlink" => mirror[mirror[c].to].kind = "absent"
      BY <1>1, <1>2, <1>3 DEF SmoothInv
    <3> QED BY <3>1, <1>at DEF Resolved
  <2>2. Entries' = Entries
    BY <1>1 DEF Entries
  <2>3. \A p \in Opened' : node'.transfer[p].at = p
    BY <1>1, <1>2, <1>3, <1>6, <1>7, <2>1 DEF SmoothInv
  <2>4. /\ \A p \in Due \ Opened' : mirror[p].kind = "symlink" =>
             /\ mirror[mirror[p].to].kind = "absent"
             /\ \A q \in Due : Rank[q] < Rank[p] => mirror[p].to \notin Above[q]
        /\ \A p \in Due : \A q \in Above[p] : mirror[q].kind \in {"absent", "directory"}
        /\ \A p \in Entries : node.tree[p].kind = "file" /\ p \notin node.requested => mirror[p] = node.tree[p]
    BY <1>1, <1>2, <1>3 DEF SmoothInv
  <2>5. \A p \in Due : Len(staging[<<p, Number(p, Due)>>]) <= Len(node.tree[p].bytes)
    BY <1>1, <1>3 DEF SmoothInv
  <2>6. \A p \in Opened' : Holds(p)'
    BY <1>1, <1>13 DEF ServingInv
  <2> QED BY <1>1, <1>2, <1>4, <2>2, <2>3, <2>4, <2>5, <2>6 DEF SmoothInv, Past
<1>16. DoomInv'
  <2> SUFFICES ASSUME doomed PROVE \E p \in Due : Blocked(p)' \/ Misled(p)' \/ TooLong(p)'
    BY <1>2, <1>4, Zenon DEF DoomInv
  <2>1. PICK p \in Due : Blocked(p) \/ Misled(p) \/ TooLong(p)
    BY <1>1, <1>3 DEF DoomInv
  <2>2. Blocked(p) => Blocked(p)'
    BY <1>1, <1>4 DEF Blocked
  <2>3. CASE p # c
    <3>1. p \in Paths \ {c} /\ (p \in Opened' <=> p \in Opened)
      BY <1>2, <1>6, <2>3
    <3>2. Misled(p) => Misled(p)'
      BY <1>1, <1>2, <1>4, <3>1 DEF Misled, Leads
    <3>3. TooLong(p) => TooLong(p)'
      BY <1>1, <1>2, <1>4, <3>1 DEF TooLong
    <3> QED BY <2>1, <2>2, <3>2, <3>3
  <2>4. CASE p = c
    <3>1. p \in Opened' /\ p \notin Opened
      BY <1>2, <2>4
    <3>2. CASE Misled(p)
      <4>1. mirror[c].kind = "symlink" /\ Leads(c, Due)
        BY <1>1, <2>4, <3>1, <3>2 DEF Misled, Committing
      <4>2. mirror[mirror[c].to].kind # "absent"
        <5> SUFFICES ASSUME NEW q \in Due, Rank[q] < Rank[c], mirror[c].to \in Above[q]
                     PROVE  mirror[mirror[c].to].kind # "absent"
          BY <4>1 DEF Leads
        <5>1. Rooted(q)
          BY <1>1, <1>3, <1>8, GotIsRooted
        <5> QED BY <5>1 DEF Rooted
      <4>3. at # c
        BY <1>9, <4>1, <4>2
      <4> QED BY <1>1, <1>4, <1>7, <2>4, <3>1, <4>1, <4>3 DEF Misled
    <3>3. CASE TooLong(p)
      <4>1. CASE at = c
        BY <1>1, <1>2, <1>4, <1>7, <2>4, <3>3, <4>1 DEF TooLong
      <4>2. CASE at # c
        <5>1. Misled(p)'
          BY <1>1, <1>4, <1>7, <1>9, <2>4, <3>1, <4>2 DEF Misled
        <5> QED BY <5>1
      <4> QED BY <4>1, <4>2
    <3> QED BY <2>1, <2>2, <3>2, <3>3
  <2> QED BY <2>3, <2>4
<1>17. Current' = Current /\ Size' = Size /\ Size = Len(client.plan)
  BY <1>1, <1>4, <1>5 DEF Current, Size, clientVars, FileInv
<1>18. Turns' /\ EndsInv' /\ ChunkInv'
  BY <1>1, <1>4 DEF Turns, EndsInv, ChunkInv, Nothing, clientVars
<1>19. TodoInv'
  <2>1. \A p \in Due \ client.todo : p \in Paths \ {c} /\ Accounted(p) /\ OnWire(p) = {} /\ OnWire(p)' = {}
    BY <1>1, <1>5, <1>6 DEF TodoInv, OnWire
  <2>2. \A p \in Due \ client.todo : Accounted(p)'
    BY <1>1, <2>1 DEF Accounted
  <2>3. \A p \in client.todo : node'.transfer[p].open => p = c
    BY <1>1, <1>5, <1>6 DEF TodoInv
  <2> QED BY <1>1, <1>2, <1>4, <1>5, <1>17, <2>2, <2>3 DEF TodoInv, clientVars
<1>20. FileInv'
  BY <1>1, <1>4, <1>5, <1>7, <1>17 DEF FileInv, clientVars
<1>21. WireInv'
  BY <1>18, <1>19, <1>20 DEF WireInv
<1>22. HonestInv'
  <2> SUFFICES ASSUME ~spoiled PROVE HonestInv'
    BY <1>4 DEF HonestInv, clientVars
  <2>1. /\ source = client.tree /\ \A p \in Opened : node.transfer[p].plan = node.tree[p].bytes
        /\ \A i \in 1..Len(client.plan) : client.plan[i] = client.tree[Current].bytes[i]
    BY <1>1, <1>3 DEF HonestInv
  <2>2. node.tree[c].bytes \in Seq(Chunks)
    BY <1>2, <1>3, DueFacts
  <2>3. client.plan = node.tree[c].bytes
    BY <1>2, <1>5, <2>1, <2>2
  <2> QED BY <1>1, <1>2, <1>4, <1>6, <1>7, <1>17, <2>1, <2>3 DEF HonestInv, clientVars
<1>23. UndisturbedCommits'
  BY <1>1, <1>3, <1>4 DEF UndisturbedCommits, Closed
<1>24. GroundInv'
  BY <1>3, <1>4, SameGround
<1> QED BY <1>11, <1>13, <1>14, <1>15, <1>16, <1>21, <1>22, <1>23, <1>24 DEF CommitsInv

(* What a write of the node's transfer leaves alone. *)
LEMMA WriteFacts ==
  ASSUME TypeOK, CommitsInv, node.pc = "serving", wire.type = "chunk", Accepts,
         NEW chunk, Writes(chunk)
  PROVE  /\ wire.path \in Opened /\ wire.path \in Due /\ wire.path \in Paths
         /\ wire.index \in 1..Len(Incoming.plan) /\ wire.index \in Indexes
         /\ \A j \in 1..(wire.index - 1) : j \in Incoming.got
         /\ Incoming.at \in Paths /\ Incoming.number \in Numbers
         /\ \A q \in Paths : /\ q \in Above[Incoming.at] => mirror'[q] = Directory
                                                         /\ mirror[q].kind \in {"absent", "directory"}
                             /\ q \notin Above[Incoming.at] => mirror'[q] = mirror[q]
         /\ staging' = [staging EXCEPT ![<<Incoming.at, Incoming.number>>] =
                          Put(staging[<<Incoming.at, Incoming.number>>], wire.index, chunk)]
         /\ GroundInv'
<1>1. wire # Closed
  BY DEF Closed
<1>2. ChunkInv /\ TransferInv /\ GroundInv
  BY <1>1 DEF CommitsInv, WireInv
<1>3. /\ wire.path \in Opened /\ wire.index \in 1..Len(Incoming.plan)
      /\ \A j \in 1..(wire.index - 1) : j \in Incoming.got
  BY <1>2 DEF ChunkInv, Incoming
<1>4. /\ wire.path \in Due /\ wire.path \in Paths /\ Incoming.at \in Paths /\ Incoming.number \in Numbers
      /\ Incoming.plan \in Seq(Chunks)
  BY <1>2, <1>3, DueFacts, TransferFacts DEF Incoming
<1>5. wire.index \in Indexes
  BY <1>3, <1>4 DEF Indexes
<1>6. staging' = [staging EXCEPT ![<<Incoming.at, Incoming.number>>] =
                    Put(staging[<<Incoming.at, Incoming.number>>], wire.index, chunk)]
  BY DEF Writes
<1>7. mirror' = WithParents(Incoming.at)
  BY DEF Writes
<1>8. GroundInv'
  BY <1>2, <1>4, <1>6, <1>7, GroundWrites
<1>9. \A q \in Above[Incoming.at] : mirror[q].kind \in {"absent", "directory"}
  BY DEF Accepts
<1>10. \A q \in Paths : mirror'[q] = IF q \in Above[Incoming.at] THEN Directory ELSE mirror[q]
  BY <1>7, ParentsFacts
<1> QED BY <1>3, <1>4, <1>5, <1>6, <1>8, <1>9, <1>10

LEMMA AcceptsChunkCommit ==
  ASSUME TypeOK, NumberInv, MirrorInv, CommitsInv, NodeAcceptsChunk
  PROVE  CommitsInv'
<1>1. /\ node.pc = "serving" /\ wire.type = "chunk" /\ wire # Closed
      /\ UNCHANGED <<clientVars, state, acked, dirty, doomed>>
  BY DEF NodeAcceptsChunk, Closed
<1>2. /\ GroundInv /\ TransferInv /\ ServingInv /\ SmoothInv /\ DoomInv /\ WireInv /\ HonestInv
      /\ Turns /\ EndsInv /\ ChunkInv /\ UndisturbedCommits
  BY <1>1 DEF CommitsInv, WireInv
<1>3. CASE ~Accepts
  <2>1. NodeThrows /\ UNCHANGED <<mirror, staging>>
    BY <1>3 DEF NodeAcceptsChunk
  <2>2. ASSUME ~spoiled, ~doomed PROVE FALSE
    <3>1. wire.path \in Opened /\ wire.path \in Due
      BY <1>1, <1>2, DueFacts DEF ChunkInv
    <3>2. wire.bytes = Incoming.plan[wire.index]
      BY <1>1, <1>2, <2>2 DEF HonestInv, Incoming
    <3>3. Incoming.at = wire.path
      BY <1>1, <1>2, <2>2, <3>1 DEF SmoothInv, Incoming
    <3>4. \A q \in Above[wire.path] : mirror[q].kind \in {"absent", "directory"}
      BY <1>1, <1>2, <2>2, <3>1 DEF SmoothInv
    <3> QED BY <1>3, <3>2, <3>3, <3>4 DEF Accepts
  <2>3. GroundInv'
    BY <1>2, <2>1, SameGround
  <2> QED BY <1>1, <2>1, <2>2, <2>3, NodeGivesUp
<1>4. CASE Accepts
  <2>p. PICK p : p = wire.path
    OBVIOUS
  <2>i. PICK i : i = wire.index
    OBVIOUS
  <2>at. PICK at : at = node.transfer[p].at
    OBVIOUS
  <2>n. PICK n : n = node.transfer[p].number
    OBVIOUS
  <2>in. Incoming = node.transfer[p]
    BY <2>p DEF Incoming
  <2>1. /\ Writes(wire.bytes) /\ wire' = Nothing
        /\ node' = [node EXCEPT !.transfer[p].got = node.transfer[p].got \cup {i}]
    BY <1>4, <2>p, <2>i DEF NodeAcceptsChunk
  <2>2. /\ p \in Opened /\ p \in Due /\ p \in Paths /\ i \in Indexes
        /\ i \in 1..Len(node.transfer[p].plan)
        /\ \A j \in 1..(i - 1) : j \in node.transfer[p].got
        /\ at \in Paths /\ n \in Numbers
        /\ \A q \in Paths : /\ q \in Above[at] => mirror'[q] = Directory
                                                  /\ mirror[q].kind \in {"absent", "directory"}
                            /\ q \notin Above[at] => mirror'[q] = mirror[q]
        /\ staging' = [staging EXCEPT ![<<at, n>>] = Put(staging[<<at, n>>], i, wire.bytes)]
        /\ GroundInv'
    BY <1>1, <1>4, <2>1, <2>in, <2>p, <2>i, <2>at, <2>n, WriteFacts
  <2>3. wire.bytes = node.transfer[p].plan[i]
    BY <1>4, <2>in, <2>i DEF Accepts
  <2>4. /\ node'.pc = "serving" /\ node'.tree = node.tree /\ node'.requested = node.requested
        /\ node'.left = node.left
        /\ \A q \in Paths : /\ node'.transfer[q].open = node.transfer[q].open
                            /\ node'.transfer[q].at = node.transfer[q].at
                            /\ node'.transfer[q].number = node.transfer[q].number
                            /\ node'.transfer[q].plan = node.transfer[q].plan
                            /\ q # p => node'.transfer[q].got = node.transfer[q].got
        /\ node'.transfer[p].got = node.transfer[p].got \cup {i}
    BY <1>1, <2>1, <2>2 DEF TypeOK
  <2>5. Opened' = Opened /\ Due' = Due /\ Entries' = Entries
    BY <2>4 DEF Opened, Due, Entries
  <2>6. Opened \in SUBSET Due /\ Due \in SUBSET Paths
    BY <1>2, DueFacts, TransferFacts
  <2>7. n = Number(p, Due)
    BY <1>2, <2>2, <2>n DEF TransferInv
  <2> DEFINE old == staging[<<at, n>>]
             put == Put(old, i, wire.bytes)
  <2>8. old \in Bytes /\ <<at, n>> \in Transfers
    BY <2>2 DEF TypeOK, Transfers
  <2>9. /\ staging'[<<at, n>>] = put
        /\ \A q \in Paths : \A m \in Numbers : q # at \/ m # n => staging'[<<q, m>>] = staging[<<q, m>>]
    BY <2>2, <2>8 DEF TypeOK, Transfers
  <2>10. Holds(p) /\ Staged(p) = old
    BY <1>1, <1>2, <2>2, <2>at, <2>n DEF ServingInv, Staged
  <2>11. i - 1 <= Len(old)
    <3>1. i \in Nat /\ i >= 1 /\ Len(old) \in Nat
      BY <2>2, <2>8 DEF Indexes, Bytes
    <3>2. CASE i = 1
      BY <3>1, <3>2
    <3>3. CASE i > 1
      <4>1. i - 1 \in 1..(i - 1)
        BY <3>1, <3>3
      <4>2. i - 1 \in node.transfer[p].got
        BY <2>2, <4>1
      <4> QED BY <2>10, <4>2 DEF Holds
    <3> QED BY <3>1, <3>2, <3>3
  <2>12. /\ put # <<>> /\ Len(put) >= Len(old) /\ i <= Len(put) /\ put[i] = wire.bytes
         /\ i <= Len(old) => Len(put) = Len(old)
         /\ i > Len(old) => Len(put) = i
         /\ \A j \in 1..Len(old) : j # i => put[j] = old[j]
    BY <2>2, <2>8, <2>11, PutFacts
  <2>13. Len(old) \in Nat /\ i \in Nat /\ Len(put) \in Nat
    BY <2>2, <2>8, <2>12 DEF Bytes, Indexes
  <2> HIDE DEF old, put
  \* Each transfer has its own number.
  <2>14. ASSUME NEW q \in Opened PROVE Holds(q)'
    <3>1. CASE q # p
      <4>1. node.transfer[q].number \in Numbers /\ node.transfer[q].number # n
            /\ node.transfer[q].at \in Paths /\ q \in Paths
        BY <1>2, <2>2, <2>6, <2>7, <3>1, DueFacts, TransferFacts DEF TransferInv
      <4>2. Staged(q)' = Staged(q)
        BY <2>4, <2>9, <4>1 DEF Staged
      <4>3. Holds(q)
        BY <1>1, <1>2 DEF ServingInv
      <4> QED BY <2>4, <3>1, <4>1, <4>2, <4>3 DEF Holds
    <3>2. CASE q = p
      <4>1. Staged(p)' = put
        BY <2>2, <2>4, <2>9, <2>at, <2>n DEF Staged
      <4>2. node'.transfer[p].plan = node.transfer[p].plan
            /\ node'.transfer[p].got = node.transfer[p].got \cup {i}
        BY <2>2, <2>4
      <4>3. ASSUME NEW j \in node.transfer[p].got, j # i
            PROVE  j <= Len(put) /\ put[j] = node.transfer[p].plan[j]
        <5>1. j \in Nat /\ j >= 1
          BY <2>2, <4>3, TransferFacts DEF Indexes
        <5>2. j <= Len(old) /\ old[j] = node.transfer[p].plan[j]
          BY <2>10 DEF Holds
        <5>3. j \in 1..Len(old)
          BY <2>13, <5>1, <5>2
        <5> QED BY <2>12, <2>13, <4>3, <5>1, <5>2, <5>3
      <4> QED BY <2>3, <2>12, <3>2, <4>1, <4>2, <4>3 DEF Holds
    <3> QED BY <3>1, <3>2
  <2>15. TransferInv'
    <3>1. node.transfer[p].got \cup {i} \subseteq 1..Len(node.transfer[p].plan)
      BY <1>2, <2>2 DEF TransferInv
    <3>2. ASSUME NEW q \in Opened
          PROVE  /\ q \in Due /\ node'.transfer[q].number = Number(q, Due)
                 /\ Len(node'.transfer[q].plan) = Len(node.tree[q].bytes)
                 /\ node'.transfer[q].got \subseteq 1..Len(node'.transfer[q].plan)
                 /\ node'.transfer[q].at = q \/ IsTarget(node'.transfer[q].at)
                 /\ \A r \in Due : Rank[r] < Rank[q] => r \in Opened
      BY <1>2, <2>4, <2>6, <3>1 DEF TransferInv
    <3>3. \A q \in node'.requested : node'.tree[q].kind = "file"
      BY <1>2, <2>4 DEF TransferInv
    <3> QED BY <2>4, <2>5, <3>2, <3>3 DEF TransferInv
  <2>16. ServingInv'
    <3>1. ASSUME NEW q \in Opened, node'.transfer[q].at # q
          PROVE  mirror'[q].kind = "symlink" /\ node'.transfer[q].at = mirror'[q].to
      <4>1. /\ q \in Paths /\ node'.transfer[q].at = node.transfer[q].at
            /\ mirror[q].kind = "symlink" /\ node.transfer[q].at = mirror[q].to
        BY <1>1, <1>2, <2>4, <2>6, <3>1 DEF ServingInv
      <4> QED BY <2>2, <4>1
    <3> QED BY <2>5, <2>14, <3>1 DEF ServingInv
  <2>17. PhaseInv'
    BY <2>4 DEF PhaseInv, Past, Committing
  <2>18. SmoothInv'
    <3> SUFFICES ASSUME ~doomed PROVE SmoothInv'
      BY <1>1 DEF SmoothInv
    <3>1. \A q \in Opened : node'.transfer[q].at = q
      BY <1>1, <1>2, <2>4, <2>6 DEF SmoothInv
    <3>2. at = p
      BY <2>2, <2>4, <2>at, <3>1
    <3>3. ASSUME NEW q \in Due \ Opened, mirror'[q].kind = "symlink"
          PROVE  /\ mirror'[mirror'[q].to].kind = "absent"
                 /\ \A r \in Due : Rank[r] < Rank[q] => mirror'[q].to \notin Above[r]
      <4>1. q \in Paths /\ mirror'[q] = mirror[q]
        BY <2>2, <2>6, <3>3, EntryFacts
      <4>2. /\ mirror[mirror[q].to].kind = "absent"
            /\ \A r \in Due : Rank[r] < Rank[q] => mirror[q].to \notin Above[r]
        BY <1>1, <1>2, <3>3, <4>1 DEF SmoothInv
      <4>3. mirror[q].to \in Paths
        BY <1>2, <3>3, <4>1, LinkFacts
      <4>4. Rank[p] < Rank[q]
        <5>1. ~(Rank[q] < Rank[p]) /\ q # p
          BY <1>2, <2>2, <3>3 DEF TransferInv
        <5> QED BY <2>2, <4>1, <5>1, RankFacts
      <4>5. mirror[q].to \notin Above[at]
        BY <2>2, <3>2, <4>2, <4>4
      <4> QED BY <2>2, <4>1, <4>2, <4>3, <4>5
    <3>4. \A q \in Due : \A r \in Above[q] : mirror'[r].kind \in {"absent", "directory"}
      <4> SUFFICES ASSUME NEW q \in Due, NEW r \in Above[q] PROVE mirror'[r].kind \in {"absent", "directory"}
        OBVIOUS
      <4>1. r \in Paths /\ mirror[r].kind \in {"absent", "directory"}
        BY <1>1, <1>2, <2>6, AboveFacts DEF SmoothInv
      <4> QED BY <2>2, <4>1, EntryFacts
    <3>5. \A q \in Entries : node.tree[q].kind = "file" /\ q \notin node.requested => mirror'[q] = node.tree[q]
      <4> SUFFICES ASSUME NEW q \in Entries, node.tree[q].kind = "file", q \notin node.requested
                   PROVE  mirror'[q] = node.tree[q]
        OBVIOUS
      <4>1. q \in Paths /\ mirror[q] = node.tree[q]
        BY <1>1, <1>2 DEF SmoothInv, Entries
      <4> QED BY <2>2, <4>1
    <3>6. ASSUME NEW q \in Due
          PROVE  Len(staging'[<<q, Number(q, Due)>>]) <= Len(node.tree[q].bytes)
      <4>1. /\ Len(staging[<<q, Number(q, Due)>>]) <= Len(node.tree[q].bytes)
            /\ q \in Paths /\ Number(q, Due) \in Numbers
        BY <1>1, <1>2, <2>6, DueFacts DEF SmoothInv
      <4>2. CASE q # p
        BY <2>9, <3>2, <4>1, <4>2
      <4>3. CASE q = p
        <5>1. Len(node.transfer[p].plan) = Len(node.tree[p].bytes) /\ Len(node.tree[p].bytes) \in Nat
          BY <1>2, <2>2, DueFacts DEF TransferInv
        <5>2. Len(old) <= Len(node.tree[p].bytes)
          BY <2>7, <3>2, <4>1, <4>3 DEF old
        <5>3. Len(put) <= Len(node.tree[p].bytes)
          BY <2>2, <2>12, <2>13, <5>1, <5>2
        <5> QED BY <2>7, <2>9, <3>2, <4>3, <5>3
      <4> QED BY <4>2, <4>3
    <3> QED BY <2>4, <2>5, <2>14, <3>1, <3>3, <3>4, <3>5, <3>6 DEF SmoothInv, Past
  <2>19. DoomInv'
    <3> SUFFICES ASSUME doomed PROVE \E q \in Due : Blocked(q)' \/ Misled(q)' \/ TooLong(q)'
      BY <1>1, <2>5, Zenon DEF DoomInv
    <3>1. PICK q \in Due : Blocked(q) \/ Misled(q) \/ TooLong(q)
      BY <1>1, <1>2 DEF DoomInv
    <3>2. q \in Paths /\ Number(q, Due) \in Numbers
      BY <1>2, <2>6, DueFacts
    <3>3. CASE Blocked(q)
      <4>1. PICK r \in Above[q] : mirror[r].kind = "file"
        BY <3>3 DEF Blocked
      <4>2. mirror'[r].kind = "file"
        BY <2>2, <3>2, <4>1, AboveFacts
      <4> QED BY <2>4, <4>1, <4>2 DEF Blocked
    <3>4. CASE Misled(q)
      <4>1. /\ mirror[q].kind = "symlink"
            /\ IF q \in Opened THEN node.transfer[q].at # q ELSE Leads(q, Due)
        BY <1>1, <3>4 DEF Misled, Committing
      <4>2. mirror'[q] = mirror[q]
        BY <2>2, <3>2, <4>1
      <4>3. mirror[q].to \in Paths
        BY <1>2, <3>2, <4>1, LinkFacts
      <4>4. mirror[mirror[q].to].kind # "absent" => mirror'[mirror'[q].to].kind # "absent"
        BY <2>2, <4>2, <4>3, EntryFacts
      <4>5. Leads(q, Due) => Leads(q, Due)'
        BY <2>5, <4>2, <4>4 DEF Leads
      <4> QED BY <2>4, <2>5, <3>2, <4>1, <4>2, <4>5 DEF Misled
    <3>5. CASE TooLong(q)
      <4> DEFINE m == Number(q, Due)
      <4>1. q \in Opened => node.transfer[q].at = q
        BY <3>5 DEF TooLong
      <4>2. Len(staging[<<q, m>>]) > Len(node.tree[q].bytes)
        BY <1>1, <3>5 DEF TooLong
      <4>3. m \in Numbers /\ staging[<<q, m>>] \in Bytes /\ Len(node.tree[q].bytes) \in Nat
        BY <1>2, <3>2, DueFacts DEF TypeOK, Transfers
      <4> HIDE DEF m
      <4>4. Len(staging'[<<q, m>>]) > Len(node.tree[q].bytes)
        <5>1. CASE q = at /\ m = n
          BY <2>9, <2>12, <2>13, <4>2, <4>3, <5>1 DEF old
        <5>2. CASE ~(q = at /\ m = n)
          BY <2>9, <3>2, <4>2, <4>3, <5>2
        <5> QED BY <5>1, <5>2
      <4>5. m' = m
        BY <2>5 DEF m, Number
      <4> QED BY <2>4, <2>5, <3>2, <4>1, <4>4, <4>5 DEF TooLong, m
    <3> QED BY <3>1, <3>3, <3>4, <3>5
  <2>20. client.pc \in {"send", "check", "plan"} /\ wire'.type = "none" /\ wire' # Closed
    BY <1>1, <1>2, <2>1 DEF Turns, Nothing, Closed
  <2>21. Current' = Current /\ Size' = Size
    BY <1>1 DEF Current, Size, clientVars
  <2>22. Turns' /\ EndsInv' /\ ChunkInv'
    BY <1>1, <2>20 DEF Turns, EndsInv, ChunkInv, clientVars
  <2>23. TodoInv
    BY <1>1, <1>2, <2>20 DEF WireInv
  <2>24. TodoInv'
    <3>1. ASSUME NEW q \in Due \ client.todo PROVE Accounted(q)'
      <4>1. Accounted(q) /\ q \in Paths /\ OnWire(q)' = {}
        BY <2>6, <2>20, <2>23 DEF TodoInv, OnWire
      <4>2. OnWire(q) = IF q = p THEN {i} ELSE {}
        BY <1>1, <2>p, <2>i DEF OnWire
      <4> QED BY <2>4, <4>1, <4>2 DEF Accounted
    <3>2. ASSUME NEW q \in client.todo, node'.transfer[q].open PROVE q = Current /\ client.pc = "send"
      BY <1>1, <2>4, <2>6, <2>23, <3>2 DEF TodoInv
    <3> QED BY <1>1, <2>4, <2>5, <2>21, <2>23, <3>1, <3>2 DEF TodoInv, clientVars
  <2>25. client.pc \in {"plan", "missing", "send"} => FileInv'
    <3> SUFFICES ASSUME client.pc \in {"plan", "send"} PROVE FileInv'
      BY <2>20
    <3>1. FileInv
      BY <1>1, <1>2 DEF WireInv
    <3>2. CASE client.pc = "send"
      <4>1. Current = p
        BY <1>1, <1>2, <2>p, <3>2 DEF ChunkInv
      <4>2. OnWire(Current)' = {} /\ OnWire(Current) = {i}
        BY <1>1, <2>20, <2>p, <2>i, <4>1 DEF OnWire
      <4>3. client.missing = (1..Size) \ (node.transfer[p].got \cup {i})
        BY <3>1, <3>2, <4>1, <4>2 DEF FileInv
      <4>4. client'.missing = (1..Size') \ (node'.transfer[Current'].got \cup {})
        BY <1>1, <2>4, <2>21, <4>1, <4>3 DEF clientVars
      <4> QED BY <1>1, <2>2, <2>4, <2>20, <2>21, <3>1, <3>2, <4>1, <4>2, <4>4 DEF FileInv, clientVars
    <3>3. CASE client.pc = "plan"
      BY <1>1, <2>20, <2>21, <3>1, <3>3 DEF FileInv, clientVars
    <3> QED BY <3>2, <3>3
  <2>26. WireInv'
    BY <1>1, <2>22, <2>24, <2>25 DEF WireInv, clientVars
  <2>27. HonestInv'
    <3> SUFFICES ASSUME ~spoiled PROVE HonestInv'
      BY <1>1 DEF HonestInv, clientVars
    <3>1. \A q \in Opened : node'.transfer[q].plan = node.tree[q].bytes
      BY <1>2, <2>4, <2>6 DEF HonestInv
    <3> QED BY <1>1, <1>2, <2>4, <2>5, <2>20, <2>21, <3>1 DEF HonestInv, clientVars
  <2>28. UndisturbedCommits'
    BY <2>4, <2>20 DEF UndisturbedCommits
  <2> QED BY <2>2, <2>15, <2>16, <2>17, <2>18, <2>19, <2>26, <2>27, <2>28 DEF CommitsInv
<1> QED BY <1>3, <1>4

LEMMA SeesCloseCommit ==
  ASSUME TypeOK, NumberInv, MirrorInv, CommitsInv, NodeSeesClose
  PROVE  CommitsInv'
<1>1. /\ wire = Closed /\ NodeThrows
      /\ UNCHANGED <<clientVars, mirror, staging, state, acked, dirty, doomed>>
  BY DEF NodeSeesClose
<1>2. spoiled \/ doomed
  BY <1>1 DEF CommitsInv, UndisturbedCommits
<1>3. GroundInv'
  BY <1>1, SameGround DEF CommitsInv
<1> QED BY <1>1, <1>2, <1>3, NodeGivesUp

(* When the commit begins, every transfer has all its chunks, and so directories
   above it: what dooms the sync is where it went, or what it left behind. *)
LEMMA ReceivesCommitCommit ==
  ASSUME TypeOK, NumberInv, MirrorInv, CommitsInv, NodeReceivesCommit
  PROVE  CommitsInv'
<1>1. /\ node.pc = "serving" /\ wire.type = "commit" /\ wire # Closed
      /\ UNCHANGED <<clientVars, mirror, staging, state, doomed>>
  BY DEF NodeReceivesCommit, Closed
<1>2. /\ GroundInv /\ TransferInv /\ ServingInv /\ SmoothInv /\ DoomInv /\ HonestInv
      /\ Turns /\ EndsInv
  BY <1>1 DEF CommitsInv, WireInv
<1>3. Complete /\ client.pc = "committed"
  BY <1>1, <1>2 DEF EndsInv, Turns
<1>4. /\ node' = [node EXCEPT !.pc = "prepare", !.left = Entries] /\ wire' = Nothing
  BY <1>3 DEF NodeReceivesCommit
<1>5. /\ node'.pc = "prepare" /\ node'.left = Entries /\ node'.tree = node.tree
      /\ node'.requested = node.requested /\ node'.transfer = node.transfer
  BY <1>4 DEF TypeOK
<1>6. /\ Opened' = Opened /\ Due' = Due /\ Entries' = Entries /\ (Complete' <=> Complete)
      /\ \A p : Staged(p)' = Staged(p) /\ (Holds(p)' <=> Holds(p))
  BY <1>1, <1>5 DEF Opened, Due, Entries, Complete, Staged, Holds
<1>7. Opened \in SUBSET Due /\ Due \in SUBSET Paths
  BY <1>2, DueFacts, TransferFacts
<1>8. GroundInv'
  BY <1>1, <1>2, SameGround
<1>9. TransferInv'
  BY <1>2, <1>5, <1>6 DEF TransferInv
<1>10. ServingInv'
  BY <1>5 DEF ServingInv
<1>11. PhaseInv'
  BY <1>3, <1>5, <1>6 DEF PhaseInv, Past, Committing
<1>12. SmoothInv'
  <2> SUFFICES ASSUME ~doomed PROVE SmoothInv'
    BY <1>1 DEF SmoothInv
  <2>1. /\ \A p \in Opened : node.transfer[p].at = p
        /\ \A p \in Due : \A q \in Above[p] : mirror[q].kind \in {"absent", "directory"}
        /\ \A p \in Entries : node.tree[p].kind = "file" /\ p \notin node.requested => mirror[p] = node.tree[p]
        /\ \A p \in Due : Len(staging[<<p, Number(p, Due)>>]) <= Len(node.tree[p].bytes)
    BY <1>1, <1>2 DEF SmoothInv
  <2>2. \A p \in Opened : Holds(p)
    BY <1>1, <1>2 DEF ServingInv
  <2> QED BY <1>1, <1>5, <1>6, <2>1, <2>2 DEF SmoothInv, Past
<1>13. DoomInv'
  <2> SUFFICES ASSUME doomed PROVE \E p \in Due : Misled(p)' \/ TooLong(p)'
    BY <1>1, <1>6, Zenon DEF DoomInv
  <2>1. PICK p \in Due : Blocked(p) \/ Misled(p) \/ TooLong(p)
    BY <1>1, <1>2 DEF DoomInv
  <2>2. p \in Paths /\ p \in Opened /\ node.transfer[p].got = 1..Len(node.transfer[p].plan)
    BY <1>3, <1>7, <2>1 DEF Complete, Due, Opened
  <2>3. ~Blocked(p)
    <3>1. Len(node.transfer[p].plan) \in Nat /\ Len(node.transfer[p].plan) >= 1
      BY <1>2, <2>1, <2>2, DueFacts DEF TransferInv
    <3>2. node.transfer[p].got # {}
      BY <2>2, <3>1
    <3>3. Rooted(p)
      BY <1>1, <1>2, <2>2, <3>2, GotIsRooted
    <3> QED BY <3>3 DEF Rooted, Blocked
  <2>4. CASE Misled(p)
    <3>1. mirror[p].kind = "symlink" /\ node.transfer[p].at # p
      BY <1>1, <2>2, <2>4 DEF Misled, Committing
    <3>2. \E tree \in Trees : tree[p].kind = "symlink"
      BY <1>2, <2>2, <3>1, LinkFacts
    <3> QED BY <1>1, <1>5, <2>1, <3>1, <3>2 DEF Misled, Committing
  <2>5. CASE TooLong(p)
    BY <1>1, <1>5, <1>6, <2>1, <2>5 DEF TooLong
  <2> QED BY <2>1, <2>3, <2>4, <2>5
<1>14. WireInv'
  BY <1>1, <1>3, <1>4, <1>5 DEF WireInv, Turns, EndsInv, ChunkInv, Nothing, Committing, clientVars
<1>15. HonestInv'
  BY <1>1, <1>2, <1>3, <1>4, <1>5, <1>6 DEF HonestInv, Nothing, clientVars
<1>16. UndisturbedCommits'
  BY <1>4, <1>5 DEF UndisturbedCommits, Nothing, Closed
<1> QED BY <1>8, <1>9, <1>10, <1>11, <1>12, <1>13, <1>14, <1>15, <1>16 DEF CommitsInv

-----------------------------------------------------------------------------
(* The commit: neither the transfers nor the stream change. *)

LEMMA WaitsForReply ==
  ASSUME TypeOK, MirrorInv, CommitsInv, node.pc \in Committing, wire # Closed
  PROVE  wire = Nothing /\ client.pc = "committed"
<1>1. /\ wire.type \in {"none", "manifest", "diff", "plan", "missing", "chunk", "commit", "committed"}
      /\ wire.type = "none" <=> wire = Nothing
  BY WireTypes
<1>2. /\ Turns /\ EndsInv
      /\ client.pc \in {"check", "plan", "missing", "send"} => TodoInv
  BY DEF CommitsInv, WireInv
<1>3. client.pc \notin {"check", "plan", "missing", "send"}
  BY <1>2 DEF TodoInv, Committing
<1>4. wire.type \notin {"manifest", "diff", "committed"}
  BY <1>2 DEF MirrorInv, SessionInv, EndsInv, Committing
<1>5. wire.type # "commit"
  BY <1>2 DEF EndsInv, Committing
<1>6. client.pc # "idle"
  BY DEF MirrorInv, SessionInv
<1> QED BY <1>1, <1>2, <1>3, <1>4, <1>5, <1>6 DEF Turns

LEMMA SamePlan ==
  ASSUME node'.tree = node.tree, node'.requested = node.requested, node'.transfer = node.transfer
  PROVE  /\ Due' = Due /\ Opened' = Opened /\ Entries' = Entries /\ Directories' = Directories
         /\ Small' = Small /\ (Complete' <=> Complete)
<1>1. /\ Due' = Due /\ Opened' = Opened /\ Entries' = Entries /\ Directories' = Directories
      /\ (Complete' <=> Complete)
  BY DEF Due, Opened, Entries, Directories, Complete
<1>2. Small' = Small
  BY <1>1 DEF Small
<1> QED BY <1>1, <1>2

LEMMA CommitKeeps ==
  ASSUME TypeOK, MirrorInv, CommitsInv, UNCHANGED <<clientVars, doomed, wire>>,
         node.pc \in Committing, node'.pc \in Committing, node'.pc = "reply" => ~doomed,
         node'.tree = node.tree, node'.requested = node.requested, node'.transfer = node.transfer,
         GroundInv', PhaseInv', SmoothInv', DoomInv'
  PROVE  CommitsInv'
<1>1. /\ Due' = Due /\ Opened' = Opened
  BY SamePlan
<1>2. TransferInv' /\ ServingInv'
  BY <1>1 DEF CommitsInv, TransferInv, ServingInv, Committing
<1>3. wire # Closed => wire = Nothing /\ client.pc = "committed"
  BY WaitsForReply
<1>4. WireInv'
  BY <1>3 DEF WireInv, Turns, EndsInv, ChunkInv, Nothing, clientVars
<1>5. HonestInv'
  BY <1>1, <1>3 DEF CommitsInv, HonestInv, Nothing, Closed, clientVars
<1>6. UndisturbedCommits'
  BY DEF CommitsInv, UndisturbedCommits, clientVars
<1> QED BY <1>2, <1>4, <1>5, <1>6 DEF CommitsInv

(* What a phase finds: its path, and the paths above it, which are directories
   of the tree. *)
LEMMA TreatFacts ==
  ASSUME TypeOK, CommitsInv, NEW p \in Paths, NEW phase, node.pc = phase, node.left # {},
         p = First(node.left), p \in Entries,
         node' = [node EXCEPT !.left = node.left \ {p}]
  PROVE  /\ p \in node.left /\ \A q \in node.left : Rank[p] <= Rank[q]
         /\ \A q \in Above[p] : q \in Paths /\ q \in Directories /\ q \in Entries /\ q \notin node.left
         /\ node'.pc = node.pc /\ node'.left = node.left \ {p}
         /\ node'.tree = node.tree /\ node'.requested = node.requested
         /\ node'.transfer = node.transfer
<1>1. p \in node.left /\ \A q \in node.left : Rank[p] <= Rank[q]
  BY FirstIsLeast, TransferFacts
<1>2. ASSUME NEW q \in Above[p]
      PROVE  q \in Paths /\ q \in Directories /\ q \in Entries /\ q \notin node.left
  <2>1. q \in Paths /\ Rank[q] < Rank[p]
    BY AboveFacts
  <2>2. node.tree[q].kind = "directory"
    BY TransferFacts, TreeFacts DEF Entries
  <2>3. q \notin node.left
    BY <1>1, <2>1, RankFacts
  <2> QED BY <2>1, <2>2, <2>3 DEF Directories, Entries
<1> QED BY <1>1, <1>2 DEF TypeOK

LEMMA PreparesCommit ==
  ASSUME TypeOK, NumberInv, MirrorInv, CommitsInv, NEW p \in Paths, NodePrepares(p)
  PROVE  CommitsInv'
<1>1. /\ node.pc = "prepare" /\ node.pc \in Committing /\ node.left # {} /\ p = First(node.left)
      /\ UNCHANGED <<clientVars, doomed>>
  BY DEF NodePrepares, Treats, Committing, commitVars
<1>2. GroundInv /\ TransferInv /\ PhaseInv /\ SmoothInv /\ DoomInv
  BY DEF CommitsInv
<1>3. p \in Entries
  BY <1>1, <1>2, FirstIsLeast, TransferFacts DEF PhaseInv
<1>4. ~LinkAbove(mirror, p)
  <2> SUFFICES ASSUME NEW q \in Above[p], mirror[q].kind = "symlink" PROVE FALSE
    BY DEF LinkAbove
  <2>1. p \in node.left /\ \A r \in node.left : Rank[p] <= Rank[r]
    BY <1>1, FirstIsLeast, TransferFacts
  <2>2. q \in Paths /\ Rank[q] < Rank[p]
    BY AboveFacts
  <2>3. node.tree[q].kind = "directory"
    BY <1>3, TransferFacts, TreeFacts DEF Entries
  <2>4. q \notin node.left /\ q \in Entries
    BY <2>1, <2>2, <2>3, RankFacts DEF Entries
  <2>5. mirror[q].kind \in {"absent", node.tree[q].kind}
    BY <1>1, <1>2, <2>4 DEF PhaseInv, Past
  <2> QED BY <2>3, <2>5
<1>5. /\ node' = [node EXCEPT !.left = node.left \ {p}] /\ UNCHANGED wire
      /\ IF WrongType(p) THEN RemoveAll(p) ELSE UNCHANGED <<mirror, staging>>
  BY <1>4 DEF NodePrepares, Treated
<1>6. /\ p \in node.left /\ \A q \in node.left : Rank[p] <= Rank[q]
      /\ node'.pc = "prepare" /\ node'.left = node.left \ {p}
      /\ node'.tree = node.tree /\ node'.requested = node.requested /\ node'.transfer = node.transfer
  BY <1>1, <1>3, <1>5, TreatFacts
<1>7. /\ Due' = Due /\ Opened' = Opened /\ Entries' = Entries /\ (Complete' <=> Complete)
      /\ Due \in SUBSET Paths /\ Opened \in SUBSET Due
  BY <1>2, <1>6, SamePlan, DueFacts, TransferFacts
<1>8. GroundInv'
  BY <1>2, <1>5, GroundRemoves, SameGround
\* Wrong or not, what is left is what was there or nothing.
<1>9. /\ \A q \in Paths : mirror'[q] \in {Absent, mirror[q]}
      /\ \A q \in Paths : \A n \in Numbers : staging'[<<q, n>>] \in {<<>>, staging[<<q, n>>]}
      /\ mirror'[p].kind \in {"absent", node.tree[p].kind}
  <2>1. CASE WrongType(p)
    BY <1>5, <2>1, RemoveFacts, EntryFacts
  <2>2. CASE ~WrongType(p)
    BY <1>5, <2>2 DEF WrongType
  <2> QED BY <2>1, <2>2
<1>10. PhaseInv'
  <2>1. Complete' /\ node'.left \subseteq Entries
    BY <1>1, <1>2, <1>6, <1>7 DEF PhaseInv
  <2>2. ASSUME NEW r \in Entries, NEW q \in Entries, r \in node'.left, Rank[r] < Rank[q]
        PROVE  q \in node'.left
    <3>1. q \in node.left /\ r \in node.left
      BY <1>1, <1>2, <1>6, <2>2 DEF PhaseInv
    <3>2. q # p
      <4>1. Rank[p] <= Rank[r] /\ r \in Paths /\ q \in Paths
        BY <1>6, <3>1 DEF Entries
      <4> QED BY <2>2, <4>1, RankFacts
    <3> QED BY <1>6, <3>1, <3>2
  <2>3. ASSUME NEW q \in Entries, q \notin node'.left
        PROVE  mirror'[q].kind \in {"absent", node.tree[q].kind}
    <3>1. q \in Paths
      BY DEF Entries
    <3>2. CASE q = p
      BY <1>9, <3>2
    <3>3. CASE q # p
      <4>1. mirror[q].kind \in {"absent", node.tree[q].kind}
        BY <1>1, <1>2, <1>6, <2>3, <3>3 DEF PhaseInv, Past
      <4> QED BY <1>9, <3>1, <4>1, EntryFacts
    <3> QED BY <3>2, <3>3
  <2> QED BY <1>6, <1>7, <2>1, <2>2, <2>3 DEF PhaseInv, Past, Committing
<1>11. SmoothInv'
  <2> SUFFICES ASSUME ~doomed PROVE SmoothInv'
    BY <1>1 DEF SmoothInv
  <2>1. /\ \A q \in Opened : node.transfer[q].at = q
        /\ \A q \in Due : \A r \in Above[q] : mirror[r].kind \in {"absent", "directory"}
        /\ \A q \in Entries : node.tree[q].kind = "file" /\ q \notin node.requested => mirror[q] = node.tree[q]
        /\ \A q \in Due : /\ Len(staging[<<q, Number(q, Due)>>]) <= Len(node.tree[q].bytes)
                          /\ q \in Opened => Holds(q)
    BY <1>1, <1>2 DEF SmoothInv
  <2>2. \A q \in Due : \A r \in Above[q] : mirror'[r].kind \in {"absent", "directory"}
    <3> SUFFICES ASSUME NEW q \in Due, NEW r \in Above[q] PROVE mirror'[r].kind \in {"absent", "directory"}
      OBVIOUS
    <3>1. r \in Paths /\ mirror[r].kind \in {"absent", "directory"}
      BY <1>7, <2>1, AboveFacts
    <3> QED BY <1>9, <3>1, EntryFacts
  <2>3. ASSUME NEW q \in Entries, node.tree[q].kind = "file", q \notin node.requested
        PROVE  mirror'[q] = node.tree[q]
    <3>1. q \in Paths /\ mirror[q] = node.tree[q]
      BY <2>1, <2>3 DEF Entries
    <3>2. CASE WrongType(p)
      <4>1. q # p
        BY <3>1, <3>2 DEF WrongType
      <4>2. p \notin Above[q]
        <5> SUFFICES ASSUME p \in Above[q] PROVE FALSE
          OBVIOUS
        <5>1. mirror[p].kind = "directory"
          BY <1>2, <2>3, <3>1 DEF GroundInv, Rooted
        <5>2. node.tree[p].kind = "directory"
          BY <2>3, <3>1, TransferFacts, TreeFacts
        <5> QED BY <3>2, <5>1, <5>2 DEF WrongType
      <4> QED BY <1>5, <3>1, <3>2, <4>1, <4>2, RemoveFacts
    <3>3. CASE ~WrongType(p)
      BY <1>5, <3>1, <3>3
    <3> QED BY <3>2, <3>3
  <2>4. ASSUME NEW q \in Due, NEW n \in Numbers PROVE staging'[<<q, n>>] = staging[<<q, n>>]
    <3>1. CASE WrongType(p)
      <4>1. p \notin Above[q]
        <5> SUFFICES ASSUME p \in Above[q] PROVE FALSE
          OBVIOUS
        <5>1. node.tree[p].kind = "directory"
          BY <1>2, <1>7, DueFacts, TransferFacts, TreeFacts
        <5>2. mirror[p].kind \in {"absent", "directory"}
          BY <2>1
        <5> QED BY <3>1, <5>1, <5>2 DEF WrongType
      <4> QED BY <1>5, <1>7, <3>1, <4>1, RemoveFacts
    <3>2. CASE ~WrongType(p)
      BY <1>5, <3>2
    <3> QED BY <3>1, <3>2
  <2>5. ASSUME NEW q \in Due
        PROVE  /\ Len(staging'[<<q, Number(q, Due)>>]) <= Len(node.tree[q].bytes)
               /\ q \in Opened => Holds(q)'
    <3>1. Number(q, Due) \in Numbers
      BY <1>2, DueFacts
    <3>2. ASSUME q \in Opened PROVE Holds(q)'
      <4>1. node.transfer[q].at = q /\ node.transfer[q].number \in Numbers
        BY <1>7, <2>1, <3>2, TransferFacts
      <4>2. Staged(q)' = Staged(q)
        BY <1>6, <2>4, <4>1 DEF Staged
      <4>3. Holds(q)
        BY <2>1, <3>2
      <4> QED BY <1>6, <4>2, <4>3 DEF Holds
    <3> QED BY <2>1, <2>4, <3>1, <3>2
  <2> QED BY <1>6, <1>7, <2>1, <2>2, <2>3, <2>5 DEF SmoothInv, Past
<1>12. DoomInv'
  <2> SUFFICES ASSUME doomed PROVE \E q \in Due : Misled(q)' \/ TooLong(q)'
    BY <1>1, <1>7, Zenon DEF DoomInv
  <2>1. PICK q \in Due : Misled(q) \/ TooLong(q)
    BY <1>1, <1>2 DEF DoomInv, Blocked
  <2>2. q \in Paths /\ Number(q, Due) \in Numbers
    BY <1>2, <2>1, DueFacts
  <2>3. CASE Misled(q)
    <3>1. mirror'[q].kind # "file"
      BY <1>1, <1>9, <2>2, <2>3, EntryFacts DEF Misled
    <3> QED BY <1>1, <1>6, <2>3, <3>1 DEF Misled, Committing
  <2>4. CASE TooLong(q)
    BY <1>1, <1>6, <1>7, <1>9, <2>2, <2>4 DEF TooLong
  <2> QED BY <2>1, <2>3, <2>4
<1> QED BY <1>1, <1>5, <1>6, <1>8, <1>10, <1>11, <1>12, CommitKeeps

LEMMA MakesDirectoryCommit ==
  ASSUME TypeOK, NumberInv, MirrorInv, CommitsInv, NEW p \in Paths, NodeMakesDirectory(p)
  PROVE  CommitsInv'
<1>1. /\ node.pc = "directories" /\ node.pc \in Committing /\ node.left # {} /\ p = First(node.left)
      /\ UNCHANGED <<clientVars, doomed, staging, wire>>
      /\ node' = [node EXCEPT !.left = node.left \ {p}]
      /\ mirror' = [WithParents(p) EXCEPT ![p] = Directory]
  BY DEF NodeMakesDirectory, Treats, Treated, Committing, commitVars
<1>2. GroundInv /\ TransferInv /\ PhaseInv /\ SmoothInv /\ DoomInv
  BY DEF CommitsInv
<1>3. p \in Directories /\ p \in Entries
  BY <1>1, <1>2, FirstIsLeast, TransferFacts DEF PhaseInv, Directories, Entries
<1>4. /\ p \in node.left
      /\ \A q \in Above[p] : q \in Paths /\ q \in Directories /\ q \in Entries
      /\ node'.pc = "directories" /\ node'.left = node.left \ {p}
      /\ node'.tree = node.tree /\ node'.requested = node.requested /\ node'.transfer = node.transfer
  BY <1>1, <1>3, TreatFacts
<1>5. /\ Due' = Due /\ Opened' = Opened /\ Entries' = Entries /\ (Complete' <=> Complete)
      /\ Directories' = Directories /\ Due \in SUBSET Paths /\ Opened \in SUBSET Due
  BY <1>2, <1>4, SamePlan, DueFacts, TransferFacts
<1>6. GroundInv'
  BY <1>1, <1>2, EntryFacts, GroundPuts
<1>7. \A q \in Paths : mirror'[q] = IF q = p \/ q \in Above[p] THEN Directory ELSE mirror[q]
  BY <1>1, ParentsFacts DEF WithParents
<1>8. \A q \in Paths : node.tree[q].kind # "directory" => mirror'[q] = mirror[q]
  BY <1>3, <1>4, <1>7 DEF Directories
<1>9. PhaseInv'
  <2>1. ASSUME NEW q \in Entries PROVE mirror'[q].kind \in {"absent", node.tree[q].kind}
    <3>1. q \in Paths /\ mirror[q].kind \in {"absent", node.tree[q].kind}
      BY <1>1, <1>2 DEF PhaseInv, Past, Entries
    <3> QED BY <1>3, <1>4, <1>7, <3>1, EntryFacts DEF Directories
  <2>2. ASSUME NEW q \in Directories, q \notin node'.left PROVE mirror'[q].kind = "directory"
    <3>1. q \in Paths /\ (q # p => mirror[q].kind = "directory")
      BY <1>1, <1>2, <1>4, <2>2 DEF PhaseInv, Past, Directories
    <3> QED BY <1>7, <3>1, EntryFacts
  <2>3. node'.left \subseteq Directories /\ Complete'
    BY <1>1, <1>2, <1>4, <1>5 DEF PhaseInv
  <2> QED BY <1>4, <1>5, <2>1, <2>2, <2>3 DEF PhaseInv, Past, Committing
<1>10. \A q : Staged(q)' = Staged(q) /\ (Holds(q)' <=> Holds(q))
  BY <1>1, <1>4 DEF Staged, Holds
<1>11. SmoothInv'
  <2> SUFFICES ASSUME ~doomed PROVE SmoothInv'
    BY <1>1 DEF SmoothInv
  <2>1. /\ \A q \in Opened : node.transfer[q].at = q
        /\ \A q \in Entries : node.tree[q].kind = "file" /\ q \notin node.requested => mirror[q] = node.tree[q]
        /\ \A q \in Due : /\ Len(staging[<<q, Number(q, Due)>>]) <= Len(node.tree[q].bytes)
                          /\ q \in Opened => Holds(q)
    BY <1>1, <1>2 DEF SmoothInv
  <2>2. \A q \in Entries : node.tree[q].kind = "file" /\ q \notin node.requested => mirror'[q] = node.tree[q]
    BY <1>8, <2>1 DEF Entries
  <2> QED BY <1>1, <1>4, <1>5, <1>10, <2>1, <2>2 DEF SmoothInv, Past
<1>12. DoomInv'
  <2> SUFFICES ASSUME doomed PROVE \E q \in Due : Misled(q)' \/ TooLong(q)'
    BY <1>1, <1>5, Zenon DEF DoomInv
  <2>1. PICK q \in Due : Misled(q) \/ TooLong(q)
    BY <1>1, <1>2 DEF DoomInv, Blocked
  <2>2. CASE Misled(q)
    <3>1. mirror'[q].kind # "file"
      BY <1>1, <1>5, <1>7, <2>1, <2>2, EntryFacts DEF Misled
    <3> QED BY <1>1, <1>4, <2>2, <3>1 DEF Misled, Committing
  <2>3. CASE TooLong(q)
    BY <1>1, <1>4, <1>5, <2>1, <2>3 DEF TooLong
  <2> QED BY <2>1, <2>2, <2>3
<1> QED BY <1>1, <1>4, <1>6, <1>9, <1>11, <1>12, CommitKeeps

LEMMA FinalizesCommit ==
  ASSUME TypeOK, NumberInv, MirrorInv, CommitsInv, NEW p \in Paths, NodeFinalizes(p)
  PROVE  CommitsInv'
<1>1. /\ node.pc = "finalize" /\ node.pc \in Committing /\ node.left # {} /\ p = First(node.left)
      /\ UNCHANGED <<clientVars, doomed>>
  BY DEF NodeFinalizes, Treats, Committing, commitVars
<1>2. GroundInv /\ TransferInv /\ PhaseInv /\ SmoothInv /\ DoomInv /\ HonestInv /\ Complete
  BY <1>1 DEF CommitsInv, PhaseInv
<1>at. PICK at : at = node.transfer[p].at
  OBVIOUS
<1>n. PICK n : n = node.transfer[p].number
  OBVIOUS
<1>3. p \in node.left /\ p \in Opened /\ p \in Due
  BY <1>1, <1>2, FirstIsLeast, TransferFacts, DueFacts DEF PhaseInv
<1>4. /\ node.tree[p].kind = "file" /\ node.tree[p] = File(node.tree[p].bytes) /\ p \in Entries
      /\ node.tree[p].bytes \in Seq(Chunks) /\ node.tree[p].bytes # <<>>
      /\ at \in Paths /\ n \in Numbers /\ n = Number(p, Due) /\ (at = p \/ IsTarget(at))
      /\ Len(node.transfer[p].plan) = Len(node.tree[p].bytes)
  BY <1>2, <1>3, <1>at, <1>n, DueFacts, TransferFacts DEF TransferInv
<1>5. staging[<<at, n>>] \in Bytes /\ <<at, n>> \in Transfers /\ Staged(p) = staging[<<at, n>>]
  BY <1>4, <1>at, <1>n DEF TypeOK, Transfers, Staged
<1>6. Due \in SUBSET Paths /\ Opened \in SUBSET Due
  BY <1>2, DueFacts, TransferFacts
<1>7. CASE Whole(Staged(p), p) /\ mirror[at].kind # "directory"
  <2>1. /\ mirror' = [mirror EXCEPT ![at] = File(Staged(p))]
        /\ staging' = [staging EXCEPT ![<<at, n>>] = <<>>]
        /\ node' = [node EXCEPT !.left = node.left \ {p}] /\ UNCHANGED wire
        /\ Staged(p) = node.tree[p].bytes
    BY <1>7, <1>at, <1>n DEF NodeFinalizes, Treated, Staged, Whole
  <2>2. /\ node'.pc = "finalize" /\ node'.left = node.left \ {p}
        /\ node'.tree = node.tree /\ node'.requested = node.requested /\ node'.transfer = node.transfer
    BY <1>1, <1>4, <2>1, TreatFacts
  <2>3. /\ Due' = Due /\ Opened' = Opened /\ Entries' = Entries /\ (Complete' <=> Complete)
        /\ Directories' = Directories
    BY <2>2, SamePlan
  <2>4. \A q \in Directories : q \in Paths /\ mirror[q].kind = "directory"
    BY <1>1, <1>2 DEF PhaseInv, Past, Directories
  <2>5. Rooted(at)
    <3>1. CASE at = p
      <4>1. \A q \in Above[p] : q \in Paths /\ node.tree[q].kind = "directory"
        BY <1>4, AboveFacts, TransferFacts, TreeFacts
      <4> QED BY <2>4, <3>1, <4>1 DEF Rooted, Directories
    <3>2. CASE IsTarget(at)
      BY <3>2 DEF IsTarget, Rooted
    <3> QED BY <1>4, <3>1, <3>2
  <2>6. GroundInv'
    BY <1>2, <1>4, <1>7, <2>1, <2>5, GroundFinalizes
  <2>7. mirror'[at] = node.tree[p] /\ \A q \in Paths : q # at => mirror'[q] = mirror[q]
    BY <1>4, <2>1 DEF TypeOK
  <2>8. \A q \in Paths : \A m \in Numbers :
          q # at \/ m # n => staging'[<<q, m>>] = staging[<<q, m>>]
    BY <1>5, <2>1 DEF TypeOK, Transfers
  <2>9. PhaseInv'
    <3>1. ASSUME NEW q \in Entries PROVE mirror'[q].kind \in {"absent", node.tree[q].kind}
      <4>1. q \in Paths /\ node.tree[q].kind \in Kinds /\ node.tree[q].kind # "absent"
        BY TransferFacts, TreeFacts DEF Entries
      <4>2. CASE q # at
        BY <1>1, <1>2, <2>7, <4>1, <4>2 DEF PhaseInv, Past
      <4>3. CASE q = at
        <5>1. node.tree[at].kind # "directory"
          BY <1>4, <1>7, <2>4 DEF Directories
        <5>2. node.tree[at].kind # "symlink"
          BY <1>4, TransferFacts DEF IsTarget
        <5> QED BY <1>4, <2>7, <4>1, <4>3, <5>1, <5>2 DEF Kinds
      <4> QED BY <4>2, <4>3
    <3>2. \A q \in Directories : mirror'[q].kind = "directory"
      BY <1>7, <2>4, <2>7
    <3>3. node'.left \subseteq Opened /\ Complete'
      BY <1>1, <1>2, <2>2, <2>3 DEF PhaseInv
    <3> QED BY <2>2, <2>3, <3>1, <3>2, <3>3 DEF PhaseInv, Past, Committing
  <2>10. SmoothInv'
    <3> SUFFICES ASSUME ~doomed PROVE SmoothInv'
      BY <1>1 DEF SmoothInv
    <3>1. /\ \A q \in Opened : node.transfer[q].at = q
          /\ \A q \in Entries : node.tree[q].kind = "file" /\ q \notin node.requested => mirror[q] = node.tree[q]
          /\ \A q \in Due : q \in node.left => /\ Len(staging[<<q, Number(q, Due)>>]) <= Len(node.tree[q].bytes)
                                               /\ q \in Opened => Holds(q)
          /\ \A q \in Due : q \notin node.left => mirror[q] = node.tree[q]
      BY <1>1, <1>2 DEF SmoothInv, Past
    <3>2. at = p /\ p \in node.requested
      BY <1>3, <1>at, <3>1, TransferFacts
    <3>3. \A q \in Entries : node.tree[q].kind = "file" /\ q \notin node.requested => mirror'[q] = node.tree[q]
      BY <2>7, <3>1, <3>2 DEF Entries
    <3>4. ASSUME NEW q \in Due, q \in node'.left
          PROVE  /\ Len(staging'[<<q, Number(q, Due)>>]) <= Len(node.tree[q].bytes)
                 /\ q \in Opened => Holds(q)'
      <4>1. q # p /\ q \in node.left /\ q \in Paths /\ Number(q, Due) \in Numbers
        BY <1>2, <2>2, <3>4, DueFacts
      <4>2. \A m \in Numbers : staging'[<<q, m>>] = staging[<<q, m>>]
        BY <2>8, <3>2, <4>1
      <4>3. ASSUME q \in Opened PROVE Holds(q)'
        <5>1. node.transfer[q].at = q /\ node.transfer[q].number \in Numbers /\ Holds(q)
          BY <3>1, <4>1, <4>3, TransferFacts
        <5>2. Staged(q)' = Staged(q)
          BY <2>2, <4>2, <5>1 DEF Staged
        <5> QED BY <2>2, <5>1, <5>2 DEF Holds
      <4> QED BY <3>1, <4>1, <4>2, <4>3
    <3>5. ASSUME NEW q \in Due, q \notin node'.left PROVE mirror'[q] = node.tree[q]
      <4>1. CASE q = p
        BY <2>7, <3>2, <4>1
      <4>2. CASE q # p
        BY <1>6, <2>2, <2>7, <3>1, <3>2, <3>5, <4>2
      <4> QED BY <4>1, <4>2
    <3> QED BY <2>2, <2>3, <3>1, <3>3, <3>4, <3>5 DEF SmoothInv, Past
  <2>11. DoomInv'
    <3> SUFFICES ASSUME doomed PROVE \E q \in Due : Misled(q)' \/ TooLong(q)'
      BY <1>1, <2>3, Zenon DEF DoomInv
    <3>1. PICK q \in Due : Misled(q) \/ TooLong(q)
      BY <1>1, <1>2 DEF DoomInv, Blocked
    <3>2. q \in Paths /\ Number(q, Due) \in Numbers
      BY <1>2, <3>1, DueFacts
    <3>3. CASE Misled(q)
      <4>1. /\ \E tree \in Trees : tree[q].kind = "symlink"
            /\ node.transfer[q].at # q /\ mirror[q].kind # "file"
        BY <1>1, <3>3 DEF Misled
      <4>2. q # at
        BY <1>4, <1>at, <4>1 DEF IsTarget
      <4>3. mirror'[q].kind # "file"
        BY <2>7, <3>2, <4>1, <4>2
      <4> QED BY <1>1, <2>2, <4>1, <4>3 DEF Misled
    <3>4. CASE TooLong(q)
      <4>1. /\ q \in Opened => node.transfer[q].at = q
            /\ \/ Len(staging[<<q, Number(q, Due)>>]) > Len(node.tree[q].bytes)
               \/ staging[<<q, Number(q, Due)>>] = <<>>
            /\ q \in node.left
        BY <1>1, <3>4 DEF TooLong
      <4>2. q # p
        BY <1>3, <1>4, <1>5, <1>at, <2>1, <4>1
      <4>3. Number(q, Due) # n
        BY <1>2, <1>3, <1>4, <3>1, <4>2, DueFacts
      <4>4. staging'[<<q, Number(q, Due)>>] = staging[<<q, Number(q, Due)>>]
        BY <2>8, <3>2, <4>3
      <4>5. q \in node'.left
        BY <2>2, <4>1, <4>2
      <4> QED BY <2>2, <2>3, <4>1, <4>4, <4>5 DEF TooLong
    <3> QED BY <3>1, <3>3, <3>4
  <2> QED BY <1>1, <2>1, <2>2, <2>6, <2>9, <2>10, <2>11, CommitKeeps
<1>8. CASE ~(Whole(Staged(p), p) /\ mirror[at].kind # "directory")
  <2>1. NodeThrows /\ UNCHANGED <<mirror, staging>>
    BY <1>8, <1>at DEF NodeFinalizes, Staged
  <2>2. ASSUME ~spoiled, ~doomed PROVE FALSE
    <3>1. /\ at = p /\ Len(staging[<<p, Number(p, Due)>>]) <= Len(node.tree[p].bytes) /\ Holds(p)
      BY <1>1, <1>2, <1>3, <1>at, <2>2 DEF SmoothInv
    <3>2. node.transfer[p].plan = node.tree[p].bytes
      BY <1>2, <1>3, <2>2 DEF HonestInv
    <3>3. node.transfer[p].got = 1..Len(node.tree[p].bytes)
      BY <1>2, <1>3, <3>2 DEF Complete, Due
    <3>4. /\ Len(node.tree[p].bytes) \in Nat /\ Len(Staged(p)) \in Nat
          /\ Staged(p) \in Seq(Chunks \cup {Torn}) /\ Len(node.tree[p].bytes) >= 1
      BY <1>2, <1>3, <1>5, DueFacts DEF Bytes
    <3>5. \A i \in 1..Len(node.tree[p].bytes) : i <= Len(Staged(p)) /\ Staged(p)[i] = node.tree[p].bytes[i]
      BY <3>1, <3>2, <3>3 DEF Holds
    <3>6. Len(Staged(p)) = Len(node.tree[p].bytes)
      <4>1. Len(node.tree[p].bytes) <= Len(Staged(p))
        BY <3>4, <3>5
      <4> QED BY <1>4, <1>5, <3>1, <3>4, <4>1
    <3>7. Staged(p) = node.tree[p].bytes
      BY <1>4, <3>4, <3>5, <3>6
    <3>8. mirror[p].kind \in {"absent", "file"}
      BY <1>1, <1>2, <1>4 DEF PhaseInv, Past
    <3> QED BY <1>8, <3>1, <3>7, <3>8 DEF Whole
  <2>3. GroundInv'
    BY <1>2, <2>1, SameGround
  <2> QED BY <1>1, <2>1, <2>2, <2>3, NodeGivesUp
<1> QED BY <1>7, <1>8

LEMMA MakesSmallCommit ==
  ASSUME TypeOK, NumberInv, MirrorInv, CommitsInv, NEW p \in Paths, NodeMakesSmall(p)
  PROVE  CommitsInv'
<1>1. /\ node.pc = "small" /\ node.pc \in Committing /\ node.left # {} /\ p = First(node.left)
      /\ UNCHANGED <<clientVars, doomed, staging, wire>>
      /\ node' = [node EXCEPT !.left = node.left \ {p}]
      /\ mirror' = [WithParents(p) EXCEPT ![p] = node.tree[p]]
  BY DEF NodeMakesSmall, Treats, Treated, Committing, commitVars
<1>2. GroundInv /\ TransferInv /\ PhaseInv /\ SmoothInv /\ DoomInv
  BY DEF CommitsInv
<1>3. p \in Small /\ p \in Entries
  BY <1>1, <1>2, FirstIsLeast, TransferFacts DEF PhaseInv, Small
<1>4. /\ p \in node.left
      /\ \A q \in Above[p] : q \in Paths /\ q \in Directories /\ q \in Entries
      /\ node'.pc = "small" /\ node'.left = node.left \ {p}
      /\ node'.tree = node.tree /\ node'.requested = node.requested /\ node'.transfer = node.transfer
  BY <1>1, <1>3, TreatFacts
<1>5. /\ Due' = Due /\ Opened' = Opened /\ Entries' = Entries /\ (Complete' <=> Complete)
      /\ Directories' = Directories /\ Small' = Small /\ Due \in SUBSET Paths
  BY <1>2, <1>4, SamePlan, TransferFacts
\* What is small is no directory and has no transfer.
<1>6. ASSUME NEW q \in Small
      PROVE  /\ q \in Paths /\ node.tree[q].kind \in {"symlink", "file"} /\ q \notin Due
             /\ node.tree[q].kind = "file" => q \in node.requested
  <2>1. q \in Paths /\ (node.tree[q].kind = "symlink" \/ (q \in node.requested /\ node.tree[q] = File(<<>>)))
    BY DEF Small, Entries
  <2>2. q \in Due => node.tree[q].kind = "file" /\ node.tree[q].bytes # <<>>
    BY <1>2, DueFacts, TransferFacts
  <2> QED BY <2>1, <2>2, EntryFacts
<1>7. mirror[p].kind \in {"absent", node.tree[p].kind}
  BY <1>1, <1>2, <1>3 DEF PhaseInv, Past
<1>8. GroundInv'
  <2>1. node.tree[p].kind \in {"symlink", "file"} /\ node.tree \in Trees
    BY <1>3, <1>6, TransferFacts
  <2> QED BY <1>1, <1>2, <1>7, <2>1, GroundPuts
<1>9. \A q \in Paths : mirror'[q] = IF q = p THEN node.tree[p] ELSE IF q \in Above[p] THEN Directory ELSE mirror[q]
  BY <1>1, ParentsFacts DEF WithParents
<1>10. \A q \in Paths : node.tree[q].kind # "directory" /\ q # p => mirror'[q] = mirror[q]
  BY <1>4, <1>9 DEF Directories
<1>11. PhaseInv'
  <2>1. ASSUME NEW q \in Entries PROVE mirror'[q].kind \in {"absent", node.tree[q].kind}
    <3>1. q \in Paths /\ mirror[q].kind \in {"absent", node.tree[q].kind}
      BY <1>1, <1>2 DEF PhaseInv, Past, Entries
    <3> QED BY <1>4, <1>9, <3>1, EntryFacts DEF Directories
  <2>2. ASSUME NEW q \in Directories PROVE mirror'[q].kind = "directory"
    <3>1. q \in Paths /\ mirror[q].kind = "directory" /\ node.tree[q].kind = "directory"
      BY <1>1, <1>2 DEF PhaseInv, Past, Directories
    <3> QED BY <1>9, <3>1, EntryFacts
  <2>3. node'.left \subseteq Small /\ Complete'
    BY <1>1, <1>2, <1>4, <1>5 DEF PhaseInv
  <2> QED BY <1>4, <1>5, <2>1, <2>2, <2>3 DEF PhaseInv, Past, Committing
<1>12. SmoothInv'
  <2> SUFFICES ASSUME ~doomed PROVE SmoothInv'
    BY <1>1 DEF SmoothInv
  <2>1. /\ \A q \in Opened : node.transfer[q].at = q
        /\ \A q \in Entries : node.tree[q].kind = "file" /\ q \notin node.requested => mirror[q] = node.tree[q]
        /\ \A q \in Due : mirror[q] = node.tree[q]
        /\ \A q \in Small : q \notin node.left => mirror[q] = node.tree[q]
    BY <1>1, <1>2 DEF SmoothInv, Past
  <2>2. \A q \in Entries : node.tree[q].kind = "file" /\ q \notin node.requested => mirror'[q] = node.tree[q]
    BY <1>3, <1>6, <1>10, <2>1 DEF Entries
  <2>3. \A q \in Due : mirror'[q] = node.tree[q]
    BY <1>2, <1>3, <1>6, <1>10, <2>1, DueFacts
  <2>4. \A q \in Small : q \notin node'.left => mirror'[q] = node.tree[q]
    BY <1>4, <1>6, <1>9, <1>10, <2>1
  <2> QED BY <1>1, <1>4, <1>5, <2>1, <2>2, <2>3, <2>4 DEF SmoothInv, Past
<1>13. DoomInv'
  <2> SUFFICES ASSUME doomed PROVE \E q \in Due : Misled(q)'
    BY <1>1, <1>5, Zenon DEF DoomInv
  <2>1. PICK q \in Due : Misled(q)
    BY <1>1, <1>2 DEF DoomInv, Blocked, TooLong
  <2>2. mirror'[q].kind # "file"
    BY <1>1, <1>3, <1>5, <1>6, <1>9, <2>1, EntryFacts DEF Misled
  <2> QED BY <1>1, <1>4, <2>1, <2>2 DEF Misled, Committing
<1> QED BY <1>1, <1>4, <1>8, <1>11, <1>12, <1>13, CommitKeeps

LEMMA RemovesExtraCommit ==
  ASSUME TypeOK, NumberInv, MirrorInv, CommitsInv, NodeRemovesExtra
  PROVE  CommitsInv'
<1>1. /\ node.pc = "extras" /\ node.pc \in Committing
      /\ UNCHANGED <<clientVars, doomed, wire, node>>
  BY DEF NodeRemovesExtra, Committing, commitVars
<1>2. GroundInv /\ TransferInv /\ PhaseInv /\ SmoothInv /\ DoomInv
  BY DEF CommitsInv
<1>3. PICK p \in Extras : RemoveAll(p)
  BY DEF NodeRemovesExtra
<1>4. p \in Paths /\ node.tree[p].kind = "absent"
  BY DEF Extras
<1>5. GroundInv'
  BY <1>2, <1>3, <1>4, GroundRemoves
<1>6. \A q \in Paths : mirror'[q] = IF q = p \/ p \in Above[q] THEN Absent ELSE mirror[q]
  BY <1>3, <1>4, RemoveFacts
<1>7. ASSUME NEW q \in Entries PROVE mirror'[q] = mirror[q]
  <2>1. q \in Paths /\ node.tree[q].kind # "absent" /\ q # p
    BY <1>4 DEF Entries
  <2>2. p \notin Above[q]
    BY <1>4, <2>1, TransferFacts, TreeFacts
  <2> QED BY <1>6, <2>1, <2>2
<1>8. /\ Due' = Due /\ Opened' = Opened /\ Entries' = Entries /\ (Complete' <=> Complete)
      /\ Directories' = Directories /\ Small' = Small /\ Due \in SUBSET Entries
  BY <1>1, <1>2, SamePlan, DueFacts
<1>9. Directories \in SUBSET Entries /\ Small \in SUBSET Entries
  BY DEF Directories, Entries, Small
<1>10. PhaseInv'
  BY <1>1, <1>2, <1>7, <1>8, <1>9 DEF PhaseInv, Past
<1>11. SmoothInv'
  BY <1>1, <1>2, <1>7, <1>8, <1>9 DEF SmoothInv, Past
<1>12. DoomInv'
  <2> SUFFICES ASSUME doomed PROVE \E q \in Due : Misled(q)'
    BY <1>1, <1>8, Zenon DEF DoomInv
  <2>1. PICK q \in Due : Misled(q)
    BY <1>1, <1>2 DEF DoomInv, Blocked, TooLong
  <2> QED BY <1>1, <1>7, <1>8, <2>1 DEF Misled, Committing
<1> QED BY <1>1, <1>5, <1>10, <1>11, <1>12, CommitKeeps

LEMMA RemovesLeftoverCommit ==
  ASSUME TypeOK, NumberInv, MirrorInv, CommitsInv, NodeRemovesLeftover
  PROVE  CommitsInv'
<1>1. /\ node.pc = "extras" /\ node.pc \in Committing
      /\ UNCHANGED <<clientVars, doomed, wire, node, mirror>>
  BY DEF NodeRemovesLeftover, Committing, commitVars
<1>2. GroundInv /\ TransferInv /\ PhaseInv /\ SmoothInv /\ DoomInv
  BY DEF CommitsInv
<1>3. PICK t \in Leftovers : staging' = [staging EXCEPT ![t] = <<>>]
  BY DEF NodeRemovesLeftover
<1>4. GroundInv'
  BY <1>1, <1>2, <1>3, GroundCleans
<1>5. /\ Due' = Due /\ Opened' = Opened /\ Entries' = Entries /\ (Complete' <=> Complete)
      /\ Directories' = Directories /\ Small' = Small
  BY <1>1, SamePlan
<1>6. PhaseInv'
  BY <1>1, <1>2, <1>5 DEF PhaseInv, Past
<1>7. SmoothInv'
  BY <1>1, <1>2, <1>5 DEF SmoothInv, Past
<1>8. DoomInv'
  <2> SUFFICES ASSUME doomed PROVE \E q \in Due : Misled(q)'
    BY <1>1, <1>5, Zenon DEF DoomInv
  <2>1. PICK q \in Due : Misled(q)
    BY <1>1, <1>2 DEF DoomInv, Blocked, TooLong
  <2> QED BY <1>1, <2>1 DEF Misled, Committing
<1> QED BY <1>1, <1>4, <1>6, <1>7, <1>8, CommitKeeps

LEMMA PhaseEndsCommit ==
  ASSUME TypeOK, NumberInv, MirrorInv, CommitsInv, NodePhaseEnds
  PROVE  CommitsInv'
<1>1. GroundInv /\ TransferInv /\ PhaseInv /\ SmoothInv /\ DoomInv
  BY DEF CommitsInv
<1>2. PICK phase, next, left : /\ PhaseEnds(phase, next, left)
                               /\ phase \in Committing /\ next \in Committing /\ next # "reply"
  <2>1. CASE PhaseEnds("prepare", "directories", Directories)
    BY <2>1, Zenon DEF Committing
  <2>2. CASE PhaseEnds("directories", "finalize", Opened)
    BY <2>2, Zenon DEF Committing
  <2>3. CASE PhaseEnds("finalize", "small", Small)
    BY <2>3, Zenon DEF Committing
  <2>4. CASE PhaseEnds("small", "extras", {})
    BY <2>4, Zenon DEF Committing
  <2>5. CASE PhaseEnds("extras", "verify", {})
    BY <2>5, Zenon DEF Committing
  <2> QED BY <2>1, <2>2, <2>3, <2>4, <2>5 DEF NodePhaseEnds
<1>3. /\ node.pc = phase /\ node.left = {} /\ node.pc \in Committing /\ node'.pc \in Committing
      /\ node'.pc # "reply" /\ node'.pc = next /\ node'.left = left
      /\ node'.tree = node.tree /\ node'.requested = node.requested /\ node'.transfer = node.transfer
      /\ UNCHANGED <<clientVars, doomed, wire, mirror, staging>>
  BY <1>2 DEF PhaseEnds, commitVars, TypeOK
<1>4. GroundInv' /\ Complete
  BY <1>1, <1>3, SameGround DEF PhaseInv
<1>5. /\ Due' = Due /\ Opened' = Opened /\ Entries' = Entries /\ (Complete' <=> Complete)
      /\ Directories' = Directories /\ Small' = Small
      /\ \A q : Staged(q)' = Staged(q) /\ (Holds(q)' <=> Holds(q))
      /\ Extras' = Extras /\ Leftovers' = Leftovers
  BY <1>3, SamePlan DEF Staged, Holds, Extras, Leftovers
<1>6. \A q \in Due : q \in Opened
  BY <1>1, <1>4, TransferFacts DEF Complete, Due, Opened
<1>7. CASE PhaseEnds("prepare", "directories", Directories)
  <2>1. node.pc = "prepare" /\ node'.pc = "directories" /\ node'.left = Directories
    BY <1>7 DEF PhaseEnds, TypeOK
  <2>2. PhaseInv'
    BY <1>1, <1>3, <1>5, <2>1 DEF PhaseInv, Past, Committing
  <2>3. SmoothInv'
    BY <1>1, <1>3, <1>5, <2>1 DEF SmoothInv, Past
  <2>4. DoomInv'
    BY <1>1, <1>3, <1>5, <2>1 DEF DoomInv, Blocked, Misled, TooLong, Committing
  <2> QED BY <1>3, <1>4, <2>2, <2>3, <2>4, CommitKeeps
<1>8. CASE PhaseEnds("directories", "finalize", Opened)
  <2>1. node.pc = "directories" /\ node'.pc = "finalize" /\ node'.left = Opened
    BY <1>8 DEF PhaseEnds, TypeOK
  <2>2. PhaseInv'
    BY <1>1, <1>3, <1>5, <2>1 DEF PhaseInv, Past, Committing
  <2>3. SmoothInv'
    BY <1>1, <1>3, <1>5, <1>6, <2>1 DEF SmoothInv, Past
  <2>4. DoomInv'
    BY <1>1, <1>3, <1>5, <1>6, <2>1 DEF DoomInv, Blocked, Misled, TooLong, Committing
  <2> QED BY <1>3, <1>4, <2>2, <2>3, <2>4, CommitKeeps
<1>9. CASE PhaseEnds("finalize", "small", Small)
  <2>1. node.pc = "finalize" /\ node'.pc = "small" /\ node'.left = Small
    BY <1>9 DEF PhaseEnds, TypeOK
  <2>2. PhaseInv'
    BY <1>1, <1>3, <1>5, <2>1 DEF PhaseInv, Past, Committing
  <2>3. SmoothInv'
    BY <1>1, <1>3, <1>5, <2>1 DEF SmoothInv, Past
  <2>4. DoomInv'
    BY <1>1, <1>3, <1>5, <2>1 DEF DoomInv, Blocked, Misled, TooLong, Committing
  <2> QED BY <1>3, <1>4, <2>2, <2>3, <2>4, CommitKeeps
<1>10. CASE PhaseEnds("small", "extras", {})
  <2>1. node.pc = "small" /\ node'.pc = "extras" /\ node'.left = {}
    BY <1>10 DEF PhaseEnds, TypeOK
  <2>2. PhaseInv'
    BY <1>1, <1>3, <1>5, <2>1 DEF PhaseInv, Past, Committing
  <2>3. SmoothInv'
    BY <1>1, <1>3, <1>5, <2>1 DEF SmoothInv, Past
  <2>4. DoomInv'
    BY <1>1, <1>3, <1>5, <2>1 DEF DoomInv, Blocked, Misled, TooLong, Committing
  <2> QED BY <1>3, <1>4, <2>2, <2>3, <2>4, CommitKeeps
<1>11. CASE Extras = {} /\ Leftovers = {} /\ PhaseEnds("extras", "verify", {})
  <2>1. node.pc = "extras" /\ node'.pc = "verify" /\ node'.left = {}
    BY <1>11 DEF PhaseEnds, TypeOK
  <2>2. PhaseInv'
    BY <1>1, <1>3, <1>5, <1>11, <2>1 DEF PhaseInv, Past, Committing
  <2>3. SmoothInv'
    BY <1>1, <1>3, <1>5, <2>1 DEF SmoothInv, Past
  <2>4. DoomInv'
    BY <1>1, <1>3, <1>5, <2>1 DEF DoomInv, Blocked, Misled, TooLong, Committing
  <2> QED BY <1>3, <1>4, <2>2, <2>3, <2>4, CommitKeeps
<1> QED BY <1>7, <1>8, <1>9, <1>10, <1>11 DEF NodePhaseEnds

(* A sync that began with nothing in its way has made the mirror the tree. *)
LEMMA VerifyFinds ==
  ASSUME TypeOK, CommitsInv, node.pc = "verify", ~doomed
  PROVE  mirror = node.tree /\ staging = NoStaging
<1>1. GroundInv /\ TransferInv /\ PhaseInv /\ SmoothInv
  BY DEF CommitsInv
<1>2. /\ \A p \in Directories : mirror[p].kind = "directory"
      /\ Extras = {} /\ Leftovers = {}
  BY <1>1 DEF PhaseInv, Past
<1>3. /\ \A p \in Entries : node.tree[p].kind = "file" /\ p \notin node.requested => mirror[p] = node.tree[p]
      /\ \A p \in Due : mirror[p] = node.tree[p]
      /\ \A p \in Small : mirror[p] = node.tree[p]
  BY <1>1 DEF SmoothInv, Past
<1>4. ASSUME NEW p \in Paths PROVE mirror[p] = node.tree[p]
  <2>1. /\ node.tree[p].kind \in Kinds
        /\ node.tree[p].kind = "absent" => node.tree[p] = Absent
        /\ node.tree[p].kind = "directory" => node.tree[p] = Directory
        /\ node.tree[p].kind = "file" => node.tree[p] = File(node.tree[p].bytes)
    BY TransferFacts, TreeFacts
  <2>2. CASE node.tree[p].kind = "absent"
    <3>1. mirror[p].kind = "absent"
      BY <1>2, <2>2 DEF Extras
    <3> QED BY <1>1, <2>1, <2>2, <3>1 DEF GroundInv
  <2>3. CASE node.tree[p].kind = "directory"
    <3>1. mirror[p].kind = "directory"
      BY <1>2, <2>3 DEF Directories
    <3> QED BY <1>1, <2>1, <2>3, <3>1 DEF GroundInv
  <2>4. CASE node.tree[p].kind = "symlink"
    <3>1. p \in Small
      BY <2>4 DEF Small, Entries
    <3> QED BY <1>3, <3>1
  <2>5. CASE node.tree[p].kind = "file"
    <3>1. p \in Entries
      BY <2>5 DEF Entries
    <3>2. CASE p \notin node.requested
      BY <1>3, <2>5, <3>1, <3>2
    <3>3. CASE p \in node.requested /\ node.tree[p].bytes # <<>>
      <4>1. p \in Due
        BY <3>3 DEF Due, Wanted
      <4> QED BY <1>3, <4>1
    <3>4. CASE p \in node.requested /\ node.tree[p].bytes = <<>>
      <4>1. p \in Small
        BY <2>1, <2>5, <3>1, <3>4 DEF Small
      <4> QED BY <1>3, <4>1
    <3> QED BY <3>2, <3>3, <3>4
  <2> QED BY <2>1, <2>2, <2>3, <2>4, <2>5 DEF Kinds
<1>5. mirror = node.tree
  <2>1. mirror \in [Paths -> MirrorEntry]
    BY DEF TypeOK, MirrorEntry
  <2>2. node.tree \in [Paths -> [kind : Kinds, bytes : Seq(Chunks), to : Paths \cup {NoPath}]]
    BY TransferFacts, TreeIsTyped
  <2> QED BY <1>4, <2>1, <2>2
<1>6. staging = NoStaging
  BY <1>2 DEF Leftovers, NoStaging, TypeOK
<1> QED BY <1>5, <1>6

LEMMA VerifiesCommit ==
  ASSUME TypeOK, NumberInv, MirrorInv, CommitsInv, NodeVerifies
  PROVE  CommitsInv'
<1>1. /\ node.pc = "verify" /\ node.pc \in Committing
      /\ UNCHANGED <<clientVars, doomed, mirror, staging>>
  BY DEF NodeVerifies, Committing, commitVars
<1>2. GroundInv /\ TransferInv /\ PhaseInv /\ SmoothInv /\ DoomInv
  BY DEF CommitsInv
<1>3. GroundInv'
  BY <1>1, <1>2, SameGround
<1>4. CASE mirror = node.tree /\ staging = NoStaging
  <2>1. node' = [node EXCEPT !.pc = "reply"] /\ UNCHANGED wire
    BY <1>4 DEF NodeVerifies
  <2>2. /\ node'.pc = "reply" /\ node'.pc \in Committing
        /\ node'.tree = node.tree /\ node'.requested = node.requested /\ node'.transfer = node.transfer
    BY <2>1 DEF TypeOK, Committing
  <2>3. ~doomed
    <3> SUFFICES ASSUME doomed PROVE FALSE
      OBVIOUS
    <3>1. PICK q \in Due : Misled(q)
      BY <1>1, <1>2 DEF DoomInv, Blocked, TooLong
    <3>2. mirror[q].kind # "file"
      BY <1>1, <3>1 DEF Misled
    <3> QED BY <1>2, <1>4, <3>1, <3>2, DueFacts
  <2>4. /\ Due' = Due /\ Opened' = Opened /\ Entries' = Entries /\ (Complete' <=> Complete)
    BY <2>2, SamePlan
  <2>5. PhaseInv'
    BY <1>1, <1>2, <2>2, <2>4 DEF PhaseInv, Past
  <2>6. SmoothInv' /\ DoomInv'
    BY <1>1, <1>2, <2>2, <2>3, <2>4 DEF SmoothInv, DoomInv, Past
  <2> QED BY <1>1, <1>3, <2>1, <2>2, <2>3, <2>5, <2>6, CommitKeeps
<1>5. CASE ~(mirror = node.tree /\ staging = NoStaging)
  <2>1. NodeThrows
    BY <1>5 DEF NodeVerifies
  <2>2. doomed
    BY <1>1, <1>5, VerifyFinds
  <2> QED BY <1>1, <1>3, <2>1, <2>2, NodeGivesUp
<1> QED BY <1>4, <1>5

LEMMA RepliesCommit ==
  ASSUME TypeOK, NumberInv, MirrorInv, CommitsInv, NodeReplies
  PROVE  CommitsInv'
<1>1. /\ node.pc = "reply" /\ node.pc \in Committing
      /\ node' = [node EXCEPT !.pc = "persist"]
      /\ wire' = IF wire = Closed THEN Closed ELSE [type |-> "committed", accepted |-> TRUE]
      /\ UNCHANGED <<clientVars, doomed, mirror, staging>>
  BY DEF NodeReplies, Committing, commitVars
<1>2. GroundInv /\ TransferInv /\ PhaseInv /\ SmoothInv /\ HonestInv /\ ~doomed
  BY <1>1 DEF CommitsInv, UndisturbedCommits
<1>3. /\ node'.pc = "persist"
      /\ node'.tree = node.tree /\ node'.requested = node.requested /\ node'.transfer = node.transfer
  BY <1>1 DEF TypeOK
<1>4. /\ Due' = Due /\ Opened' = Opened /\ Entries' = Entries
  BY <1>3, SamePlan
<1>5. GroundInv'
  BY <1>1, <1>2, SameGround
<1>6. TransferInv' /\ ServingInv' /\ PhaseInv'
  BY <1>1, <1>2, <1>3, <1>4 DEF TransferInv, ServingInv, PhaseInv, Past, Committing
<1>7. SmoothInv' /\ DoomInv'
  BY <1>1, <1>2, <1>3, <1>4 DEF SmoothInv, DoomInv, Past
<1>8. wire # Closed => client.pc = "committed" /\ wire'.type = "committed" /\ wire'.accepted /\ wire' # Nothing
  BY <1>1, WaitsForReply DEF Nothing
<1>9. wire = Closed => wire' = Closed
  BY <1>1
<1>10. WireInv'
  BY <1>1, <1>8, <1>9 DEF WireInv, Turns, EndsInv, ChunkInv, clientVars
<1>11. HonestInv'
  BY <1>1, <1>2, <1>4, <1>3, <1>8, <1>9 DEF HonestInv, Closed, clientVars
<1>12. UndisturbedCommits'
  BY <1>1, <1>3, <1>8, <1>9 DEF CommitsInv, UndisturbedCommits, Closed, clientVars
<1> QED BY <1>5, <1>6, <1>7, <1>10, <1>11, <1>12 DEF CommitsInv

LEMMA ReplyFailsCommit ==
  ASSUME TypeOK, NumberInv, MirrorInv, CommitsInv, NodeReplyFails
  PROVE  CommitsInv'
<1>1. /\ wire = Closed /\ NodeThrows /\ UNCHANGED <<clientVars, mirror, staging, doomed>>
  BY DEF NodeReplyFails, commitVars
<1>2. (spoiled \/ doomed) /\ GroundInv'
  BY <1>1, SameGround DEF CommitsInv, UndisturbedCommits
<1> QED BY <1>1, <1>2, NodeGivesUp

LEMMA PersistsCommit ==
  ASSUME TypeOK, NumberInv, MirrorInv, CommitsInv, NodePersists
  PROVE  CommitsInv'
<1>1. /\ node.pc = "persist" /\ node' = NodeOff /\ UNCHANGED <<clientVars, doomed, wire, mirror, staging>>
  BY DEF NodePersists
<1>2. node'.pc = "off" /\ Opened' = {} /\ NodeInv'
  BY <1>1, OffIsTyped, EndedNode
<1>3. GroundInv'
  BY <1>1, SameGround DEF CommitsInv
<1>4. wire # Closed => /\ Turns /\ EndsInv /\ wire.type # "chunk" /\ wire.type # "commit"
                       /\ ~(wire.type = "diff" /\ wire.accepted)
                       /\ ~(client.pc = "committed" /\ wire = Nothing)
                       /\ client.pc \notin {"check", "plan", "missing", "send"}
  BY <1>1 DEF CommitsInv, WireInv, EndsInv, ChunkInv, TodoInv, Committing
<1>5. WireInv'
  BY <1>1, <1>2, <1>4 DEF WireInv, Turns, EndsInv, ChunkInv, clientVars
<1>6. wire = Closed => wire.type = "closed"
  BY DEF Closed
<1>7. HonestInv'
  BY <1>1, <1>2, <1>4, <1>6 DEF CommitsInv, HonestInv, clientVars
<1>8. UndisturbedCommits'
  BY <1>1, <1>2 DEF CommitsInv, UndisturbedCommits, clientVars
<1> QED BY <1>2, <1>3, <1>5, <1>7, <1>8 DEF CommitsInv, NodeInv

-----------------------------------------------------------------------------
(* The user, the network, and the node's death. *)

LEMMA EditCommit ==
  ASSUME TypeOK, CommitsInv, Edit
  PROVE  CommitsInv'
<1>1. /\ UNCHANGED <<nodeVars, client, wire>> /\ (spoiled' <=> spoiled \/ client.pc # "idle")
  BY DEF Edit
<1>2. GroundInv' /\ NodeInv'
  BY <1>1, StillNode DEF CommitsInv, NodeInv, nodeVars
<1>3. /\ Due' = Due /\ Opened' = Opened /\ Current' = Current /\ Size' = Size
      /\ (Complete' <=> Complete)
      /\ \A p : OnWire(p)' = OnWire(p) /\ (Accounted(p)' <=> Accounted(p))
  BY <1>1 DEF Due, Opened, Current, Size, Complete, OnWire, Accounted, nodeVars
<1>4. (Turns' <=> Turns) /\ (EndsInv' <=> EndsInv) /\ (ChunkInv' <=> ChunkInv)
  BY <1>1, <1>3 DEF Turns, EndsInv, ChunkInv, nodeVars
<1>5. TodoInv => TodoInv'
  BY <1>1, <1>3 DEF TodoInv, nodeVars
<1>6. FileInv => FileInv'
  BY <1>1, <1>3 DEF FileInv, nodeVars
<1>7. WireInv'
  BY <1>1, <1>4, <1>5, <1>6 DEF CommitsInv, WireInv
<1>8. HonestInv'
  BY <1>1, <1>3 DEF CommitsInv, HonestInv, nodeVars
<1>9. UndisturbedCommits'
  BY <1>1 DEF CommitsInv, UndisturbedCommits, nodeVars
<1> QED BY <1>2, <1>7, <1>8, <1>9 DEF CommitsInv, NodeInv

LEMMA FaultKeeps ==
  ASSUME Fault, GroundInv', NodeInv', node'.pc = "reply" => ~doomed'
  PROVE  CommitsInv'
<1>1. wire' = Closed /\ spoiled' /\ wire'.type = "closed"
  BY DEF Fault, Closed
<1>2. WireInv' /\ HonestInv' /\ UndisturbedCommits'
  BY <1>1 DEF WireInv, HonestInv, UndisturbedCommits
<1> QED BY <1>2 DEF CommitsInv, NodeInv

LEMMA FaultsCommit ==
  ASSUME TypeOK, CommitsInv, Disconnect \/ NodeDies \/ NodeDiesWriting
  PROVE  CommitsInv'
<1>1. CASE Disconnect
  <2>1. Fault /\ UNCHANGED nodeVars
    BY <1>1 DEF Disconnect
  <2>2. GroundInv' /\ NodeInv'
    BY <2>1, StillNode DEF CommitsInv, NodeInv, nodeVars
  <2> QED BY <2>1, <2>2, FaultKeeps DEF CommitsInv, UndisturbedCommits, nodeVars
<1>2. CASE NodeDies
  <2>1. Fault /\ node' = NodeOff /\ UNCHANGED <<mirror, staging>>
    BY <1>2 DEF NodeDies
  <2> QED BY <2>1, EndedNode, OffIsTyped, SameGround, FaultKeeps DEF CommitsInv
<1>3. CASE NodeDiesWriting
  <2>1. Fault /\ node' = NodeOff /\ Writes(Torn) /\ node.pc = "serving" /\ wire.type = "chunk" /\ Accepts
    BY <1>3 DEF NodeDiesWriting
  <2>2. GroundInv'
    BY <2>1, WriteFacts
  <2> QED BY <2>1, <2>2, EndedNode, OffIsTyped, FaultKeeps
<1> QED BY <1>1, <1>2, <1>3

-----------------------------------------------------------------------------

LEMMA CommitsInit ==
  ASSUME Init
  PROVE  CommitsInv
<1>1. /\ mirror = NoTree /\ staging = NoStaging /\ client = ClientIdle(1) /\ wire = Nothing
      /\ node = NodeOff /\ ~doomed
  BY DEF Init
<1>2. /\ node.pc = "off" /\ node.requested = {} /\ \A p \in Paths : ~node.transfer[p].open
      /\ client.pc = "idle" /\ wire.type = "none"
  BY <1>1 DEF NodeOff, NoTransfers, NoTransfer, ClientIdle, Nothing
<1>3. Opened = {}
  BY <1>2 DEF Opened
<1>4. GroundInv
  <2>1. \A p \in Paths : mirror[p] = Absent
    BY <1>1 DEF NoTree
  <2>2. \A p \in Paths : \A n \in Numbers : staging[<<p, n>>] = <<>>
    BY <1>1 DEF NoStaging, Transfers
  <2> QED BY <2>1, <2>2, EntryFacts DEF GroundInv
<1>5. TransferInv /\ ServingInv /\ SmoothInv /\ DoomInv
  BY <1>2, <1>3 DEF TransferInv, ServingInv, SmoothInv, DoomInv
<1>6. PhaseInv
  BY <1>2 DEF PhaseInv, Past, Committing
<1>7. WireInv /\ HonestInv
  BY <1>2, <1>3 DEF WireInv, Turns, EndsInv, ChunkInv, HonestInv
<1>8. UndisturbedCommits
  BY <1>2 DEF UndisturbedCommits, Closed
<1> QED BY <1>4, <1>5, <1>6, <1>7, <1>8 DEF CommitsInv

LEMMA NodeCommitsStep ==
  ASSUME TypeOK, NumberInv, MirrorInv, CommitsInv, Node
  PROVE  CommitsInv'
<1>1. CASE NodeBegins \/ NodeAcceptsPlan \/ NodeAcceptsChunk \/ NodeSeesClose
  BY <1>1, BeginsCommit, PlanCommit, AcceptsChunkCommit, SeesCloseCommit
<1>2. CASE NodeReceivesCommit
  BY <1>2, ReceivesCommitCommit
<1>3. ASSUME NEW p \in Paths,
             NodePrepares(p) \/ NodeMakesDirectory(p) \/ NodeFinalizes(p) \/ NodeMakesSmall(p)
      PROVE  CommitsInv'
  BY <1>3, PreparesCommit, MakesDirectoryCommit, FinalizesCommit, MakesSmallCommit
<1>4. CASE NodeRemovesExtra \/ NodeRemovesLeftover \/ NodePhaseEnds
  BY <1>4, RemovesExtraCommit, RemovesLeftoverCommit, PhaseEndsCommit
<1>5. CASE NodeVerifies \/ NodeReplies \/ NodeReplyFails \/ NodePersists
  BY <1>5, VerifiesCommit, RepliesCommit, ReplyFailsCommit, PersistsCommit
<1> QED BY <1>1, <1>2, <1>3, <1>4, <1>5 DEF Node, Commit

LEMMA CommitsStep ==
  ASSUME TypeOK, NumberInv, MirrorInv, CommitsInv, [Next]_vars
  PROVE  CommitsInv'
<1>1. CASE UNCHANGED vars
  <2>1. GroundInv' /\ NodeInv'
    BY <1>1, StillNode DEF CommitsInv, NodeInv, vars
  <2>2. /\ Due' = Due /\ Opened' = Opened /\ Current' = Current /\ Size' = Size
        /\ (Complete' <=> Complete)
        /\ \A p : OnWire(p)' = OnWire(p) /\ (Accounted(p)' <=> Accounted(p))
    BY <1>1 DEF Due, Opened, Current, Size, Complete, OnWire, Accounted, vars
  <2>3. (Turns' <=> Turns) /\ (EndsInv' <=> EndsInv) /\ (ChunkInv' <=> ChunkInv)
    BY <1>1, <2>2 DEF Turns, EndsInv, ChunkInv, vars
  <2>4. (TodoInv => TodoInv') /\ (FileInv => FileInv')
    BY <1>1, <2>2 DEF TodoInv, FileInv, vars
  <2>5. WireInv'
    BY <1>1, <2>3, <2>4 DEF CommitsInv, WireInv, vars
  <2>6. HonestInv' /\ UndisturbedCommits'
    BY <1>1, <2>2 DEF CommitsInv, HonestInv, UndisturbedCommits, vars
  <2> QED BY <2>1, <2>5, <2>6 DEF CommitsInv, NodeInv
<1>2. CASE Client
  BY <1>2, ClientCommitsStep
<1>3. CASE Node
  BY <1>3, NodeCommitsStep
<1>4. CASE Edit
  BY <1>4, EditCommit
<1>5. CASE Disconnect \/ NodeDies \/ NodeDiesWriting
  BY <1>5, FaultsCommit
<1> QED BY <1>1, <1>2, <1>3, <1>4, <1>5 DEF Next

(* Neither side gives up a sync that no edit, lost connection or death disturbs
   and that began on a mirror the node can convert, and its answer is that the
   revision is committed; one that began on another mirror never gets that far
   (serve_workspace_sync, sync_workspace, FileTransfer, commit). *)
THEOREM UndisturbedSucceeds == Spec => []UndisturbedCommits
<1> DEFINE Inv == TypeOK /\ NumberInv /\ MirrorInv /\ CommitsInv
<1>1. Init => Inv
  BY TypeInit, MirrorInit, CommitsInit
<1>2. Inv /\ [Next]_vars => Inv'
  BY TypeStep, MirrorStep, CommitsStep
<1>3. Inv => UndisturbedCommits
  BY DEF CommitsInv
<1> QED BY <1>1, <1>2, <1>3, PTL DEF Spec

===============================================================================
