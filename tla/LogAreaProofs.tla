--------------------------- MODULE LogAreaProofs ----------------------------
(***************************************************************************)
(* Proofs about the log area, for every set of uploads and of paths, every *)
(* retention time and any number of failures, crashes and restarts: type   *)
(* correctness, and that what has been stored stays until its top-level    *)
(* entry is too old.                                                       *)
(***************************************************************************)
EXTENDS LogArea, SequenceTheorems, TLAPS

-----------------------------------------------------------------------------
(* The inductive invariant.                                                *)

\* The directories above an entry of the tree.
Above(q) == {SubSeq(q, 1, i) : i \in 1..(Len(q) - 1)}

\* The files and directories form a tree.
Entry == Seq(STRING) \ {<<>>}
Present == dirs \cup {p \in Paths : file[p] # NoUpload}
Tree ==
  /\ dirs \subseteq Entry
  /\ \A q \in Present : Above(q) \subseteq dirs

\* A sweep removes only top-level entries that have been there for too long, and
\* they are there until it has removed them.
Sweeping ==
  /\ removing # NoName => removing \in directories /\ run # "select"
  /\ \A t \in directories : <<t>> \in Present /\ birth[t] > Retention

\* An entry is not older than what is known of its modification.
BirthInv == \A t \in Names : birth[t] >= mtime[t]

\* MkdirAll stays above the file.
DepthInv ==
  \A u \in Uploads : /\ up[u] = "idle" => depth[u] = 0
                     /\ up[u] = "mkdir" => depth[u] + 2 <= Len(path[u])

\* An inode is that of the path of the upload that has created it, and of no other.
Created(u) == up[u] \notin {"idle", "mkdir", "create"}
InodeInv ==
  /\ \A p \in Paths : file[p] # NoUpload => path[file[p]] = p /\ Created(file[p])
  /\ \A u \in Uploads : handle[u] # NoUpload => path[handle[u]] = path[u] /\ Created(handle[u])
  /\ \A u \in Uploads : up[u] = "copy" \/ u \in stored => handle[u] # NoUpload
  /\ \A u \in stored : up[u] = "ok"

\* Uploads that write to the same path at the same time are known, and nothing that
\* is written to counts as stored.
AloneInv ==
  \A u, v \in Uploads : u # v /\ path[u] = path[v] /\ up[v] = "copy" =>
    /\ up[u] = "copy" => u \in overlapped
    /\ u \notin stored

\* What has been stored, or is being written without interference, is whole, and in
\* its place until its top-level entry is too old.
Safe(u) == u \in stored \/ (up[u] = "copy" /\ u \notin overlapped)
KeptInv ==
  \A u \in Uploads : Safe(u) =>
    /\ content[handle[u]] = IF u \in stored THEN {u} ELSE {}
    /\ \/ topAge[u] > Retention
       \/ /\ file[path[u]] = handle[u] /\ path[u] \notin dirs
          /\ topAge[u] = birth[path[u][1]]

AreaInv ==
  Tree /\ Sweeping /\ BirthInv /\ DepthInv /\ InodeInv /\ AloneInv /\ KeptInv

-----------------------------------------------------------------------------
(* Paths.                                                                  *)

USE DEF fs, request, sweep

\* PrefixFacts: the first names of an entry are an entry below the same top.
LEMMA PrefixFacts ==
  ASSUME NEW q \in Entry, NEW i \in 1..Len(q)
  PROVE  /\ SubSeq(q, 1, i) \in Entry /\ Len(SubSeq(q, 1, i)) = i
         /\ SubSeq(q, 1, i)[1] = q[1]
         /\ \A j \in 1..i : SubSeq(SubSeq(q, 1, i), 1, j) = SubSeq(q, 1, j)
<1>1. q \in Seq(STRING) /\ Len(q) \in Nat /\ q # <<>>
  BY DEF Entry
<1>2. \A j \in 1..i : q[j] \in STRING
  BY <1>1
<1>3. /\ SubSeq(q, 1, i) \in Seq(STRING) /\ Len(SubSeq(q, 1, i)) = i
      /\ \A j \in 1..i : SubSeq(q, 1, i)[j] = q[j]
  BY <1>1, <1>2, SubSeqProperties
<1>4. SubSeq(q, 1, i) # <<>>
  BY <1>3
<1>5. ASSUME NEW j \in 1..i PROVE SubSeq(SubSeq(q, 1, i), 1, j) = SubSeq(q, 1, j)
  BY <1>1, <1>3, SubSeqOfSubSeq
<1> QED BY <1>1, <1>3, <1>4, <1>5 DEF Entry

\* WholeFacts: all names of an entry are the entry itself, and the first is its top.
LEMMA WholeFacts ==
  ASSUME NEW q \in Entry
  PROVE  /\ Len(q) \in Nat /\ 1 \in 1..Len(q) /\ Len(q) \in 1..Len(q)
         /\ SubSeq(q, 1, Len(q)) = q /\ SubSeq(q, 1, 1) = <<q[1]>>
<1>1. q \in Seq(STRING) /\ Len(q) \in Nat /\ q # <<>> /\ 1 \in 1..Len(q) /\ Len(q) \in 1..Len(q)
  BY DEF Entry
<1>2. SubSeq(q, 1, Len(q)) = q
  BY <1>1, SubSeqFull
<1>3. SubSeq(q, 1, 1) = <<q[1]>>
  <2>1. q[1] \in STRING
    BY <1>1
  <2>2. /\ SubSeq(q, 1, 1) \in Seq(STRING) /\ Len(SubSeq(q, 1, 1)) = 1
        /\ SubSeq(q, 1, 1)[1] = q[1]
    BY <1>1, <2>1, SubSeqProperties
  <2>3. <<q[1]>> \in Seq(STRING) /\ Len(<<q[1]>>) = 1 /\ <<q[1]>>[1] = q[1]
    BY <2>1
  <2> DEFINE a == SubSeq(q, 1, 1)
             b == <<q[1]>>
  <2>4. a \in Seq(STRING) /\ b \in Seq(STRING) /\ Len(a) = 1 /\ Len(b) = 1 /\ a[1] = b[1]
    BY <2>2, <2>3
  <2> HIDE DEF a, b
  <2>5. \A i \in 1..Len(a) : a[i] = b[i]
    BY <2>4
  <2>6. a = b
    BY <2>4, <2>5, SeqEqual
  <2> QED BY <2>6 DEF a, b
<1> QED BY <1>1, <1>2, <1>3

\* PathFacts: a path of a request is an entry below one of the names.
LEMMA PathFacts == ASSUME NEW p \in Paths PROVE p \in Entry /\ p[1] \in Names
BY LogAreaAssumption DEF Entry, Names

\* AgeFacts: ages grow up to their bound and are never reset by time (Older).
LEMMA AgeFacts ==
  /\ 0 \in Age
  /\ \A a \in Age : /\ a \in Nat /\ Older(a) \in Age /\ Older(a) >= a
                    /\ a > Retention => Older(a) > Retention
  /\ \A a, b \in Age : a >= b => Older(a) >= Older(b)
BY LogAreaAssumption DEF Age, Older

-----------------------------------------------------------------------------
(* Type correctness.                                                       *)

\* FaultType: the count of faults stays within its bound (Fault).
LEMMA FaultType == ASSUME TypeOK, Fault PROVE faults' \in 0..MaxFaults
BY LogAreaAssumption DEF TypeOK, Fault

\* TouchType: what the creation or removal of an entry does to ages (Touched, Born).
LEMMA TouchType ==
  ASSUME TypeOK, NEW q
  PROVE  Touched(q) \in [Names -> Age] /\ Born(q) \in [Names -> Age]
BY AgeFacts DEF TypeOK, Touched, Born

\* MkdirFacts: the directory that MkdirAll comes to lies above the file (MkdirAll).
LEMMA MkdirFacts ==
  ASSUME TypeOK, DepthInv, NEW u \in Uploads, up[u] = "mkdir"
  PROVE  /\ path[u] \in Paths /\ path[u] \in Entry
         /\ depth[u] \in Nat /\ depth[u] + 1 \in 1..(Len(path[u]) - 1)
         /\ depth[u] + 1 \in 1..Len(path[u])
         /\ SubSeq(path[u], 1, depth[u] + 1) \in Entry
         /\ Len(SubSeq(path[u], 1, depth[u] + 1)) = depth[u] + 1
         /\ SubSeq(path[u], 1, depth[u] + 1)[1] = path[u][1]
<1>1. path[u] \in Paths /\ depth[u] \in Nat /\ depth[u] + 2 <= Len(path[u])
  BY DEF TypeOK, DepthInv
<1>2. path[u] \in Entry /\ Len(path[u]) \in Nat
  BY <1>1, PathFacts DEF Entry
<1>3. depth[u] + 1 \in 1..Len(path[u]) /\ depth[u] + 1 \in 1..(Len(path[u]) - 1)
  BY <1>1, <1>2
<1> QED BY <1>1, <1>2, <1>3, PrefixFacts

\* TypeStep: every step keeps the types, and MkdirAll above the file.
LEMMA TypeStep == TypeOK /\ DepthInv /\ [Next]_vars => TypeOK' /\ DepthInv'
<1> SUFFICES ASSUME TypeOK, DepthInv, [Next]_vars PROVE TypeOK' /\ DepthInv'
  OBVIOUS
<1> USE DEF Stages
<1>1. CASE Tick
  <2>1. /\ mtime' \in [Names -> Age] /\ birth' \in [Names -> Age]
        /\ topAge' \in [Uploads -> Age]
    BY <1>1, AgeFacts DEF TypeOK, Tick
  <2> QED BY <1>1, <2>1 DEF TypeOK, DepthInv, Tick
<1>2. ASSUME NEW u \in Uploads, Upload(u) PROVE TypeOK' /\ DepthInv'
  <2>1. path[u] \in Paths /\ Len(path[u]) \in Nat /\ Len(path[u]) >= 1
    BY PathFacts, WholeFacts DEF TypeOK
  <2>2. depth[u] = 0
    BY <1>2 DEF Upload, DepthInv
  <2>3. /\ UNCHANGED <<path, depth>> /\ up'[u] \in {"create", "mkdir"}
        /\ up'[u] = "mkdir" => Len(path[u]) # 1
        /\ \A v \in Uploads \ {u} : up'[v] = up[v]
    BY <1>2 DEF TypeOK, Upload, Answer
  <2>4. \A n \in Nat : n >= 1 /\ n # 1 => 0 + 2 <= n
    OBVIOUS
  <2>5. up'[u] = "mkdir" => depth'[u] + 2 <= Len(path'[u])
    BY <2>1, <2>2, <2>3, <2>4, Zenon
  <2>6. DepthInv'
    BY <2>3, <2>5 DEF DepthInv
  <2> QED BY <1>2, <2>6 DEF TypeOK, Upload, Answer
<1>3. ASSUME NEW u \in Uploads,
             MissingPath(u) \/ MkdirFails(u) \/ CreateFails(u) PROVE TypeOK' /\ DepthInv'
  BY <1>3 DEF TypeOK, DepthInv, MissingPath, MkdirFails, CreateFails, Answer
<1>4. ASSUME NEW u \in Uploads, MkdirAll(u) PROVE TypeOK' /\ DepthInv'
  <2>1. up[u] = "mkdir" /\ UNCHANGED <<file, content, path, handle, topAge, overlapped, stored,
                                       sweep, main, faults>>
    BY <1>4 DEF MkdirAll
  <2> DEFINE q == SubSeq(path[u], 1, depth[u] + 1)
  <2>2. dirs' \subseteq dirs \cup {q}
    BY <1>4 DEF MkdirAll
  <2>3. /\ path[u] \in Paths /\ Len(q) = depth[u] + 1 /\ depth[u] \in Nat
        /\ depth[u] + 1 \in 1..(Len(path[u]) - 1)
    BY <2>1, MkdirFacts
  <2>4. Len(path[u]) \in Nat /\ Len(q) < Len(path[u]) /\ q = SubSeq(path[u], 1, Len(q))
    BY <2>3, PathFacts, WholeFacts
  <2>5. \A d \in dirs' : \E p \in Paths : Len(d) < Len(p) /\ d = SubSeq(p, 1, Len(d))
    BY <2>2, <2>3, <2>4 DEF TypeOK
  <2>6. mtime' \in [Names -> Age] /\ birth' \in [Names -> Age]
    BY <1>4, TouchType DEF TypeOK, MkdirAll
  <2>7. /\ depth' \in [Uploads -> Nat] /\ depth'[u] = depth[u] + 1
        /\ \A v \in Uploads \ {u} : depth'[v] = depth[v]
    <3>1. depth' = [depth EXCEPT ![u] = @ + 1]
      BY <1>4 DEF MkdirAll
    <3> QED BY <2>3, <3>1 DEF TypeOK
  <2>8. /\ up' \in [Uploads -> Stages] /\ \A v \in Uploads \ {u} : up'[v] = up[v]
        /\ up'[u] = "mkdir" => depth[u] + 2 # Len(path[u])
        /\ up'[u] # "idle"
    <3>1. IF depth[u] + 2 = Len(path[u]) THEN up' = [up EXCEPT ![u] = "create"] ELSE up' = up
      BY <1>4 DEF MkdirAll, Answer
    <3> QED BY <2>1, <3>1 DEF TypeOK
  <2>9. DepthInv'
    <3>1. \A d, n \in Nat : d + 1 \in 1..(n - 1) /\ d + 2 # n => d + 1 + 2 <= n
      OBVIOUS
    <3>2. up'[u] = "mkdir" => depth'[u] + 2 <= Len(path'[u])
      BY <2>1, <2>3, <2>4, <2>7, <2>8, <3>1, Zenon
    <3>3. UNCHANGED path
      BY <2>1
    <3> QED BY <2>7, <2>8, <3>2, <3>3 DEF DepthInv
  <2> QED BY <2>1, <2>5, <2>6, <2>7, <2>8, <2>9 DEF TypeOK
<1>5. ASSUME NEW u \in Uploads, Create(u) PROVE TypeOK' /\ DepthInv'
  <2>1. path[u] \in Paths /\ path[u][1] \in Names
    BY PathFacts DEF TypeOK
  <2>2. mtime' \in [Names -> Age] /\ birth' \in [Names -> Age]
    BY <1>5, TouchType DEF TypeOK, Create
  <2>3. topAge' \in [Uploads -> Age]
    BY <1>5, <2>1, <2>2 DEF TypeOK, Create
  <2>4. /\ file' \in [Paths -> Uploads \cup {NoUpload}]
        /\ handle' \in [Uploads -> Uploads \cup {NoUpload}]
        /\ content' \in [Uploads -> SUBSET Uploads]
    BY <1>5, <2>1 DEF TypeOK, Create
  <2>5. overlapped' \subseteq Uploads /\ stored' \subseteq Uploads
    BY <1>5 DEF TypeOK, Create
  <2>6. /\ up' \in [Uploads -> Stages] /\ DepthInv'
        /\ UNCHANGED <<dirs, path, depth, sweep, main, faults>>
    BY <1>5 DEF TypeOK, DepthInv, Create, Answer
  <2> QED BY <2>2, <2>3, <2>4, <2>5, <2>6 DEF TypeOK
<1>6. ASSUME NEW u \in Uploads, Copy(u) PROVE TypeOK' /\ DepthInv'
  <2>1. mtime' \in [Names -> Age]
    BY <1>6, TouchType DEF TypeOK, Copy
  <2>2. content' \in [Uploads -> SUBSET Uploads] /\ stored' \subseteq Uploads
    BY <1>6 DEF TypeOK, Copy
  <2> QED BY <1>6, <2>1, <2>2 DEF TypeOK, DepthInv, Copy, Answer
<1>7. ASSUME NEW u \in Uploads, CopyFails(u) PROVE TypeOK' /\ DepthInv'
  BY <1>7, FaultType DEF TypeOK, DepthInv, CopyFails, Answer
<1>8. CASE TimerFires
  BY <1>8 DEF TypeOK, DepthInv, TimerFires
<1>9. CASE Cleanup
  BY <1>9 DEF TypeOK, DepthInv, Cleanup, TopLevel
<1>10. CASE CleanupEnds
  BY <1>10 DEF TypeOK, DepthInv, CleanupEnds, Rearm
<1>11. CASE RemoveFails
  BY <1>11, FaultType DEF TypeOK, DepthInv, RemoveFails
<1>12. ASSUME NEW t \in Names, RemoveAll(t) PROVE TypeOK' /\ DepthInv'
  BY <1>12 DEF TypeOK, DepthInv, RemoveAll
<1>13. ASSUME NEW q \in Entries, Unlink(q) PROVE TypeOK' /\ DepthInv'
  <2>1. mtime' \in [Names -> Age]
    BY <1>13, TouchType DEF Unlink
  <2>2. file' \in [Paths -> Uploads \cup {NoUpload}]
    BY <1>13 DEF TypeOK, Unlink
  <2> QED BY <1>13, <2>1, <2>2 DEF TypeOK, DepthInv, Unlink
<1>14. CASE Crash
  BY <1>14, FaultType DEF TypeOK, DepthInv, Crash, Started
<1>15. CASE Signal \/ Close
  BY <1>15 DEF TypeOK, DepthInv, Signal, Close
<1>16. CASE Shutdown
  BY <1>16 DEF TypeOK, DepthInv, Shutdown
<1>17. CASE Restart
  BY <1>17, FaultType DEF TypeOK, DepthInv, Restart, Started
<1>18. CASE UNCHANGED vars
  BY <1>18 DEF TypeOK, DepthInv, vars
<1> QED
  BY <1>1, <1>2, <1>3, <1>4, <1>5, <1>6, <1>7, <1>8, <1>9, <1>10, <1>11, <1>12, <1>13,
     <1>14, <1>15, <1>16, <1>17, <1>18 DEF Next, Request, Sweep

\* TypeInit: the types hold initially.
LEMMA TypeInit == Init => TypeOK /\ DepthInv
BY LogAreaAssumption, AgeFacts DEF Init, TypeOK, DepthInv, Stages

\* TypeCorrect: every variable of the log area keeps its type, and directories are
\* created above files only.
THEOREM TypeCorrect == Spec => []TypeOK
<1>1. Spec => [](TypeOK /\ DepthInv)
  BY TypeInit, TypeStep, PTL DEF Spec
<1> QED BY <1>1, PTL

-----------------------------------------------------------------------------
(* The tree.                                                               *)

\* EntryFacts: what is in the tree is an entry, and its top-level entry is there.
LEMMA EntryFacts ==
  ASSUME TypeOK, Tree, NEW q \in Present
  PROVE  q \in Entry /\ q[1] \in Names /\ <<q[1]>> \in Present
<1>1. q \in Entry
  BY PathFacts DEF Tree, Present
<1>2. q[1] \in Names
  <2>1. CASE q \in Paths
    BY <2>1, PathFacts
  <2>2. CASE q \in dirs
    <3>1. PICK p \in Paths : Len(q) < Len(p) /\ q = SubSeq(p, 1, Len(q))
      BY <2>2 DEF TypeOK
    <3>2. p \in Entry /\ p[1] \in Names /\ Len(p) \in Nat /\ Len(q) \in Nat /\ 1 \in 1..Len(q)
      BY <1>1, PathFacts, WholeFacts
    <3>3. Len(q) \in 1..Len(p)
      BY <3>1, <3>2
    <3>4. SubSeq(p, 1, Len(q))[1] = p[1]
      BY <3>2, <3>3, PrefixFacts
    <3> QED BY <3>1, <3>2, <3>4
  <2> QED BY <2>1, <2>2 DEF Present
<1>3. <<q[1]>> \in Present
  <2>1. Len(q) \in Nat /\ SubSeq(q, 1, Len(q)) = q /\ SubSeq(q, 1, 1) = <<q[1]>> /\ 1 \in 1..Len(q)
    BY <1>1, WholeFacts
  <2>2. CASE Len(q) = 1
    BY <2>1, <2>2
  <2>3. CASE Len(q) # 1
    <3>1. 1 \in 1..(Len(q) - 1)
      BY <2>1, <2>3
    <3>2. <<q[1]>> \in Above(q)
      BY <2>1, <3>1 DEF Above
    <3> QED BY <3>2 DEF Tree, Present
  <2> QED BY <2>2, <2>3
<1> QED BY <1>1, <1>2, <1>3

\* AboveFacts: an entry whose directory is there has all directories above it.
LEMMA AboveFacts ==
  ASSUME Tree, NEW q \in Entry, Len(q) = 1 \/ SubSeq(q, 1, Len(q) - 1) \in dirs
  PROVE  Above(q) \subseteq dirs
<1> SUFFICES ASSUME NEW i \in 1..(Len(q) - 1) PROVE SubSeq(q, 1, i) \in dirs
  BY DEF Above
<1>1. Len(q) \in Nat
  BY WholeFacts
<1> DEFINE m == Len(q) - 1
           above == SubSeq(q, 1, m)
<1>2. m \in 1..Len(q) /\ i \in 1..m /\ Len(q) # 1
  <2>1. \A n \in Nat : \A j \in 1..(n - 1) : n - 1 \in 1..n /\ n # 1
    OBVIOUS
  <2> QED BY <1>1, <2>1, Zenon
<1>3. above \in dirs
  BY <1>2
<1>4. Len(above) = m /\ SubSeq(above, 1, i) = SubSeq(q, 1, i)
  BY <1>2, PrefixFacts
<1>5. CASE i = m
  BY <1>3, <1>5
<1>6. CASE i # m
  <2>1. i \in 1..(m - 1)
    BY <1>1, <1>2, <1>6
  <2>2. SubSeq(above, 1, i) \in Above(above)
    BY <1>4, <2>1 DEF Above
  <2> QED BY <1>3, <1>4, <2>2 DEF Tree, Present
<1> QED BY <1>5, <1>6

\* LeafFacts: what RemoveAll takes away has nothing below it (Unlink).
LEMMA LeafFacts ==
  ASSUME TypeOK, Tree, NEW q \in Present, Leaf(q), NEW r \in Present
  PROVE  q \notin Above(r)
<1> SUFFICES ASSUME q \in Above(r) PROVE FALSE
  OBVIOUS
<1>1. PICK i \in 1..(Len(r) - 1) : q = SubSeq(r, 1, i)
  BY DEF Above
<1>2. r \in Entry /\ Len(r) \in Nat /\ SubSeq(r, 1, Len(r)) = r
  BY EntryFacts, WholeFacts
<1> DEFINE s == SubSeq(r, 1, i + 1)
<1>3. i \in 1..Len(r) /\ i + 1 \in 1..Len(r) /\ i \in 1..(i + 1)
  BY <1>2
<1>4. Len(q) = i /\ q[1] = r[1]
  BY <1>1, <1>2, <1>3, PrefixFacts
<1>5. Len(s) = i + 1 /\ s[1] = r[1] /\ SubSeq(s, 1, i) = SubSeq(r, 1, i)
  BY <1>2, <1>3, PrefixFacts
<1>6. s \in Present
  <2>1. CASE i + 1 = Len(r)
    BY <1>2, <2>1
  <2>2. CASE i + 1 # Len(r)
    <3>1. i + 1 \in 1..(Len(r) - 1)
      <4>1. \A n \in Nat : \A j \in 1..(n - 1) : j + 1 # n => j + 1 \in 1..(n - 1)
        OBVIOUS
      <4> QED BY <1>2, <2>2, <4>1, Zenon
    <3>2. s \in Above(r)
      BY <3>1 DEF Above
    <3> QED BY <3>2 DEF Tree, Present
  <2> QED BY <2>1, <2>2
<1>7. s \in Below(q[1])
  BY <1>4, <1>5, <1>6 DEF Below, Present
<1> HIDE DEF s
<1> QED BY <1>1, <1>4, <1>5, <1>7 DEF Leaf

\* TreeStep: directories are created from the top and removed from the bottom.
LEMMA TreeStep == TypeOK /\ DepthInv /\ Tree /\ [Next]_vars => Tree'
<1> SUFFICES ASSUME TypeOK, DepthInv, Tree, [Next]_vars PROVE Tree'
  OBVIOUS
<1>1. CASE UNCHANGED <<dirs, file>>
  BY <1>1 DEF Tree, Present, Entry, Above
<1>2. ASSUME NEW u \in Uploads, MkdirAll(u) PROVE Tree'
  <2> DEFINE p == path[u]
             d == depth[u]
             q == SubSeq(p, 1, d + 1)
  <2>1. CASE UNCHANGED dirs
    BY <1>1, <1>2, <2>1 DEF MkdirAll
  <2>2. CASE dirs' = dirs \cup {q} /\ (SubSeq(p, 1, d) = <<>> \/ SubSeq(p, 1, d) \in dirs)
    <3>1. /\ p \in Entry /\ q \in Entry /\ Len(q) = d + 1
          /\ d \in Nat /\ d + 1 \in 1..Len(p)
      BY <1>2, MkdirFacts DEF MkdirAll
    <3>2. Len(q) = 1 \/ SubSeq(q, 1, Len(q) - 1) \in dirs
      <4>1. CASE d = 0
        BY <3>1, <4>1
      <4>2. CASE d # 0
        <5>1. d \in 1..(d + 1) /\ d \in 1..Len(p) /\ d + 1 - 1 = d
          BY <3>1, <4>2, WholeFacts
        <5>2. SubSeq(q, 1, d) = SubSeq(p, 1, d)
          BY <3>1, <5>1, PrefixFacts
        <5>3. SubSeq(p, 1, d) # <<>>
          BY <3>1, <5>1, PrefixFacts DEF Entry
        <5>4. SubSeq(q, 1, d) \in dirs
          BY <2>2, <5>2, <5>3
        <5>5. Len(q) - 1 = d
          BY <3>1, <5>1
        <5> QED BY <5>4, <5>5
      <4> QED BY <4>1, <4>2
    <3>3. Above(q) \subseteq dirs
      BY <3>1, <3>2, AboveFacts
    <3>4. UNCHANGED file
      BY <1>2 DEF MkdirAll
    <3> QED BY <2>2, <3>1, <3>3, <3>4 DEF Tree, Present, Entry, Above
  <2> QED BY <1>2, <2>1, <2>2 DEF MkdirAll
<1>3. ASSUME NEW u \in Uploads, Create(u) PROVE Tree'
  <2> DEFINE p == path[u]
  <2>1. p \in Paths /\ p \in Entry
    BY PathFacts DEF TypeOK
  <2>2. Len(p) = 1 \/ SubSeq(p, 1, Len(p) - 1) \in dirs
    BY <1>3 DEF Create, CanCreate
  <2>3. Above(p) \subseteq dirs
    BY <2>1, <2>2, AboveFacts
  <2>4. UNCHANGED dirs /\ \A r \in Paths \ {p} : file'[r] = file[r]
    BY <1>3 DEF Create, TypeOK
  <2> QED BY <2>1, <2>3, <2>4 DEF Tree, Present, Entry, Above
<1>4. ASSUME NEW q \in Entries, Unlink(q) PROVE Tree'
  <2>1. q \in Present /\ Leaf(q)
    BY <1>4 DEF Unlink, Below, Present
  <2>2. dirs' = dirs \ {q} /\ \A p \in Paths : file'[p] # NoUpload => file[p] # NoUpload
    BY <1>4 DEF Unlink
  <2>3. ASSUME NEW r \in Present' PROVE Above(r) \subseteq dirs'
    <3>1. r \in Present
      BY <2>2 DEF Present
    <3> QED BY <2>1, <2>2, <3>1, LeafFacts DEF Tree
  <2>4. \A r : Above(r)' = Above(r)
    BY DEF Above
  <2> QED BY <2>2, <2>3, <2>4 DEF Tree, Entry
<1> QED
  BY <1>1, <1>2, <1>3, <1>4
     DEF Next, Request, Sweep, Tick, Upload, MissingPath, MkdirFails, CreateFails, Copy,
         CopyFails, TimerFires, Cleanup, CleanupEnds, RemoveFails, RemoveAll, Crash, Signal,
         Close, Shutdown, Restart, vars

-----------------------------------------------------------------------------
(* The sweep.                                                              *)

\* PresentFacts: Exists looks for the entry in the tree.
LEMMA PresentFacts == ASSUME NEW q PROVE Exists(q) <=> q \in Present
BY DEF Exists, Present

\* BornFacts: the age of a top-level entry starts when it is created, and then its
\* directory has been modified as well (Touched, Born).
LEMMA BornFacts ==
  ASSUME TypeOK, BirthInv, NEW q \in Entry, q[1] \in Names
  PROVE  /\ \A t \in Names : Born(q)[t] >= Touched(q)[t]
         /\ \A t \in Names : birth[t] >= Touched(q)[t]
         /\ q \notin Present => \A t \in Names : <<t>> \in Present => Born(q)[t] = birth[t]
<1>1. mtime \in [Names -> Age] /\ birth \in [Names -> Age]
  BY DEF TypeOK
<1>2. \A t \in Names : mtime[t] \in Nat /\ birth[t] \in Nat /\ birth[t] >= mtime[t]
  BY <1>1, AgeFacts DEF BirthInv
<1>3. \A t \in Names : /\ Touched(q)[t] = IF t = q[1] /\ Len(q) <= 2 THEN 0 ELSE mtime[t]
                       /\ Born(q)[t] = IF t = q[1] /\ Len(q) = 1 THEN 0 ELSE birth[t]
  BY <1>1 DEF Touched, Born
<1>4. Len(q) = 1 => Len(q) <= 2
  OBVIOUS
<1>5. Len(q) = 1 => q = <<q[1]>>
  BY WholeFacts
<1>6. ASSUME NEW t \in Names PROVE Born(q)[t] >= Touched(q)[t] /\ birth[t] >= Touched(q)[t]
  <2>1. \A n \in Nat : n >= 0
    OBVIOUS
  <2> QED BY <1>2, <1>3, <1>4, <2>1
<1>7. ASSUME q \notin Present, NEW t \in Names, <<t>> \in Present PROVE Born(q)[t] = birth[t]
  BY <1>3, <1>5, <1>7
<1> QED BY <1>6, <1>7

\* SweepFrame: steps that leave the sweep alone, keep what is there and the age of
\* what is there.
LEMMA SweepFrame ==
  ASSUME TypeOK, Sweeping, UNCHANGED sweep, Present \subseteq Present',
         \A t \in Names : <<t>> \in Present => birth'[t] = birth[t]
  PROVE  Sweeping'
<1>1. directories \subseteq Names
  BY DEF TypeOK
<1> QED BY <1>1 DEF Sweeping

\* SweepStep: what cleanup has collected stays old and in its place until it is removed.
LEMMA SweepStep ==
  TypeOK /\ DepthInv /\ Tree /\ Sweeping /\ BirthInv /\ [Next]_vars => Sweeping' /\ BirthInv'
<1> SUFFICES ASSUME TypeOK, DepthInv, Tree, Sweeping, BirthInv, [Next]_vars
             PROVE  Sweeping' /\ BirthInv'
  OBVIOUS
<1>1. CASE Tick
  <2>1. UNCHANGED <<dirs, file, sweep>>
    BY <1>1 DEF Tick
  <2>2. \A t \in Names : mtime[t] \in Age /\ birth[t] \in Age
    BY DEF TypeOK
  <2>3. \A t \in Names : mtime'[t] = Older(mtime[t]) /\ birth'[t] = Older(birth[t])
    BY <1>1 DEF Tick
  <2>4. BirthInv'
    BY <2>2, <2>3, AgeFacts, Zenon DEF BirthInv
  <2>5. directories \subseteq Names
    BY DEF TypeOK
  <2>6. \A t \in directories : birth'[t] > Retention
    BY <2>2, <2>3, <2>5, AgeFacts, Zenon DEF Sweeping
  <2> QED BY <2>1, <2>4, <2>6 DEF Sweeping, Present
<1>2. CASE UNCHANGED <<fs, sweep>>
  BY <1>2 DEF Sweeping, BirthInv, Present
<1>3. ASSUME NEW u \in Uploads, MkdirAll(u) PROVE Sweeping' /\ BirthInv'
  <2> DEFINE q == SubSeq(path[u], 1, depth[u] + 1)
  <2>1. UNCHANGED <<file, sweep>>
    BY <1>3 DEF MkdirAll
  <2>2. CASE UNCHANGED <<dirs, mtime, birth>>
    BY <2>1, <2>2 DEF Sweeping, BirthInv, Present
  <2>3. CASE ~Exists(q) /\ dirs' = dirs \cup {q} /\ mtime' = Touched(q) /\ birth' = Born(q)
    <3>1. q \in Entry /\ q[1] \in Names
      BY <1>3, MkdirFacts, PathFacts DEF MkdirAll
    <3>2. q \notin Present
      BY <2>3, PresentFacts
    <3>3. BirthInv' /\ \A t \in Names : <<t>> \in Present => birth'[t] = birth[t]
      BY <2>3, <3>1, <3>2, BornFacts DEF BirthInv
    <3>4. Present \subseteq Present'
      BY <2>1, <2>3 DEF Present
    <3> QED BY <2>1, <3>3, <3>4, SweepFrame
  <2> QED BY <1>3, <2>2, <2>3 DEF MkdirAll
<1>4. ASSUME NEW u \in Uploads, Create(u) PROVE Sweeping' /\ BirthInv'
  <2> DEFINE p == path[u]
  <2>1. p \in Paths /\ p \in Entry /\ p[1] \in Names
    BY PathFacts DEF TypeOK
  <2>2. UNCHANGED <<dirs, sweep>> /\ p \notin dirs
    BY <1>4 DEF Create, CanCreate
  <2>3. Present \subseteq Present'
    <3>1. file'[p] # NoUpload /\ \A r \in Paths \ {p} : file'[r] = file[r]
      BY <1>4, <2>1, LogAreaAssumption DEF Create, TypeOK
    <3> QED BY <2>2, <3>1 DEF Present
  <2>4. CASE file[p] = NoUpload
    <3>1. mtime' = Touched(p) /\ birth' = Born(p)
      BY <1>4, <2>4 DEF Create
    <3>2. p \notin Present
      BY <2>2, <2>4 DEF Present
    <3>3. BirthInv' /\ \A t \in Names : <<t>> \in Present => birth'[t] = birth[t]
      BY <2>1, <3>1, <3>2, BornFacts DEF BirthInv
    <3> QED BY <2>2, <2>3, <3>3, SweepFrame
  <2>5. CASE file[p] # NoUpload
    <3>1. (mtime' = mtime \/ mtime' = Touched(p)) /\ birth' = birth
      BY <1>4, <2>5 DEF Create
    <3>2. BirthInv'
      BY <2>1, <3>1, BornFacts DEF BirthInv
    <3> QED BY <2>2, <2>3, <3>1, <3>2, SweepFrame
  <2> QED BY <2>4, <2>5
<1>5. ASSUME NEW u \in Uploads, Copy(u) PROVE Sweeping' /\ BirthInv'
  <2>1. UNCHANGED <<dirs, file, birth, sweep>>
    BY <1>5 DEF Copy
  <2>2. path[u] \in Entry /\ path[u][1] \in Names
    BY PathFacts DEF TypeOK
  <2>3. mtime' = mtime \/ mtime' = Touched(path[u])
    BY <1>5 DEF Copy
  <2>4. BirthInv'
    BY <2>1, <2>2, <2>3, BornFacts DEF BirthInv
  <2> QED BY <2>1, <2>4 DEF Sweeping, Present
<1>6. CASE TimerFires \/ Crash \/ Restart \/ Shutdown \/ RemoveFails \/ CleanupEnds
  <2>1. UNCHANGED fs
    BY <1>6 DEF TimerFires, Crash, Restart, Shutdown, RemoveFails, CleanupEnds
  <2>2. BirthInv' /\ Present' = Present
    BY <2>1 DEF BirthInv, Present
  <2>3. /\ directories' \subseteq directories
        /\ removing' # NoName => removing' \in directories' /\ run' # "select"
    BY <1>6 DEF Sweeping, TimerFires, Crash, Restart, Started, Shutdown, RemoveFails, CleanupEnds
  <2> QED BY <2>1, <2>2, <2>3 DEF Sweeping
<1>7. CASE Cleanup
  <2>1. UNCHANGED <<fs, removing>> /\ removing = NoName
    BY <1>7 DEF Cleanup, Sweeping
  <2>2. \A t \in directories' : t \in Names /\ <<t>> \in Present /\ mtime[t] > Retention
    BY <1>7, PresentFacts DEF Cleanup, TopLevel, TooOld
  <2>3. \A t \in Names : mtime[t] \in Nat /\ birth[t] \in Nat
    BY AgeFacts DEF TypeOK
  <2>4. \A t \in directories' : birth[t] > Retention
    <3>1. \A a, b, r \in Nat : a >= b /\ b > r => a > r
      OBVIOUS
    <3> QED BY <2>2, <2>3, <3>1, LogAreaAssumption, Zenon DEF BirthInv
  <2> QED BY <2>1, <2>2, <2>4 DEF Sweeping, BirthInv, Present
<1>8. ASSUME NEW t \in Names, RemoveAll(t) PROVE Sweeping' /\ BirthInv'
  BY <1>8 DEF RemoveAll, Sweeping, BirthInv, Present
<1>9. ASSUME NEW q \in Entries, Unlink(q) PROVE Sweeping' /\ BirthInv'
  <2>1. q \in Present /\ UNCHANGED <<birth, run>> /\ mtime' = Touched(q) /\ removing = q[1]
    BY <1>9 DEF Unlink, Below, Present
  <2>2. q \in Entry /\ q[1] \in Names
    BY <2>1, EntryFacts
  <2>3. BirthInv'
    BY <2>1, <2>2, BornFacts DEF BirthInv
  <2>4. Present \ {q} \subseteq Present'
    BY <1>9 DEF Unlink, Present
  <2>5. removing \in directories /\ run # "select"
    BY <2>1, <2>2, LogAreaAssumption DEF Sweeping
  <2>6. CASE Len(q) = 1
    <3>1. removing' = NoName /\ directories' = directories \ {q[1]}
      BY <1>9, <2>1, <2>6 DEF Unlink
    <3>2. \A t : <<t>> = q => t = q[1]
      OBVIOUS
    <3> QED BY <2>1, <2>3, <2>4, <3>1, <3>2 DEF Sweeping
  <2>7. CASE Len(q) # 1
    <3>1. UNCHANGED <<removing, directories>>
      BY <1>9, <2>7 DEF Unlink
    <3>2. \A t : <<t>> # q
      BY <2>7
    <3> QED BY <2>1, <2>3, <2>4, <2>5, <3>1, <3>2 DEF Sweeping
  <2> QED BY <2>6, <2>7
<1> QED
  BY <1>1, <1>2, <1>3, <1>4, <1>5, <1>6, <1>7, <1>8, <1>9
     DEF Next, Request, Sweep, Upload, MissingPath, MkdirFails, CreateFails, CopyFails,
         Signal, Close, vars

-----------------------------------------------------------------------------
(* The files.                                                              *)

\* FileFacts: the type of an inode, and a file is in the tree.
LEMMA FileFacts ==
  ASSUME TypeOK, InodeInv
  PROVE  /\ \A p \in Paths : file[p] # NoUpload =>
                file[p] \in Uploads /\ path[file[p]] = p /\ p \in Present
         /\ \A u \in Uploads : handle[u] # NoUpload =>
                handle[u] \in Uploads /\ path[handle[u]] = path[u]
         /\ \A u \in Uploads : Safe(u) => handle[u] \in Uploads
BY DEF TypeOK, InodeInv, Present, Safe

\* RequestFrame: a request that does not touch the file system gets on or fails.
LEMMA RequestFrame ==
  ASSUME TypeOK, InodeInv, AloneInv, KeptInv,
         UNCHANGED <<dirs, file, content, birth, path, handle, topAge, overlapped, stored>>,
         \A u \in Uploads :
           \/ up'[u] = up[u]
           \/ /\ up[u] # "ok" /\ up'[u] # "copy"
              /\ Created(u) => Created(u)'
  PROVE  InodeInv' /\ AloneInv' /\ KeptInv'
<1>1. \A u \in Uploads : /\ Created(u) => Created(u)'
                         /\ up'[u] = "copy" => up[u] = "copy"
                         /\ up[u] = "ok" => up'[u] = "ok"
  BY DEF Created
<1>2. InodeInv'
  <2>1. /\ \A p \in Paths : file[p] # NoUpload => file[p] \in Uploads
        /\ \A u \in Uploads : handle[u] # NoUpload => handle[u] \in Uploads
        /\ stored \subseteq Uploads
    BY DEF TypeOK
  <2> QED BY <1>1, <2>1 DEF InodeInv, Created
<1>3. AloneInv'
  BY <1>1 DEF AloneInv
<1>4. \A u \in Uploads : Safe(u)' => Safe(u)
  BY <1>1 DEF Safe
<1>5. KeptInv'
  BY <1>4 DEF KeptInv
<1> QED BY <1>2, <1>3, <1>5

\* MkdirStep: a new directory takes the place of no file (MkdirAll).
LEMMA MkdirStep ==
  ASSUME TypeOK, DepthInv, Tree, BirthInv, InodeInv, AloneInv, KeptInv,
         NEW u \in Uploads, MkdirAll(u)
  PROVE  InodeInv' /\ AloneInv' /\ KeptInv'
<1> DEFINE q == SubSeq(path[u], 1, depth[u] + 1)
<1>1. UNCHANGED <<file, content, path, handle, topAge, overlapped, stored>>
  BY DEF MkdirAll
<1>2. up[u] = "mkdir" /\ up'[u] \in {"mkdir", "create"} /\ \A v \in Uploads \ {u} : up'[v] = up[v]
  <2>1. up[u] = "mkdir" /\ (up' = up \/ up' = [up EXCEPT ![u] = "create"])
    BY DEF MkdirAll, Answer
  <2> QED BY <2>1 DEF TypeOK
<1>3. \A v \in Uploads : /\ Created(v) => Created(v)'
                         /\ up'[v] = "copy" <=> up[v] = "copy"
                         /\ up'[v] = "ok" <=> up[v] = "ok"
  BY <1>2 DEF Created
<1>4. InodeInv'
  <2>1. /\ \A p \in Paths : file[p] # NoUpload => file[p] \in Uploads
        /\ \A v \in Uploads : handle[v] # NoUpload => handle[v] \in Uploads
        /\ stored \subseteq Uploads
    BY DEF TypeOK
  <2> QED BY <1>1, <1>3, <2>1 DEF InodeInv, Created
<1>5. AloneInv'
  BY <1>1, <1>3 DEF AloneInv
<1>6. \A v \in Uploads : Safe(v)' => Safe(v)
  BY <1>1, <1>3 DEF Safe
<1>7. ASSUME NEW v \in Uploads, file[path[v]] # NoUpload, path[v] \notin dirs
      PROVE  path[v] \notin dirs' /\ birth'[path[v][1]] = birth[path[v][1]]
  <2>1. path[v] \in Paths /\ path[v] \in Present
    BY <1>7 DEF TypeOK, Present
  <2>2. path[v][1] \in Names /\ <<path[v][1]>> \in Present
    BY <2>1, EntryFacts
  <2>3. CASE UNCHANGED <<dirs, birth>>
    BY <1>7, <2>3
  <2>4. CASE ~Exists(q) /\ dirs' = dirs \cup {q} /\ birth' = Born(q)
    <3>1. q \in Entry /\ q[1] \in Names
      BY <1>2, MkdirFacts, PathFacts
    <3>2. q \notin Present
      BY <2>4, PresentFacts
    <3>3. birth'[path[v][1]] = birth[path[v][1]]
      BY <2>2, <2>4, <3>1, <3>2, BornFacts
    <3> QED BY <1>7, <2>1, <2>4, <3>2, <3>3
  <2> QED BY <2>3, <2>4 DEF MkdirAll
<1>8. KeptInv'
  <2> SUFFICES ASSUME NEW v \in Uploads, Safe(v)'
               PROVE  /\ content'[handle'[v]] = IF v \in stored' THEN {v} ELSE {}
                      /\ \/ topAge'[v] > Retention
                         \/ /\ file'[path'[v]] = handle'[v] /\ path'[v] \notin dirs'
                            /\ topAge'[v] = birth'[path'[v][1]]
    BY DEF KeptInv, Safe
  <2>1. Safe(v) /\ handle[v] # NoUpload
    BY <1>6 DEF InodeInv, Safe
  <2> QED BY <1>1, <1>7, <2>1 DEF KeptInv
<1> QED BY <1>4, <1>5, <1>8

\* CreateStep: a file that is created or emptied belongs from then on to its new
\* writer, unless another one still has it open (Create).
LEMMA CreateStep ==
  ASSUME TypeOK, Tree, BirthInv, InodeInv, AloneInv, KeptInv, NEW u \in Uploads, Create(u)
  PROVE  InodeInv' /\ AloneInv' /\ KeptInv'
<1> DEFINE p == path[u]
           i == IF file[p] = NoUpload THEN u ELSE file[p]
           others == {v \in Uploads \ {u} : path[v] = p /\ up[v] = "copy"}
<1>1. UNCHANGED <<dirs, path>> /\ up[u] = "create" /\ p \notin dirs
  BY DEF Create, CanCreate
<1>2. p \in Paths /\ i \in Uploads /\ path[i] = p
  <2>1. p \in Paths
    BY DEF TypeOK
  <2> QED BY <2>1, FileFacts
<1>3. u \notin stored /\ stored \subseteq Uploads
  BY <1>1 DEF InodeInv, TypeOK
<1>4. /\ file'[p] = i /\ \A r \in Paths \ {p} : file'[r] = file[r]
      /\ handle'[u] = i /\ \A v \in Uploads \ {u} : handle'[v] = handle[v]
      /\ content'[i] = {} /\ \A v \in Uploads \ {i} : content'[v] = content[v]
  <2>1. /\ file' = [file EXCEPT ![p] = i] /\ handle' = [handle EXCEPT ![u] = i]
        /\ content' = [content EXCEPT ![i] = {}]
    BY DEF Create
  <2> HIDE DEF i
  <2> QED BY <1>2, <2>1 DEF TypeOK
<1>5. /\ up'[u] = "copy" /\ \A v \in Uploads \ {u} : up'[v] = up[v]
      /\ topAge'[u] = birth'[p[1]] /\ \A v \in Uploads \ {u} : topAge'[v] = topAge[v]
  BY DEF Create, Answer, TypeOK
<1>6. /\ overlapped \subseteq overlapped' /\ others \subseteq overlapped'
      /\ others # {} => u \in overlapped'
      /\ \A v : v \in stored' <=> v \in stored /\ path[v] # p
  BY DEF Create
<1> HIDE DEF i, others
<1>7. ~Created(u) /\ \A v \in Uploads : Created(v) => v # u /\ Created(v)'
  BY <1>1, <1>5 DEF Created
<1>8. Created(u)'
  BY <1>5 DEF Created
<1>9. up'[i] \notin {"idle", "mkdir", "create"} /\ i # NoUpload
  <2>1. CASE i = u
    BY <1>8, <2>1, LogAreaAssumption DEF Created
  <2>2. CASE i # u
    <3>1. i = file[p] /\ file[p] # NoUpload
      BY <2>2 DEF i
    <3> QED BY <1>2, <1>7, <3>1 DEF InodeInv, Created
  <2> QED BY <2>1, <2>2
<1>10. InodeInv'
  <2>1. ASSUME NEW r \in Paths, file'[r] # NoUpload
        PROVE  path'[file'[r]] = r /\ up'[file'[r]] \notin {"idle", "mkdir", "create"}
    <3>1. CASE r = p
      BY <1>1, <1>2, <1>4, <1>9, <3>1
    <3>2. CASE r # p
      <4>1. file'[r] = file[r] /\ file[r] \in Uploads
        BY <1>4, <2>1, <3>2 DEF TypeOK
      <4>2. path[file[r]] = r /\ Created(file[r])
        BY <2>1, <4>1 DEF InodeInv
      <4>3. up'[file[r]] \notin {"idle", "mkdir", "create"}
        BY <1>7, <4>1, <4>2 DEF Created
      <4> QED BY <1>1, <4>1, <4>2, <4>3
    <3> QED BY <3>1, <3>2
  <2>2. ASSUME NEW v \in Uploads, handle'[v] # NoUpload
        PROVE  path'[handle'[v]] = path'[v] /\ up'[handle'[v]] \notin {"idle", "mkdir", "create"}
    <3>1. CASE v = u
      BY <1>1, <1>2, <1>4, <1>9, <3>1
    <3>2. CASE v # u
      <4>1. handle'[v] = handle[v] /\ handle[v] \in Uploads
        BY <1>4, <2>2, <3>2 DEF TypeOK
      <4>2. path[handle[v]] = path[v] /\ Created(handle[v])
        BY <2>2, <4>1 DEF InodeInv
      <4>3. up'[handle[v]] \notin {"idle", "mkdir", "create"}
        BY <1>7, <4>1, <4>2 DEF Created
      <4> QED BY <1>1, <4>1, <4>2, <4>3
    <3> QED BY <3>1, <3>2
  <2>3. /\ \A v \in Uploads : (up'[v] = "copy" \/ v \in stored') => handle'[v] # NoUpload
        /\ \A v \in stored' : up'[v] = "ok"
    BY <1>3, <1>4, <1>5, <1>6, <1>9 DEF InodeInv
  <2> QED BY <2>1, <2>2, <2>3 DEF InodeInv, Created
<1>11. AloneInv'
  <2> SUFFICES ASSUME NEW x \in Uploads, NEW y \in Uploads,
                      x # y, path[x] = path[y], up'[y] = "copy"
               PROVE  (up'[x] = "copy" => x \in overlapped') /\ x \notin stored'
    BY <1>1 DEF AloneInv
  <2>1. CASE y = u
    BY <1>5, <1>6, <2>1 DEF others
  <2>2. CASE x = u
    BY <1>5, <1>6, <2>2 DEF others
  <2>3. CASE x # u /\ y # u
    BY <1>5, <1>6, <2>3 DEF AloneInv
  <2> QED BY <2>1, <2>2, <2>3
<1>12. ASSUME NEW v \in Uploads, file[path[v]] # NoUpload
       PROVE  birth'[path[v][1]] = birth[path[v][1]]
  <2>1. path[v] \in Present
    BY <1>12 DEF TypeOK, Present
  <2>2. path[v][1] \in Names /\ <<path[v][1]>> \in Present
    BY <2>1, EntryFacts
  <2>3. CASE file[p] = NoUpload
    <3>1. birth' = Born(p) /\ p \notin Present
      BY <1>1, <2>3 DEF Create, Present
    <3> QED BY <1>2, <2>2, <3>1, BornFacts, PathFacts
  <2>4. CASE file[p] # NoUpload
    BY <2>4 DEF Create
  <2> QED BY <2>3, <2>4
<1>13. KeptInv'
  <2> SUFFICES ASSUME NEW v \in Uploads, Safe(v)'
               PROVE  /\ content'[handle'[v]] = IF v \in stored' THEN {v} ELSE {}
                      /\ \/ topAge'[v] > Retention
                         \/ /\ file'[path'[v]] = handle'[v] /\ path'[v] \notin dirs'
                            /\ topAge'[v] = birth'[path'[v][1]]
    BY DEF KeptInv, Safe
  <2>1. CASE v = u
    BY <1>1, <1>3, <1>4, <1>5, <1>6, <2>1
  <2>2. CASE v # u
    <3>1. /\ Safe(v) /\ path[v] # p /\ (v \in stored' <=> v \in stored)
      BY <1>5, <1>6, <2>2 DEF Safe, others
    <3>2. handle[v] \in Uploads /\ handle[v] # NoUpload /\ path[handle[v]] = path[v]
      BY <3>1, FileFacts, LogAreaAssumption
    <3>3. handle[v] # i
      BY <1>2, <3>1, <3>2
    <3>4. path[v] \in Paths
      BY DEF TypeOK
    <3>5. /\ content'[handle'[v]] = content[handle[v]] /\ handle'[v] = handle[v]
          /\ file'[path[v]] = file[path[v]] /\ topAge'[v] = topAge[v]
      BY <1>4, <1>5, <2>2, <3>1, <3>2, <3>3, <3>4
    <3> QED BY <1>1, <1>12, <3>1, <3>2, <3>5 DEF KeptInv
  <2> QED BY <2>1, <2>2
<1> QED BY <1>10, <1>11, <1>13

\* CopyStep: a writer that is alone on its file finds it empty and leaves it whole,
\* and writes to no other (Copy).
LEMMA CopyStep ==
  ASSUME TypeOK, InodeInv, AloneInv, KeptInv, NEW u \in Uploads, Copy(u)
  PROVE  InodeInv' /\ AloneInv' /\ KeptInv'
<1> DEFINE h == handle[u]
<1>1. UNCHANGED <<dirs, file, birth, path, handle, topAge, overlapped>> /\ up[u] = "copy"
  BY DEF Copy
<1>2. /\ h \in Uploads /\ h # NoUpload /\ path[h] = path[u]
      /\ u \notin stored /\ stored \subseteq Uploads
  <2>1. h # NoUpload /\ u \notin stored
    BY <1>1 DEF InodeInv
  <2> QED BY <2>1, FileFacts DEF TypeOK
<1>3. /\ content'[h] = content[h] \cup {u}
      /\ \A v \in Uploads \ {h} : content'[v] = content[v]
      /\ up'[u] = "ok" /\ \A v \in Uploads \ {u} : up'[v] = up[v]
  BY <1>2 DEF Copy, Answer, TypeOK
<1>4. \A v : v \in stored' <=> (v \in stored \/ (v = u /\ u \notin overlapped))
  BY DEF Copy
<1>5. \A v \in Uploads : Created(v) => Created(v)'
  BY <1>3 DEF Created
<1>6. InodeInv'
  <2>1. /\ \A p \in Paths : file[p] # NoUpload => file[p] \in Uploads
        /\ \A v \in Uploads : handle[v] # NoUpload => handle[v] \in Uploads
    BY DEF TypeOK
  <2>2. /\ \A v \in Uploads : (up'[v] = "copy" \/ v \in stored') => handle'[v] # NoUpload
        /\ \A v \in stored' : up'[v] = "ok"
    BY <1>1, <1>2, <1>3, <1>4 DEF InodeInv
  <2> QED BY <1>1, <1>5, <2>1, <2>2 DEF InodeInv, Created
<1>7. AloneInv'
  BY <1>1, <1>3, <1>4 DEF AloneInv
<1>8. KeptInv'
  <2> SUFFICES ASSUME NEW v \in Uploads, Safe(v)'
               PROVE  /\ content'[handle[v]] = IF v \in stored' THEN {v} ELSE {}
                      /\ \/ topAge[v] > Retention
                         \/ /\ file[path[v]] = handle[v] /\ path[v] \notin dirs
                            /\ topAge[v] = birth[path[v][1]]
    BY <1>1 DEF KeptInv, Safe
  <2>1. CASE v = u
    <3>1. Safe(u) /\ u \in stored'
      BY <1>1, <1>2, <1>3, <1>4, <2>1 DEF Safe
    <3>2. content[h] = {}
      BY <1>2, <3>1 DEF KeptInv
    <3> QED BY <1>3, <2>1, <3>1, <3>2 DEF KeptInv
  <2>2. CASE v # u
    <3>1. Safe(v) /\ (v \in stored' <=> v \in stored)
      BY <1>1, <1>3, <1>4, <2>2 DEF Safe
    <3>2. handle[v] \in Uploads /\ path[handle[v]] = path[v]
      BY <3>1, FileFacts, LogAreaAssumption
    <3>3. path[v] # path[u]
      BY <1>1, <2>2, <3>1 DEF AloneInv, Safe
    <3>4. content'[handle[v]] = content[handle[v]]
      BY <1>2, <1>3, <3>2, <3>3
    <3> QED BY <3>1, <3>4 DEF KeptInv
  <2> QED BY <2>1, <2>2
<1> QED BY <1>6, <1>7, <1>8

\* TickStep: a file and its top-level entry age together (Tick).
LEMMA TickStep ==
  ASSUME TypeOK, InodeInv, AloneInv, KeptInv, Tick
  PROVE  InodeInv' /\ AloneInv' /\ KeptInv'
<1>1. UNCHANGED <<dirs, file, content, up, path, handle, overlapped, stored>>
  BY DEF Tick
<1>2. InodeInv' /\ AloneInv'
  BY <1>1 DEF InodeInv, AloneInv, Created
<1>3. \A u \in Uploads : path[u][1] \in Names /\ topAge[u] \in Age
  BY PathFacts DEF TypeOK
<1>4. \A u \in Uploads : /\ topAge'[u] = Older(topAge[u])
                         /\ birth'[path[u][1]] = Older(birth[path[u][1]])
  BY <1>3 DEF Tick
<1>5. \A u \in Uploads : topAge[u] > Retention => topAge'[u] > Retention
  BY <1>3, <1>4, AgeFacts, Zenon
<1>6. KeptInv'
  BY <1>1, <1>4, <1>5 DEF KeptInv, Safe
<1> QED BY <1>2, <1>6

\* UnlinkStep: a file goes only when its top-level entry is too old (Unlink).
LEMMA UnlinkStep ==
  ASSUME TypeOK, Tree, Sweeping, InodeInv, AloneInv, KeptInv, NEW q \in Entries, Unlink(q)
  PROVE  InodeInv' /\ AloneInv' /\ KeptInv'
<1>1. UNCHANGED <<content, birth, request>> /\ dirs' \subseteq dirs
  BY DEF Unlink
<1>2. \A p \in Paths : file'[p] = IF p = q THEN NoUpload ELSE file[p]
  BY DEF Unlink
<1>3. birth[q[1]] > Retention
  <2>1. removing = q[1] /\ q \in Present
    BY DEF Unlink, Below, Present
  <2>2. removing # NoName
    BY <2>1, EntryFacts, LogAreaAssumption
  <2> QED BY <2>1, <2>2 DEF Sweeping
<1>4. InodeInv' /\ AloneInv'
  BY <1>1, <1>2 DEF InodeInv, AloneInv, Created
<1>5. ASSUME NEW u \in Uploads, Safe(u)
      PROVE  /\ content[handle[u]] = IF u \in stored THEN {u} ELSE {}
             /\ \/ topAge[u] > Retention
                \/ /\ file'[path[u]] = handle[u] /\ path[u] \notin dirs'
                   /\ topAge[u] = birth[path[u][1]]
  <2>1. path[u] \in Paths
    BY DEF TypeOK
  <2>2. CASE path[u] = q
    BY <1>3, <1>5, <2>2 DEF KeptInv
  <2>3. CASE path[u] # q
    BY <1>1, <1>2, <1>5, <2>1, <2>3 DEF KeptInv
  <2> QED BY <2>2, <2>3
<1>6. KeptInv'
  BY <1>1, <1>5 DEF KeptInv, Safe
<1> QED BY <1>4, <1>6

\* FileStep: every step keeps what the files say of the uploads.
LEMMA FileStep ==
  TypeOK /\ AreaInv /\ [Next]_vars => InodeInv' /\ AloneInv' /\ KeptInv'
<1> SUFFICES ASSUME TypeOK, AreaInv, [Next]_vars PROVE InodeInv' /\ AloneInv' /\ KeptInv'
  OBVIOUS
<1> USE DEF AreaInv
<1>1. CASE Tick
  BY <1>1, TickStep
<1>2. ASSUME NEW u \in Uploads,
             Upload(u) \/ MissingPath(u) \/ MkdirFails(u) \/ CreateFails(u) \/ CopyFails(u)
      PROVE  InodeInv' /\ AloneInv' /\ KeptInv'
  <2>1. UNCHANGED <<dirs, file, content, birth, path, handle, topAge, overlapped, stored>>
    BY <1>2 DEF Upload, MissingPath, MkdirFails, CreateFails, CopyFails
  <2>2. /\ up[u] # "ok" /\ up'[u] # "copy" /\ (Created(u) => Created(u)')
        /\ \A v \in Uploads \ {u} : up'[v] = up[v]
    BY <1>2 DEF TypeOK, Upload, MissingPath, MkdirFails, CreateFails, CopyFails, Answer, Created
  <2> QED BY <2>1, <2>2, RequestFrame
<1>3. ASSUME NEW u \in Uploads, MkdirAll(u) PROVE InodeInv' /\ AloneInv' /\ KeptInv'
  BY <1>3, MkdirStep
<1>4. ASSUME NEW u \in Uploads, Create(u) PROVE InodeInv' /\ AloneInv' /\ KeptInv'
  BY <1>4, CreateStep
<1>5. ASSUME NEW u \in Uploads, Copy(u) PROVE InodeInv' /\ AloneInv' /\ KeptInv'
  BY <1>5, CopyStep
<1>6. CASE Crash \/ Shutdown
  <2>1. UNCHANGED <<dirs, file, content, birth, path, handle, topAge, overlapped, stored>>
    BY <1>6 DEF Crash, Shutdown
  <2>2. \A u \in Uploads : up'[u] = IF u \in Writing THEN "error" ELSE up[u]
    BY <1>6 DEF Crash, Shutdown
  <2>3. \A u \in Uploads : \/ up'[u] = up[u]
                           \/ /\ up[u] # "ok" /\ up'[u] # "copy"
                              /\ Created(u) => Created(u)'
    BY <2>2 DEF Writing, Created
  <2> QED BY <2>1, <2>3, RequestFrame
<1>7. CASE UNCHANGED <<fs, request>>
  BY <1>7, RequestFrame
<1>8. ASSUME NEW q \in Entries, Unlink(q) PROVE InodeInv' /\ AloneInv' /\ KeptInv'
  BY <1>8, UnlinkStep
<1> QED
  BY <1>1, <1>2, <1>3, <1>4, <1>5, <1>6, <1>7, <1>8
     DEF Next, Request, Sweep, TimerFires, Cleanup, CleanupEnds, RemoveFails, RemoveAll,
         Signal, Close, Restart, vars

\* AreaStep: the invariant is inductive.
LEMMA AreaStep == TypeOK /\ AreaInv /\ [Next]_vars => TypeOK' /\ AreaInv'
<1> SUFFICES ASSUME TypeOK, AreaInv, [Next]_vars PROVE TypeOK' /\ AreaInv'
  OBVIOUS
<1>1. TypeOK' /\ DepthInv'
  BY TypeStep DEF AreaInv
<1>2. Tree' /\ Sweeping' /\ BirthInv'
  BY TreeStep, SweepStep DEF AreaInv
<1> QED BY <1>1, <1>2, FileStep DEF AreaInv

\* AreaInit: the invariant holds before the first upload.
LEMMA AreaInit == Init => TypeOK /\ AreaInv
<1> SUFFICES ASSUME Init PROVE TypeOK /\ AreaInv
  OBVIOUS
<1>1. TypeOK /\ DepthInv
  BY TypeInit
<1>2. Tree /\ Sweeping /\ BirthInv
  BY DEF Init, Tree, Present, Sweeping, BirthInv
<1>3. InodeInv /\ AloneInv /\ KeptInv
  BY DEF Init, InodeInv, AloneInv, KeptInv, Safe
<1> QED BY <1>1, <1>2, <1>3 DEF AreaInv

\* AreaRetained: what Download serves of a file that is in its place.
LEMMA AreaRetained == TypeOK /\ AreaInv => Retained
<1> SUFFICES ASSUME TypeOK, AreaInv, NEW u \in stored, ~(topAge[u] > Retention)
             PROVE  Download(path[u]) = [status |-> 200, body |-> {u}]
  BY DEF Retained
<1>1. u \in Uploads /\ path[u] \in Paths
  BY DEF TypeOK
<1>2. handle[u] # NoUpload
  BY <1>1 DEF AreaInv, InodeInv
<1>3. content[handle[u]] = {u} /\ file[path[u]] = handle[u] /\ path[u] \notin dirs
  BY <1>1 DEF AreaInv, KeptInv, Safe
<1>4. path[u] # <<>> /\ Exists(path[u])
  BY <1>1, <1>2, <1>3, LogAreaAssumption DEF Exists
<1>5. Status(path[u]) = 200
  BY <1>4 DEF Status
<1> QED BY <1>3, <1>5 DEF Download

\* StoredStays: what Upload has answered 200 and no other upload has interfered with
\* is served whole by Download until the top-level entry above it has existed for
\* longer than the retention time: over sweeps that run while clients upload, over
\* failures of either, crashes and restarts.
THEOREM StoredStays == Spec => []Retained
<1>1. Spec => [](TypeOK /\ AreaInv)
  BY AreaInit, AreaStep, PTL DEF Spec
<1> QED BY <1>1, AreaRetained, PTL
=============================================================================
