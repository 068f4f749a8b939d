--------------------------- MODULE TestRunProofs ----------------------------
(***************************************************************************)
(* Proofs about the Python API, for any number of concurrent requests, of  *)
(* retries and of failures: a test run is started only when everything it  *)
(* needs is there, a rejected request has started nothing, and an image    *)
(* that exists is found.                                                   *)
(***************************************************************************)
EXTENDS TestRun, SequenceTheorems, WellFoundedInduction, TLAPS

-----------------------------------------------------------------------------
(* The inductive invariants.                                               *)

\* digest and _retry: an attempt for each transient error, and a token that has just
\* been granted is accepted unless the registry has revoked it.
CallType ==
  /\ published \in BOOLEAN /\ private \in BOOLEAN
  /\ call \in [Requests -> {"idle", "attempt", "head", "retryHead", "authorize",
                            "headAgain", "done", "raised"}]
  /\ tok \in [Requests -> Token]
  /\ attempt \in [Requests -> 1..MaxRetries]
  /\ found \in [Requests -> BOOLEAN]
  /\ errors \in [Requests -> 0..MaxRetries]
  /\ broken \in [Requests -> BOOLEAN]
CallInv(c) ==
  /\ call[c] \notin {"done", "raised"} => errors[c] = attempt[c] - 1
  /\ call[c] = "headAgain" => tok[c] = "accepted" \/ broken[c]
  /\ found[c] => published

\* Where digest looks for the image.
ImageInv == image \in Images /\ manifest_url = Manifest(Name(image))

\* What is not found was not there, or not to be had.
FoundInv(c) ==
  call[c] = "done" /\ published /\ ~found[c] => broken[c] \/ errors[c] = MaxRetries

RunType ==
  /\ api \in Apis /\ artifact \in BOOLEAN
  /\ st \in [Requests -> State]
  /\ answer \in [Requests -> {0, 200, 400, 500, 504}]
  /\ saved \in [Requests -> SUBSET Saved]
  /\ started \in [Requests -> BOOLEAN]
  /\ job \in [Requests -> {"none", "running", "gone"}]
  /\ abort \in [Requests -> {"none", "listed", "200", "404", "500"}]

\* The images that the suite of a request names have been found.
Checked(c) == published \/ c \in bare

\* How far a request has come says what is there: the image, the artifact, and in v0
\* what has been saved for it.
Configuring == Saved \cup {"publish", "sent"}
ProgressInv(c) ==
  /\ st[c] \in {"artifact", "asleep"} => Checked(c)
  /\ st[c] \in Configuring \cup {"create"} => Checked(c) /\ artifact
  /\ st[c] \in Configuring => api = "v0"
  /\ st[c] = "create" => api # "v0"
  /\ st[c] \in {"execution-space", "iut", "dataset"} => "log-area" \in saved[c]
  /\ st[c] \in {"iut", "dataset"} => "execution-space" \in saved[c]
  /\ st[c] = "dataset" => "iut" \in saved[c]
  /\ st[c] \in {"publish", "sent"} => saved[c] = Saved
  /\ started[c] => Checked(c) /\ artifact /\ (api = "v0" => saved[c] = Saved)

\* Nothing is started before the end of a request but by the TERCC, and a request is
\* aborted by a client that has been answered 200.
AnswerInv(c) ==
  /\ st[c] \notin {"sent", "end"} => ~started[c] /\ job[c] = "none"
  /\ st[c] # "end" => answer[c] = 0
  /\ abort[c] # "none" => answer[c] = 200
  /\ answer[c] \in {400, 504} => ~started[c] /\ job[c] = "none"

RunInv ==
  /\ CallType /\ RunType
  /\ \A c \in Requests : CallInv(c) /\ ProgressInv(c) /\ AnswerInv(c)

-----------------------------------------------------------------------------
(* The names of images.                                                    *)

\* Least: numbers have a least one among them (str.split cuts at the first delimiter).
LEMMA Least ==
  ASSUME NEW S \in SUBSET Nat, S # {}
  PROVE  \E x \in S : \A y \in S : x <= y
<1>1. PICK x \in S : \A y \in S : ~(<<y, x>> \in OpToRel(<, Nat))
  BY NatLessThanWellFounded, WFMin, Zenon
<1>2. \A y \in S : ~(y < x)
  BY <1>1 DEF OpToRel
<1> QED BY <1>2

\* Greatest: and those below a bound a greatest one.
LEMMA Greatest ==
  ASSUME NEW n \in Nat, NEW S \in SUBSET (1..n), S # {}
  PROVE  \E x \in S : \A y \in S : x >= y
<1> DEFINE T == {n - x : x \in S}
<1>0. \A x \in S : x \in 1..n
  OBVIOUS
<1>1. T \in SUBSET Nat /\ T # {}
  <2>1. \A x \in S : n - x \in Nat
    BY <1>0
  <2>2. \A k \in T : k \in Nat
    BY <2>1
  <2>3. PICK x \in S : TRUE
    OBVIOUS
  <2>4. n - x \in T
    OBVIOUS
  <2> QED BY <2>2, <2>4
<1>2. PICK m \in T : \A k \in T : m <= k
  BY <1>1, Least
<1>3. PICK x \in S : m = n - x
  OBVIOUS
<1>4. ASSUME NEW y \in S PROVE x >= y
  <2>1. n - y \in T
    OBVIOUS
  <2>2. n - x <= n - y
    BY <1>2, <1>3, <2>1
  <2> QED BY <2>2
<1> QED BY <1>4

\* FirstFacts: where split(delimiter, 1) cuts.
LEMMA FirstFacts ==
  ASSUME NEW E, NEW name \in Seq(E), NEW tk
  PROVE  /\ FirstAt(tk, name) \in 0..Len(name)
         /\ FirstAt(tk, name) = 0 <=> ~Contains(name, tk)
         /\ FirstAt(tk, name) # 0 => name[FirstAt(tk, name)] = tk
         /\ \A i \in 1..(FirstAt(tk, name) - 1) : name[i] # tk
<1> DEFINE I == {i \in 1..Len(name) : name[i] = tk}
<1>0. Len(name) \in Nat /\ I \in SUBSET Nat
  OBVIOUS
<1>1. FirstAt(tk, name) = IF I # {} THEN CHOOSE x \in I : \A y \in I : x <= y ELSE 0
  BY DEF FirstAt, SelectInSeq, Min
<1>2. CASE I = {}
  BY <1>0, <1>1, <1>2 DEF Contains
<1>3. CASE I # {}
  <2>1. \E x \in I : \A y \in I : x <= y
    BY <1>0, <1>3, Least
  <2>2. FirstAt(tk, name) \in I /\ \A y \in I : FirstAt(tk, name) <= y
    BY <1>1, <1>3, <2>1
  <2> QED BY <1>0, <2>2 DEF Contains
<1> QED BY <1>2, <1>3

\* LastFacts: where the last part of split(":") begins.
LEMMA LastFacts ==
  ASSUME NEW E, NEW name \in Seq(E), NEW tk
  PROVE  /\ LastAt(tk, name) \in 0..Len(name)
         /\ LastAt(tk, name) = 0 <=> ~Contains(name, tk)
         /\ LastAt(tk, name) # 0 => name[LastAt(tk, name)] = tk
         /\ \A i \in (LastAt(tk, name) + 1)..Len(name) : name[i] # tk
<1> DEFINE I == {i \in 1..Len(name) : name[i] = tk}
<1>0. Len(name) \in Nat /\ I \in SUBSET (1..Len(name))
  OBVIOUS
<1>1. LastAt(tk, name) = IF I # {} THEN CHOOSE x \in I : \A y \in I : x >= y ELSE 0
  BY DEF LastAt, SelectLastInSeq, Max
<1>2. CASE I = {}
  BY <1>0, <1>1, <1>2 DEF Contains
<1>3. CASE I # {}
  <2>1. \E x \in I : \A y \in I : x >= y
    BY <1>0, <1>3, Greatest
  <2>2. LastAt(tk, name) \in I /\ \A y \in I : LastAt(tk, name) >= y
    BY <1>1, <1>3, <2>1
  <2> QED BY <1>0, <2>2 DEF Contains
<1> QED BY <1>2, <1>3

\* Two parts of a name, with a delimiter between them.
Glued(name, s, d, t) == name = s \o (<<d>> \o t)

\* Split: they are got back by a cut at the delimiter, the first in the name if the left
\* part has none, the last if the right part has none.
LEMMA Split ==
  ASSUME NEW E, NEW s \in Seq(E), NEW d \in E, NEW t \in Seq(E), NEW name,
         Glued(name, s, d, t)
  PROVE  /\ name \in Seq(E) /\ Len(name) = Len(s) + 1 + Len(t) /\ Len(s) \in Nat /\ Len(t) \in Nat
         /\ name[Len(s) + 1] = d /\ \A i \in 1..Len(t) : name[Len(s) + 1 + i] = t[i]
         /\ Before(name, Len(s) + 1) = s /\ After(name, Len(s) + 1) = t
         /\ ~Contains(s, d) => FirstAt(d, name) = Len(s) + 1
         /\ ~Contains(t, d) => LastAt(d, name) = Len(s) + 1
<1>1. <<d>> \in Seq(E)
  OBVIOUS
<1>2. Len(<<d>>) = 1 /\ <<d>>[1] = d
  OBVIOUS
<1>3. Len(s) \in Nat /\ Len(t) \in Nat
  OBVIOUS
<1> DEFINE u == <<d>> \o t
<1>4. /\ u \in Seq(E) /\ Len(u) = Len(<<d>>) + Len(t)
      /\ \A i \in 1..(Len(<<d>>) + Len(t)) :
           u[i] = IF i <= Len(<<d>>) THEN <<d>>[i] ELSE t[i - Len(<<d>>)]
  BY <1>1, ConcatProperties, Zenon
<1> HIDE DEF u
<1>5. /\ Len(u) = 1 + Len(t) /\ u[1] = d
      /\ \A i \in 1..Len(t) : u[1 + i] = t[i]
  BY <1>2, <1>3, <1>4
<1>6. name = s \o u
  BY DEF u, Glued
<1>7. /\ name \in Seq(E) /\ Len(name) = Len(s) + Len(u)
      /\ \A i \in 1..(Len(s) + Len(u)) : name[i] = IF i <= Len(s) THEN s[i] ELSE u[i - Len(s)]
  <2>1. /\ s \o u \in Seq(E) /\ Len(s \o u) = Len(s) + Len(u)
        /\ \A i \in 1..(Len(s) + Len(u)) : (s \o u)[i] = IF i <= Len(s) THEN s[i] ELSE u[i - Len(s)]
    <3>1. u \in Seq(E)
      BY <1>4
    <3> QED BY <3>1, ConcatProperties, Zenon
  <2> QED BY <1>6, <2>1, Zenon
<1>8. /\ Len(name) = Len(s) + 1 + Len(t)
      /\ \A i \in 1..Len(s) : name[i] = s[i]
  BY <1>3, <1>5, <1>7
<1>9. name[Len(s) + 1] = d
  <2>1. Len(s) + 1 \in 1..(Len(s) + Len(u)) /\ ~(Len(s) + 1 <= Len(s)) /\ Len(s) + 1 - Len(s) = 1
    BY <1>3, <1>5
  <2> QED BY <1>5, <1>7, <2>1
<1>10. ASSUME NEW i \in 1..Len(t) PROVE name[Len(s) + 1 + i] = t[i]
  <2>1. /\ Len(s) + 1 + i \in 1..(Len(s) + Len(u)) /\ ~(Len(s) + 1 + i <= Len(s))
        /\ Len(s) + 1 + i - Len(s) = 1 + i
    BY <1>3, <1>5
  <2> QED BY <1>5, <1>7, <2>1
<1>11. /\ name \in Seq(E) /\ Len(name) = Len(s) + 1 + Len(t)
       /\ \A i \in 1..Len(s) : name[i] = s[i]
       /\ name[Len(s) + 1] = d
       /\ \A i \in 1..Len(t) : name[Len(s) + 1 + i] = t[i]
  BY <1>7, <1>8, <1>9, <1>10
<1> USE <1>3
<1>12. Before(name, Len(s) + 1) = s
  <2> DEFINE b == SubSeq(name, 1, Len(s))
  <2>1. \A i \in 1..Len(s) : name[i] \in E
    BY <1>11
  <2>2. b \in Seq(E) /\ Len(b) = Len(s) /\ \A i \in 1..Len(s) : b[i] = name[i]
    BY <1>11, <2>1, SubSeqProperties
  <2> HIDE DEF b
  <2>3. b = s
    BY <1>11, <2>2, SeqEqual
  <2>4. Before(name, Len(s) + 1) = b
    BY <1>11 DEF Before, b
  <2> QED BY <2>3, <2>4
<1>13. After(name, Len(s) + 1) = t
  <2> DEFINE b == SubSeq(name, Len(s) + 2, Len(name))
  <2>1. \A i \in (Len(s) + 2)..Len(name) : name[i] \in E
    BY <1>11
  <2>2. /\ b \in Seq(E) /\ Len(b) = Len(t)
        /\ \A i \in 1..Len(t) : b[i] = name[Len(s) + 1 + i]
    BY <1>11, <2>1, SubSeqProperties
  <2> HIDE DEF b
  <2>3. b = t
    BY <1>11, <2>2, SeqEqual
  <2>4. After(name, Len(s) + 1) = b
    BY <1>11 DEF After, b
  <2> QED BY <2>3, <2>4
<1>14. ASSUME ~Contains(s, d) PROVE FirstAt(d, name) = Len(s) + 1
  <2>1. /\ FirstAt(d, name) \in 0..Len(name)
        /\ FirstAt(d, name) = 0 <=> ~Contains(name, d)
        /\ FirstAt(d, name) # 0 => name[FirstAt(d, name)] = d
        /\ \A i \in 1..(FirstAt(d, name) - 1) : name[i] # d
    BY <1>11, FirstFacts
  <2>2. \A i \in 1..Len(s) : name[i] # d
    BY <1>11, <1>14 DEF Contains
  <2>3. Contains(name, d)
    <3>1. Len(s) + 1 \in 1..Len(name)
      BY <1>11
    <3> QED BY <1>11, <3>1, Zenon DEF Contains
  <2> QED BY <1>11, <2>1, <2>2, <2>3
<1>15. ASSUME ~Contains(t, d) PROVE LastAt(d, name) = Len(s) + 1
  <2>1. /\ LastAt(d, name) \in 0..Len(name)
        /\ LastAt(d, name) = 0 <=> ~Contains(name, d)
        /\ LastAt(d, name) # 0 => name[LastAt(d, name)] = d
        /\ \A i \in (LastAt(d, name) + 1)..Len(name) : name[i] # d
    BY <1>11, LastFacts
  <2>2. ASSUME NEW i \in (Len(s) + 2)..Len(name) PROVE name[i] # d
    <3>0. \A x, y \in Nat : \A j \in (x + 2)..(x + 1 + y) :
            j - x - 1 \in 1..y /\ x + 1 + (j - x - 1) = j
      OBVIOUS
    <3>1. i - Len(s) - 1 \in 1..Len(t) /\ Len(s) + 1 + (i - Len(s) - 1) = i
      BY <1>3, <1>11, <3>0, ZenonT(60)
    <3>2. name[i] = t[i - Len(s) - 1]
      BY <1>11, <3>1
    <3> QED BY <1>15, <3>1, <3>2 DEF Contains
  <2>3. Contains(name, d)
    <3>1. Len(s) + 1 \in 1..Len(name)
      BY <1>11
    <3> QED BY <1>11, <3>1, Zenon DEF Contains
  <2> DEFINE k == LastAt(d, name)
  <2>4. k \in Nat /\ k # 0 /\ k <= Len(name) /\ name[k] = d
    BY <1>11, <2>1, <2>3
  <2>5. \A i \in (k + 1)..Len(name) : name[i] # d
    BY <2>1
  <2> HIDE DEF k
  <2>6. ~(k >= Len(s) + 2)
    BY <1>11, <2>2, <2>4
  <2>7. ~(k < Len(s) + 1)
    BY <1>11, <2>4, <2>5
  <2>8. k = Len(s) + 1
    BY <1>11, <2>4, <2>6, <2>7
  <2> QED BY <2>8 DEF k
<1> QED BY <1>11, <1>12, <1>13, <1>14, <1>15

\* ContainsConcat: a delimiter that is in no part is not in the whole.
LEMMA ContainsConcat ==
  ASSUME NEW E, NEW s \in Seq(E), NEW t \in Seq(E), NEW e,
         ~Contains(s, e), ~Contains(t, e)
  PROVE  ~Contains(s \o t, e)
<1> DEFINE u == s \o t
<1>1. /\ Len(u) = Len(s) + Len(t) /\ Len(s) \in Nat /\ Len(t) \in Nat
      /\ \A i \in 1..(Len(s) + Len(t)) : u[i] = IF i <= Len(s) THEN s[i] ELSE t[i - Len(s)]
  BY ConcatProperties
<1> HIDE DEF u
<1>2. ASSUME NEW i \in 1..Len(u) PROVE u[i] # e
  <2>1. CASE i <= Len(s)
    BY <1>1, <2>1 DEF Contains
  <2>2. CASE ~(i <= Len(s))
    <3>1. i - Len(s) \in 1..Len(t)
      BY <1>1, <2>2
    <3> QED BY <1>1, <2>2, <3>1 DEF Contains
  <2> QED BY <2>1, <2>2
<1>3. ~Contains(u, e)
  BY <1>2 DEF Contains
<1> QED BY <1>3 DEF u

\* A name without its digest, and without its tag.
Host(img) == IF img.registry = <<>> THEN <<>> ELSE Append(img.registry, "/")
Base(img) == Host(img) \o img.path
Tagged(img) == Base(img) \o (IF img.tag = <<>> THEN <<>> ELSE <<":">> \o img.tag)

\* Parts: what WellFormed says of the parts of a name.
LEMMA Parts ==
  ASSUME NEW img, WellFormed(img)
  PROVE  /\ img.registry \in Seq(Piece) /\ img.path \in Seq(Piece)
         /\ img.tag \in Seq(Piece) /\ img.digest \in Seq(Piece)
         /\ ~Contains(img.registry, "/") /\ ~Contains(img.registry, "@")
         /\ ~Contains(img.path, ":") /\ ~Contains(img.path, "@")
         /\ ~Contains(img.tag, "/") /\ ~Contains(img.tag, ":") /\ ~Contains(img.tag, "@")
         /\ img.registry # <<>> => Contains(img.registry, ".") \/ Contains(img.registry, ":")
         /\ img.registry = <<>> => ~Contains(Before(img.path, FirstAt("/", img.path)), ".")
BY DEF WellFormed, Has

\* Single: the delimiters of docker.py are pieces of names.
LEMMA Single ==
  /\ "/" \in Piece /\ ":" \in Piece /\ "@" \in Piece
  /\ <<"/">> \in Seq(Piece) /\ <<":">> \in Seq(Piece)
<1>1. "/" \in Piece /\ ":" \in Piece /\ "@" \in Piece
  BY DEF Piece
<1>2. ASSUME NEW E, NEW d \in E PROVE <<d>> \in Seq(E)
  OBVIOUS
<1> QED BY <1>1, <1>2, Zenon

\* One: a delimiter is no other delimiter.
LEMMA One ==
  ASSUME NEW d, NEW e, d # e PROVE ~Contains(<<d>>, e)
<1> DEFINE u == <<d>>
<1>1. Len(u) = 1 /\ u[1] = d
  OBVIOUS
<1> HIDE DEF u
<1>2. ~Contains(u, e)
  BY <1>1 DEF Contains
<1> QED BY <1>2 DEF u

\* Empty: a part that is left out leaves nothing behind.
LEMMA Empty == \A s \in Seq(Piece) : s \o <<>> = s /\ <<>> \o s = s
BY ConcatEmptySeq, Zenon

\* BaseFacts: how registry and path make up the name that repository is given.
LEMMA BaseFacts ==
  ASSUME NEW img, WellFormed(img)
  PROVE  /\ Base(img) \in Seq(Piece) /\ ~Contains(Base(img), "@")
         /\ img.registry = <<>> => Base(img) = img.path
         /\ img.registry # <<>> => Glued(Base(img), img.registry, "/", img.path)
<1> USE Parts
<1> DEFINE r == img.registry
           p == img.path
<1>1. r \in Seq(Piece) /\ p \in Seq(Piece) /\ ~Contains(r, "@") /\ ~Contains(p, "@")
  OBVIOUS
<1>2. CASE r = <<>>
  <2>1. Base(img) = <<>> \o p
    BY <1>2 DEF Base, Host
  <2>2. Base(img) = p
    BY <1>1, <2>1, Empty
  <2> QED BY <1>1, <1>2, <2>2
<1>3. CASE r # <<>>
  <2>1. Base(img) = Append(r, "/") \o p
    BY <1>3 DEF Base, Host
  <2> HIDE DEF r, p
  <2>2. "/" \in Piece /\ <<"/">> \in Seq(Piece)
    BY Single, Zenon
  <2>3. Append(r, "/") = r \o <<"/">>
    BY <1>1, <2>2, AppendIsConcat, Zenon
  <2>4. (r \o <<"/">>) \o p = r \o (<<"/">> \o p)
    BY <1>1, <2>2, ConcatAssociative
  <2>5. Glued(Base(img), r, "/", p)
    BY <2>1, <2>3, <2>4, Zenon DEF Glued
  <2>6. Base(img) \in Seq(Piece)
    BY <1>1, <2>2, <2>5, Split, Zenon
  <2>7. ~Contains(<<"/">>, "@")
    <3>1. "/" # "@"
      OBVIOUS
    <3> QED BY <3>1, One, Zenon
  <2>8. r \o <<"/">> \in Seq(Piece)
    BY <1>1, <2>2, ConcatProperties, Zenon
  <2>9. ~Contains(r \o <<"/">>, "@")
    BY <1>1, <2>2, <2>7, ContainsConcat, Zenon
  <2>10. ~Contains((r \o <<"/">>) \o p, "@")
    BY <1>1, <2>8, <2>9, ContainsConcat, Zenon
  <2>11. ~Contains(Base(img), "@")
    BY <2>1, <2>3, <2>10, Zenon
  <2> QED BY <1>3, <2>5, <2>6, <2>11 DEF r, p
<1> QED BY <1>2, <1>3

\* TaggedFacts: how that and a tag make up the name that tag is given.
LEMMA TaggedFacts ==
  ASSUME NEW img, WellFormed(img)
  PROVE  /\ Tagged(img) \in Seq(Piece) /\ ~Contains(Tagged(img), "@")
         /\ img.tag = <<>> => Tagged(img) = Base(img)
         /\ img.tag # <<>> => Glued(Tagged(img), Base(img), ":", img.tag)
<1>1. /\ Base(img) \in Seq(Piece) /\ ~Contains(Base(img), "@")
      /\ img.tag \in Seq(Piece) /\ ~Contains(img.tag, "@")
  BY Parts, BaseFacts
<1>2. CASE img.tag = <<>>
  <2>1. Tagged(img) = Base(img) \o <<>>
    BY <1>2 DEF Tagged
  <2>2. Tagged(img) = Base(img)
    BY <1>1, <2>1, Empty
  <2> QED BY <1>1, <1>2, <2>2
<1>3. CASE img.tag # <<>>
  <2> DEFINE t == img.tag
             b == Base(img)
  <2>1. Tagged(img) = b \o (<<":">> \o t)
    BY <1>3 DEF Tagged
  <2>2. b \in Seq(Piece) /\ t \in Seq(Piece) /\ ~Contains(b, "@") /\ ~Contains(t, "@")
    BY <1>1
  <2> HIDE DEF t, b
  <2>3. ":" \in Piece /\ <<":">> \in Seq(Piece)
    BY Single, Zenon
  <2>4. Glued(Tagged(img), b, ":", t)
    BY <2>1 DEF Glued
  <2>5. Tagged(img) \in Seq(Piece)
    BY <2>2, <2>3, <2>4, Split, Zenon
  <2>6. ~Contains(<<":">>, "@")
    <3>1. ":" # "@"
      OBVIOUS
    <3> QED BY <3>1, One, Zenon
  <2>7. <<":">> \o t \in Seq(Piece)
    BY <2>2, <2>3, ConcatProperties, Zenon
  <2>8. ~Contains(<<":">> \o t, "@")
    BY <2>2, <2>3, <2>6, ContainsConcat, Zenon
  <2>9. ~Contains(Tagged(img), "@")
    BY <2>1, <2>2, <2>7, <2>8, ContainsConcat, Zenon
  <2> QED BY <1>3, <2>4, <2>5, <2>9 DEF t, b
<1> QED BY <1>2, <1>3

\* The tag that is meant.
TagOf(img) == IF img.tag # <<>> THEN img.tag ELSE DEFAULT_TAG

\* TagRead: Docker.tag finds the tag, and does not take a port for one.
LEMMA TagRead ==
  ASSUME NEW img, WellFormed(img)
  PROVE  tag(Tagged(img)) = <<Base(img), TagOf(img)>>
<1> DEFINE r == img.registry
           p == img.path
           b == Base(img)
           n == Tagged(img)
           k == LastAt(":", n)
<1>1. /\ r \in Seq(Piece) /\ p \in Seq(Piece) /\ ~Contains(p, ":")
      /\ img.tag \in Seq(Piece) /\ ~Contains(img.tag, "/") /\ ~Contains(img.tag, ":")
  BY Parts
<1>2. /\ b \in Seq(Piece) /\ n \in Seq(Piece)
      /\ r = <<>> => b = p
      /\ r # <<>> => Glued(b, r, "/", p)
      /\ img.tag = <<>> => n = b
      /\ img.tag # <<>> => Glued(n, b, ":", img.tag)
  BY BaseFacts, TaggedFacts
<1>3. CASE img.tag # <<>>
  <2>1. ":" \in Piece /\ Glued(n, b, ":", img.tag)
    BY <1>2, <1>3, Single
  <2>2. k = Len(b) + 1 /\ Before(n, Len(b) + 1) = b /\ After(n, Len(b) + 1) = img.tag
    BY <1>1, <1>2, <2>1, Split
  <2>3. k > 0
    BY <1>2, <2>2
  <2> QED BY <1>1, <1>3, <2>2, <2>3 DEF tag, TagOf
<1>4. CASE img.tag = <<>>
  <2>1. n = b /\ TagOf(img) = DEFAULT_TAG
    BY <1>2, <1>4 DEF TagOf
  <2>2. /\ k \in 0..Len(b)
        /\ k = 0 <=> ~Contains(b, ":")
        /\ k # 0 => b[k] = ":"
    BY <1>2, <2>1, LastFacts
  <2>3. CASE k = 0
    BY <2>1, <2>3 DEF tag
  <2>4. CASE k # 0
    <3>1. Contains(b, ":") /\ b[k] = ":"
      BY <2>2, <2>4
    <3>2. r # <<>>
      BY <1>1, <1>2, <3>1
    <3>3. "/" \in Piece /\ Glued(b, r, "/", p)
      BY <1>2, <3>2, Single
    <3> HIDE DEF r, p, b, n, k
    <3>4. /\ Len(b) = Len(r) + 1 + Len(p) /\ Len(r) \in Nat /\ Len(p) \in Nat
          /\ b[Len(r) + 1] = "/" /\ \A i \in 1..Len(p) : b[Len(r) + 1 + i] = p[i]
      <4>1. r \in Seq(Piece) /\ p \in Seq(Piece)
        BY <1>1
      <4>2. /\ Len(b) = Len(r) + 1 + Len(p) /\ Len(r) \in Nat /\ Len(p) \in Nat
            /\ b[Len(r) + 1] = "/"
        BY <3>3, <4>1, Split
      <4>3. ASSUME NEW i \in 1..Len(p) PROVE b[Len(r) + 1 + i] = p[i]
        BY <3>3, <4>1, Split
      <4> QED BY <4>2, <4>3
    <3>5. k < Len(r) + 1
      <4>1. k # Len(r) + 1
        BY <3>1, <3>4
      <4>2. ASSUME k > Len(r) + 1 PROVE FALSE
        <5>1. k - Len(r) - 1 \in 1..Len(p) /\ Len(r) + 1 + (k - Len(r) - 1) = k
          BY <2>2, <3>4, <4>2
        <5>2. p[k - Len(r) - 1] = ":"
          BY <3>1, <3>4, <5>1
        <5> QED BY <1>1, <5>1, <5>2 DEF Contains
      <4> QED BY <2>2, <3>4, <4>1, <4>2
    <3> DEFINE a == After(b, k)
    <3>6. \A i \in (k + 1)..Len(b) : b[i] \in Piece
      BY <1>2, <2>2
    <3>7. /\ Len(a) = Len(b) - k
          /\ \A i \in 1..(Len(b) - k) : a[i] = b[k + i]
      BY <2>2, <3>4, <3>5, <3>6, SubSeqProperties DEF After
    <3> HIDE DEF a
    <3>8. /\ Len(r) + 1 - k \in 1..(Len(b) - k)
          /\ k + (Len(r) + 1 - k) = Len(r) + 1
      BY <2>2, <3>4, <3>5
    <3>9. a[Len(r) + 1 - k] = "/"
      BY <3>4, <3>7, <3>8
    <3>10. Contains(a, "/")
      BY <3>7, <3>8, <3>9 DEF Contains
    <3> QED BY <2>1, <3>10 DEF tag, a, b, n, k
  <2> QED BY <2>3, <2>4
<1> QED BY <1>3, <1>4

\* ReferenceRead: Docker.reference finds the digest or else the tag.
LEMMA ReferenceRead ==
  ASSUME NEW img, WellFormed(img)
  PROVE  reference(Name(img)) =
           <<Base(img), IF img.digest # <<>> THEN img.digest ELSE TagOf(img)>>
<1> DEFINE n == Tagged(img)
<1>1. /\ n \in Seq(Piece) /\ ~Contains(n, "@") /\ img.digest \in Seq(Piece)
      /\ tag(n) = <<Base(img), TagOf(img)>>
  BY Parts, TaggedFacts, TagRead
<1>2. Name(img) = n \o (IF img.digest = <<>> THEN <<>> ELSE <<"@">> \o img.digest)
  BY DEF Name, Tagged, Base, Host
<1>3. CASE img.digest = <<>>
  <2>1. Name(img) = n
    BY <1>1, <1>2, <1>3, Empty
  <2>2. FirstAt("@", n) = 0
    BY <1>1, FirstFacts
  <2> QED BY <1>1, <1>3, <2>1, <2>2 DEF reference
<1>4. CASE img.digest # <<>>
  <2>1. "@" \in Piece /\ Glued(Name(img), n, "@", img.digest)
    BY <1>2, <1>4, Single DEF Glued
  <2>2. /\ FirstAt("@", Name(img)) = Len(n) + 1 /\ Before(Name(img), Len(n) + 1) = n
        /\ After(Name(img), Len(n) + 1) = img.digest /\ Len(n) \in Nat
    BY <1>1, <2>1, Split
  <2>3. FirstAt("@", Name(img)) > 0
    BY <2>2
  <2> QED BY <1>1, <1>4, <2>2, <2>3 DEF reference
<1> QED BY <1>3, <1>4

\* RepositoryRead: Docker.repository tells a registry from a path.
LEMMA RepositoryRead ==
  ASSUME NEW img, WellFormed(img)
  PROVE  repository(Base(img)) =
           <<IF img.registry \in {<<>>, DockerHub} THEN DEFAULT_REGISTRY ELSE img.registry,
             img.path>>
<1> DEFINE r == img.registry
           p == img.path
           b == Base(img)
<1>1. /\ r \in Seq(Piece) /\ p \in Seq(Piece) /\ ~Contains(p, ":") /\ ~Contains(r, "/")
      /\ r # <<>> => Contains(r, ".") \/ Contains(r, ":")
      /\ r = <<>> => ~Contains(Before(p, FirstAt("/", p)), ".")
  BY Parts
<1>2. CASE r = <<>>
  <2> DEFINE k == FirstAt("/", p)
             a == Before(p, k)
  <2>1. b = p
    BY <1>2, BaseFacts
  <2>2. k \in 0..Len(p) /\ Len(p) \in Nat
    BY <1>1, FirstFacts
  <2>3. ~Contains(a, ":")
    <3>1. \A i \in 1..(k - 1) : p[i] \in Piece
      BY <1>1, <2>2
    <3>2. /\ Len(a) = IF 1 <= k - 1 THEN k - 1 ELSE 0
          /\ \A i \in 1..(k - 1) : a[i] = p[i]
      BY <2>2, <3>1, SubSeqProperties DEF Before
    <3> HIDE DEF a
    <3>3. ASSUME NEW i \in 1..Len(a) PROVE a[i] # ":"
      <4>1. i \in 1..(k - 1) /\ i \in 1..Len(p)
        BY <2>2, <3>2
      <4> QED BY <1>1, <3>2, <4>1 DEF Contains
    <3> QED BY <3>3 DEF Contains
  <2> QED BY <1>1, <1>2, <2>1, <2>3 DEF repository
<1>3. CASE r # <<>>
  <2>1. "/" \in Piece /\ Glued(b, r, "/", p)
    BY <1>3, BaseFacts, Single
  <2>2. /\ FirstAt("/", b) = Len(r) + 1 /\ Before(b, Len(r) + 1) = r
        /\ After(b, Len(r) + 1) = p /\ Len(r) \in Nat
    BY <1>1, <2>1, Split
  <2>3. FirstAt("/", b) > 0
    BY <2>2
  <2> QED BY <1>1, <1>3, <2>2, <2>3 DEF repository
<1> QED BY <1>2, <1>3

\* NamesAreRead: docker.py reads a name as it is meant, whatever its length, with or
\* without a registry, a port, a tag and a digest (reference, tag, repository, digest),
\* unless it is that of an official image: library/ is not added, so another manifest is
\* asked for than the one that is meant.
THEOREM NamesAreRead ==
  ASSUME NEW img, WellFormed(img) PROVE Manifest(Name(img)) = Meaning(img) <=> ~Official(img)
<1>1. Manifest(Name(img)) =
        [registry |-> IF img.registry \in {<<>>, DockerHub}
                      THEN DEFAULT_REGISTRY ELSE img.registry,
         repo |-> img.path,
         reference |-> IF img.digest # <<>> THEN img.digest ELSE TagOf(img)]
  BY ReferenceRead, RepositoryRead DEF Manifest
<1>2. CASE ~Official(img)
  BY <1>1, <1>2 DEF Meaning, TagOf
<1>3. CASE Official(img)
  <2> DEFINE l == <<"library", "/">>
             p == img.path
  <2>1. Meaning(img).repo = l \o p
    BY <1>3 DEF Meaning
  <2>2. p \in Seq(Piece) /\ Manifest(Name(img)).repo = p
    BY <1>1, Parts
  <2> DEFINE E == Piece \cup {"library"}
  <2>3. Len(l) = 2 /\ l \in Seq(E)
    BY DEF Piece
  <2> HIDE DEF l, p
  <2>4. p # l \o p
    <3>1. p \in Seq(E) /\ Len(p) \in Nat
      BY <2>2
    <3> HIDE DEF E
    <3>2. Len(l \o p) = Len(l) + Len(p)
      BY <2>3, <3>1, ConcatProperties, Zenon
    <3> QED BY <2>3, <3>1, <3>2
  <2> QED BY <1>3, <2>1, <2>2, <2>4
<1> QED BY <1>2, <1>3

-----------------------------------------------------------------------------
(* Docker.digest.                                                          *)

USE DEF imageVars, callVars, worldVars, runVars, NoToken, Token

\* CallFrame: what one caller does leaves the others where they are.
LEMMA CallFrame ==
  ASSUME NEW c \in Requests, NEW d \in Requests \ {c}, CallInv(d), UNCHANGED published,
         call'[d] = call[d], tok'[d] = tok[d], attempt'[d] = attempt[d], found'[d] = found[d],
         errors'[d] = errors[d], broken'[d] = broken[d]
  PROVE  CallInv(d)' /\ (FoundInv(d) => FoundInv(d)')
BY DEF CallInv, FoundInv

\* DigestStep: one step of a caller in digest (_retry, _get_digest, authorize).
LEMMA DigestStep ==
  ASSUME CallType, \A d \in Requests : CallInv(d), NEW c \in Requests,
         RegistryStep(c) \/ (Digest(c) /\ UNCHANGED imageVars)
  PROVE  /\ CallType' /\ UNCHANGED imageVars
         /\ \A d \in Requests : CallInv(d)'
         /\ manifest_url = Meaning(image) /\ (\A d \in Requests : FoundInv(d)) =>
              \A d \in Requests : FoundInv(d)'
<1>1. UNCHANGED imageVars
  BY DEF RegistryStep, SendHead, HeadAnswer, RetryHeadAnswer, Authorize, HeadAgainAnswer,
         TransientError, BrokenAnswer
<1>2. MaxRetries \in Nat \ {0} /\ attempt[c] \in 1..MaxRetries /\ errors[c] \in 0..MaxRetries
  BY TestRunAssumption DEF CallType
<1> DEFINE Step(s, t, f, a, e, b) ==
             /\ call' = [call EXCEPT ![c] = s] /\ tok' = [tok EXCEPT ![c] = t]
             /\ found' = [found EXCEPT ![c] = f] /\ attempt' = [attempt EXCEPT ![c] = a]
             /\ errors' = [errors EXCEPT ![c] = e] /\ broken' = [broken EXCEPT ![c] = b]
           Fits(s, t, f, a, e, b) ==
             /\ s \in {"attempt", "head", "retryHead", "authorize", "headAgain", "done", "raised"}
             /\ t \in Token /\ f \in BOOLEAN /\ b \in BOOLEAN
             /\ a \in 1..MaxRetries /\ e \in 0..MaxRetries
             /\ s \notin {"done", "raised"} => e = a - 1
             /\ s = "headAgain" => t = "accepted" \/ b
             /\ f => published
             /\ manifest_url = Meaning(image) =>
                  (s = "done" /\ published /\ ~f => b \/ e = MaxRetries)
<1>3. ASSUME NEW s, NEW t, NEW f, NEW a, NEW e, NEW b,
             Step(s, t, f, a, e, b), Fits(s, t, f, a, e, b)
      PROVE  /\ CallType'
             /\ \A d \in Requests : CallInv(d)'
             /\ manifest_url = Meaning(image) /\ (\A d \in Requests : FoundInv(d)) =>
                  \A d \in Requests : FoundInv(d)'
  <2>1. CallType'
    BY <1>1, <1>3 DEF CallType
  <2>2. CallInv(c)' /\ (manifest_url = Meaning(image) => FoundInv(c)')
    BY <1>1, <1>3 DEF CallType, CallInv, FoundInv
  <2>3. ASSUME NEW d \in Requests \ {c} PROVE CallInv(d)' /\ (FoundInv(d) => FoundInv(d)')
    <3>1. /\ call'[d] = call[d] /\ tok'[d] = tok[d] /\ attempt'[d] = attempt[d]
          /\ found'[d] = found[d] /\ errors'[d] = errors[d] /\ broken'[d] = broken[d]
      BY <1>3 DEF CallType
    <3> QED BY <1>1, <3>1, CallFrame
  <2> QED BY <2>1, <2>2, <2>3
<1> HIDE DEF Step, Fits
<1>4. /\ call[c] \in {"idle", "attempt", "head", "retryHead", "authorize",
                     "headAgain", "done", "raised"}
      /\ tok[c] \in Token /\ found[c] \in BOOLEAN /\ broken[c] \in BOOLEAN
      /\ published \in BOOLEAN
  BY DEF CallType
<1>5. /\ tok = [tok EXCEPT ![c] = tok[c]] /\ found = [found EXCEPT ![c] = found[c]]
      /\ attempt = [attempt EXCEPT ![c] = attempt[c]]
      /\ errors = [errors EXCEPT ![c] = errors[c]] /\ broken = [broken EXCEPT ![c] = broken[c]]
  BY DEF CallType
<1>6. CallInv(c)
  OBVIOUS
<1>7. CASE Digest(c)
  <2>1. Step("attempt", tok[c], found[c], attempt[c], errors[c], broken[c])
    BY <1>5, <1>7 DEF Digest, Move, Step
  <2>2. Fits("attempt", tok[c], found[c], attempt[c], errors[c], broken[c])
    BY <1>2, <1>4, <1>6, <1>7 DEF Digest, CallInv, Fits
  <2> QED BY <1>1, <1>3, <2>1, <2>2
<1>8. CASE SendHead(c)
  <2>1. PICK t \in Token : tok' = [tok EXCEPT ![c] = t]
    BY <1>8 DEF SendHead
  <2>2. Step("head", t, found[c], attempt[c], errors[c], broken[c])
    BY <1>5, <1>8, <2>1 DEF SendHead, Move, Step
  <2>3. Fits("head", t, found[c], attempt[c], errors[c], broken[c])
    BY <1>2, <1>4, <1>6, <1>8 DEF SendHead, CallInv, Fits
  <2> QED BY <1>1, <1>3, <2>2, <2>3
<1>9. CASE HeadAnswer(c)
  <2>1. CASE Challenged(c)
    <3>1. PICK s \in {"authorize", "retryHead"} : call' = [call EXCEPT ![c] = s]
      BY <1>9, <2>1 DEF HeadAnswer, Move
    <3>2. Step(s, "none", found[c], attempt[c], errors[c], broken[c])
      BY <1>5, <1>9, <2>1, <3>1 DEF HeadAnswer, Step
    <3>3. Fits(s, "none", found[c], attempt[c], errors[c], broken[c])
      BY <1>2, <1>4, <1>6, <1>9 DEF HeadAnswer, CallInv, Fits
    <3> QED BY <1>1, <1>3, <3>2, <3>3
  <2>2. CASE ~Challenged(c)
    <3>1. Step("done", "none", Exists /\ Accepts(c), attempt[c], errors[c], broken[c])
      BY <1>5, <1>9, <2>2 DEF HeadAnswer, Returns, Move, Step
    <3>2. Fits("done", "none", Exists /\ Accepts(c), attempt[c], errors[c], broken[c])
      BY <1>2, <1>4, <2>2 DEF Challenged, Exists, Fits
    <3> QED BY <1>1, <1>3, <3>1, <3>2
  <2> QED BY <2>1, <2>2
<1>10. CASE RetryHeadAnswer(c)
  <2>1. Step("authorize", tok[c], found[c], attempt[c], errors[c], broken[c])
    BY <1>5, <1>10 DEF RetryHeadAnswer, Move, Step
  <2>2. Fits("authorize", tok[c], found[c], attempt[c], errors[c], broken[c])
    BY <1>2, <1>4, <1>6, <1>10 DEF RetryHeadAnswer, CallInv, Fits
  <2> QED BY <1>1, <1>3, <2>1, <2>2
<1>11. CASE Authorize(c)
  <2>1. Step("headAgain", "accepted", found[c], attempt[c], errors[c], broken[c])
    BY <1>5, <1>11 DEF Authorize, Move, Step
  <2>2. Fits("headAgain", "accepted", found[c], attempt[c], errors[c], broken[c])
    BY <1>2, <1>4, <1>6, <1>11 DEF Authorize, CallInv, Fits
  <2> QED BY <1>1, <1>3, <2>1, <2>2
<1>12. CASE HeadAgainAnswer(c)
  <2>1. Step("done", "none", Exists /\ Accepts(c), attempt[c], errors[c], broken[c])
    BY <1>5, <1>12 DEF HeadAgainAnswer, Returns, Move, Step
  <2>2. Fits("done", "none", Exists /\ Accepts(c), attempt[c], errors[c], broken[c])
    BY <1>2, <1>4, <1>6, <1>12 DEF HeadAgainAnswer, CallInv, Exists, Accepts, Fits
  <2> QED BY <1>1, <1>3, <2>1, <2>2
<1>13. CASE TransientError(c)
  <2>1. errors[c] = attempt[c] - 1
    BY <1>6, <1>13 DEF TransientError, InFlight, CallInv
  <2>2. CASE attempt[c] < MaxRetries
    <3>1. Step("attempt", "none", found[c], attempt[c] + 1, errors[c] + 1, broken[c])
      BY <1>5, <1>13, <2>2 DEF TransientError, Retry, Move, Step
    <3>2. Fits("attempt", "none", found[c], attempt[c] + 1, errors[c] + 1, broken[c])
      BY <1>2, <1>4, <1>6, <2>1, <2>2 DEF CallInv, Fits
    <3> QED BY <1>1, <1>3, <3>1, <3>2
  <2>3. CASE ~(attempt[c] < MaxRetries)
    <3>1. errors[c] + 1 = MaxRetries
      BY <1>2, <2>1, <2>3
    <3>2. Step("done", "none", FALSE, attempt[c], errors[c] + 1, broken[c])
      BY <1>5, <1>13, <2>3 DEF TransientError, Retry, Returns, Move, Step
    <3>3. Fits("done", "none", FALSE, attempt[c], errors[c] + 1, broken[c])
      BY <1>2, <1>4, <3>1 DEF Fits
    <3> QED BY <1>1, <1>3, <3>2, <3>3
  <2> QED BY <2>2, <2>3
<1>14. CASE BrokenAnswer(c)
  <2>1. CASE Returns(c, FALSE)
    <3>1. Step("done", "none", FALSE, attempt[c], errors[c], TRUE)
      BY <1>5, <1>14, <2>1 DEF BrokenAnswer, Returns, Move, Step
    <3>2. Fits("done", "none", FALSE, attempt[c], errors[c], TRUE)
      BY <1>2, <1>4 DEF Fits
    <3> QED BY <1>1, <1>3, <3>1, <3>2
  <2>2. CASE Move(c, "raised") /\ tok' = [tok EXCEPT ![c] = "none"] /\ UNCHANGED found
    <3>1. Step("raised", "none", found[c], attempt[c], errors[c], TRUE)
      BY <1>5, <1>14, <2>2 DEF BrokenAnswer, Move, Step
    <3>2. Fits("raised", "none", found[c], attempt[c], errors[c], TRUE)
      BY <1>2, <1>4, <1>6 DEF CallInv, Fits
    <3> QED BY <1>1, <1>3, <3>1, <3>2
  <2> QED BY <1>14, <2>1, <2>2 DEF BrokenAnswer
<1> QED
  BY <1>7, <1>8, <1>9, <1>10, <1>11, <1>12, <1>13, <1>14 DEF RegistryStep

\* RegistryAlone: what the registry does by itself (a token expires, all are revoked).
LEMMA RegistryAlone ==
  ASSUME CallType, \A d \in Requests : CallInv(d), TokenExpires \/ Revoke
  PROVE  /\ CallType' /\ UNCHANGED imageVars
         /\ \A d \in Requests : CallInv(d)'
         /\ (\A d \in Requests : FoundInv(d)) => \A d \in Requests : FoundInv(d)'
<1>1. CASE TokenExpires
  BY <1>1 DEF TokenExpires, CallType, CallInv, FoundInv
<1>2. CASE Revoke
  <2>1. UNCHANGED <<imageVars, call, attempt, found, errors>>
    BY <1>2 DEF Revoke
  <2>2. broken' \in [Requests -> BOOLEAN] /\ tok' \in [Requests -> Token]
    BY <1>2 DEF Revoke, CallType
  <2>3. ASSUME NEW d \in Requests
        PROVE  CallInv(d)' /\ (FoundInv(d) => FoundInv(d)')
    <3>1. broken'[d] = (broken[d] \/ (call[d] = "headAgain" /\ tok[d] = "accepted"))
      BY <1>2 DEF Revoke
    <3>2. CallInv(d)
      OBVIOUS
    <3> QED BY <2>1, <3>1, <3>2 DEF CallInv, FoundInv
  <2> QED BY <2>1, <2>2, <2>3 DEF CallType
<1> QED BY <1>1, <1>2

\* CallsStep: every step of the API, as far as digest is concerned.
LEMMA CallsStep ==
  ASSUME RunInv, [Next]_vars
  PROVE  /\ CallType' /\ UNCHANGED imageVars
         /\ \A d \in Requests : CallInv(d)'
         /\ manifest_url = Meaning(image) /\ (\A d \in Requests : FoundInv(d)) =>
              \A d \in Requests : FoundInv(d)'
<1>1. CallType /\ \A d \in Requests : CallInv(d)
  BY DEF RunInv
<1>2. CASE Registries
  BY <1>1, <1>2, RegistryAlone DEF Registries
<1>3. ASSUME NEW c \in Requests, DockerStep(c) \/ ValidateTestRunner(c)
      PROVE  RegistryStep(c) \/ (Digest(c) /\ UNCHANGED imageVars)
  BY <1>3 DEF DockerStep, ValidateTestRunner
<1>4. CASE UNCHANGED <<imageVars, callVars>>
  BY <1>1, <1>4 DEF CallType, CallInv, FoundInv
<1>5. CASE \E c \in Requests : DockerStep(c) \/ ValidateTestRunner(c)
  BY <1>1, <1>3, <1>5, DigestStep
<1>6. ASSUME NEW c \in Requests,
             Start(c) \/ SuiteRunner(c) \/ AbortList(c) \/ AbortDelete(c) \/ AbortResource(c),
             ~DockerStep(c), ~ValidateTestRunner(c)
      PROVE  UNCHANGED <<imageVars, callVars>>
  BY <1>6, ZenonT(60)
     DEF Start, Download, DownloadFails, Invalid, NoTestRunner, AfterDigest, Mismatch,
              FindArtifact, QueryEmpty, QueryAgain, TimeUp, QueryFails, Configure, Fails, Publish, Published, Create, SuiteRunner, AbortList,
              AbortDelete, AbortResource
<1>7. CASE ArtifactCreated \/ UNCHANGED vars
  BY <1>4, <1>7 DEF ArtifactCreated, vars
<1> QED BY <1>2, <1>4, <1>5, <1>6, <1>7 DEF Next

-----------------------------------------------------------------------------
(* The requests.                                                           *)

\* SavedIs: the keys under /testrun/<id>/provider (configure_testrun).
LEMMA SavedIs ==
  /\ Saved = {"log-area", "execution-space", "iut", "dataset"}
  /\ Provider[1] = "log-area"
BY DEF Saved, Provider

\* One request moves on, and its test run with it.
Becomes(c, s, code, keys, up, j, ab) ==
  /\ st' = [st EXCEPT ![c] = s] /\ answer' = [answer EXCEPT ![c] = code]
  /\ saved' = [saved EXCEPT ![c] = keys] /\ started' = [started EXCEPT ![c] = up]
  /\ job' = [job EXCEPT ![c] = j] /\ abort' = [abort EXCEPT ![c] = ab]

\* What ProgressInv and AnswerInv say of it then, if what is said of its images is ok.
Sound(ok, s, code, keys, up, j, ab) ==
  /\ s \in State /\ code \in {0, 200, 400, 500, 504} /\ keys \in SUBSET Saved
  /\ up \in BOOLEAN /\ j \in {"none", "running", "gone"}
  /\ ab \in {"none", "listed", "200", "404", "500"}
  /\ s \in {"artifact", "asleep"} => ok
  /\ s \in Configuring \cup {"create"} => ok /\ artifact
  /\ s \in Configuring => api = "v0"
  /\ s = "create" => api # "v0"
  /\ s \in {"execution-space", "iut", "dataset"} => "log-area" \in keys
  /\ s \in {"iut", "dataset"} => "execution-space" \in keys
  /\ s = "dataset" => "iut" \in keys
  /\ s \in {"publish", "sent"} => keys = Saved
  /\ up => ok /\ artifact /\ (api = "v0" => keys = Saved)
  /\ s \notin {"sent", "end"} => ~up /\ j = "none"
  /\ s # "end" => code = 0
  /\ ab # "none" => code = 200
  /\ code \in {400, 504} => ~up /\ j = "none"

RunsInv == RunType /\ \A d \in Requests : ProgressInv(d) /\ AnswerInv(d)

\* NowSound: the invariant, of one request (any handler in routers/*/router.py).
LEMMA NowSound ==
  ASSUME RunsInv, NEW c \in Requests
  PROVE  Sound(Checked(c), st[c], answer[c], saved[c], started[c], job[c], abort[c])
BY DEF RunsInv, RunType, ProgressInv, AnswerInv, Sound

\* Settles: a step of one request leaves the others alone (the coroutines share nothing
\* but the tokens). It may find that its suite names no test runner.
LEMMA Settles ==
  ASSUME RunsInv, NEW c \in Requests,
         NEW ok, NEW s, NEW code, NEW keys, NEW up, NEW j, NEW ab,
         Becomes(c, s, code, keys, up, j, ab), Sound(ok, s, code, keys, up, j, ab),
         ok => Checked(c)', bare \subseteq bare', UNCHANGED <<published, api, artifact>>
  PROVE  RunsInv'
<1>1. RunType'
  BY DEF RunsInv, RunType, Becomes, Sound
<1>2. ProgressInv(c)' /\ AnswerInv(c)'
  BY DEF RunsInv, RunType, Becomes, Sound, ProgressInv, AnswerInv
<1>3. ASSUME NEW d \in Requests \ {c} PROVE ProgressInv(d)' /\ AnswerInv(d)'
  <2>1. /\ st'[d] = st[d] /\ answer'[d] = answer[d] /\ saved'[d] = saved[d]
        /\ started'[d] = started[d] /\ job'[d] = job[d] /\ abort'[d] = abort[d]
    BY DEF RunsInv, RunType, Becomes
  <2>2. ProgressInv(d) /\ AnswerInv(d)
    BY DEF RunsInv
  <2>3. Checked(d) => Checked(d)'
    BY DEF Checked
  <2> QED BY <2>1, <2>2, <2>3 DEF ProgressInv, AnswerInv
<1> QED BY <1>1, <1>2, <1>3 DEF RunsInv

\* Moves: and after that, that stays as it is.
LEMMA Moves ==
  ASSUME RunsInv, NEW c \in Requests, NEW s, NEW code, NEW keys, NEW up, NEW j, NEW ab,
         Becomes(c, s, code, keys, up, j, ab), Sound(Checked(c), s, code, keys, up, j, ab),
         UNCHANGED <<published, bare, api, artifact>>
  PROVE  RunsInv'
<1>1. Checked(c) => Checked(c)'
  BY DEF Checked
<1> QED BY <1>1, Settles

\* Same: what a step leaves alone of a request, written as Becomes wants it.
LEMMA Same ==
  ASSUME RunsInv, NEW c \in Requests
  PROVE  /\ st = [st EXCEPT ![c] = st[c]] /\ answer = [answer EXCEPT ![c] = answer[c]]
         /\ saved = [saved EXCEPT ![c] = saved[c]] /\ started = [started EXCEPT ![c] = started[c]]
         /\ job = [job EXCEPT ![c] = job[c]] /\ abort = [abort EXCEPT ![c] = abort[c]]
BY DEF RunsInv, RunType

\* Ends: a request is answered. Unless that is after the TERCC, nothing is started.
LEMMA Ends ==
  ASSUME RunsInv, NEW c \in Requests, NEW code \in {200, 400, 500, 504}, st[c] # "end",
         code \in {400, 504} => st[c] # "sent",
         Answer(c, code), UNCHANGED <<published, bare, api, artifact, runVars, abort>>
  PROVE  RunsInv'
<1>1. Becomes(c, "end", code, saved[c], started[c], job[c], abort[c])
  BY Same DEF Answer, Goto, Becomes
<1>2. Sound(Checked(c), st[c], answer[c], saved[c], started[c], job[c], abort[c])
  BY NowSound
<1>3. abort[c] = "none"
  BY <1>2 DEF Sound
<1>4. code \in {400, 504} => ~started[c] /\ job[c] = "none"
  BY <1>2 DEF Sound
<1>5. Sound(Checked(c), "end", code, saved[c], started[c], job[c], abort[c])
  BY <1>2, <1>3, <1>4, SavedIs DEF Sound, State, Configuring
<1> QED BY <1>1, <1>5, Moves

\* Goes: a request moves on to a state in which nothing has been started yet.
LEMMA Goes ==
  ASSUME RunsInv, NEW c \in Requests, NEW s \in State \ {"sent", "end"},
         st[c] \notin {"sent", "end"}, Goto(c, s), Sound(Checked(c), s, 0, saved[c], FALSE, "none", "none"),
         UNCHANGED <<published, bare, api, artifact, answer, runVars, abort>>
  PROVE  RunsInv'
<1>1. Sound(Checked(c), st[c], answer[c], saved[c], started[c], job[c], abort[c])
  BY NowSound
<1>2. answer[c] = 0 /\ started[c] = FALSE /\ job[c] = "none" /\ abort[c] = "none"
  BY <1>1 DEF Sound
<1>3. Becomes(c, s, 0, saved[c], FALSE, "none", "none")
  BY <1>2, Same DEF Goto, Becomes
<1> QED BY <1>3, Moves

\* SuiteStep: the suite is downloaded and validated, and so is the image of its test
\* runner (validator.py, and start_testrun up to the artifact).
LEMMA SuiteStep ==
  ASSUME RunInv, RunsInv, NEW c \in Requests,
         \/ Download(c) \/ DownloadFails(c) \/ Invalid(c) \/ ValidateTestRunner(c)
         \/ NoTestRunner(c) \/ AfterDigest(c) \/ Mismatch(c)
  PROVE  RunsInv'
<1> USE SavedIs
<1>1. Sound(Checked(c), st[c], answer[c], saved[c], started[c], job[c], abort[c])
  BY NowSound
<1>2. /\ Sound(Checked(c), "suite", 0, saved[c], FALSE, "none", "none")
      /\ Sound(Checked(c), "digest", 0, saved[c], FALSE, "none", "none")
  BY <1>1 DEF Sound, State, Configuring
<1>3. CASE Download(c)
  <2>1. "suite" \in State \ {"sent", "end"} /\ st[c] \notin {"sent", "end"} /\ Goto(c, "suite")
    BY <1>3 DEF Download, State
  <2>2. UNCHANGED <<published, bare, api, artifact, answer, runVars, abort>>
    BY <1>3 DEF Download
  <2> QED BY <1>2, <2>1, <2>2, Goes
<1>4. CASE DownloadFails(c)
  <2>1. PICK code \in {400, 500} : Answer(c, code)
    BY <1>4 DEF DownloadFails
  <2>2. st[c] = "new" /\ UNCHANGED <<published, bare, api, artifact, runVars, abort>>
    BY <1>4 DEF DownloadFails
  <2> QED BY <2>1, <2>2, Ends
<1>5. CASE Invalid(c)
  <2>1. st[c] = "suite" /\ Answer(c, 400) /\ UNCHANGED <<published, bare, api, artifact, runVars, abort>>
    BY <1>5 DEF Invalid
  <2> QED BY <2>1, Ends
<1>6. CASE ValidateTestRunner(c)
  <2>1. "digest" \in State \ {"sent", "end"} /\ st[c] \notin {"sent", "end"} /\ Goto(c, "digest")
    BY <1>6 DEF ValidateTestRunner, State
  <2>2. UNCHANGED <<published, bare, api, artifact, answer, runVars, abort>>
    BY <1>6 DEF ValidateTestRunner
  <2> QED BY <1>2, <2>1, <2>2, Goes
<1>7. CASE AfterDigest(c)
  <2>1. UNCHANGED <<published, bare, api, artifact, runVars, abort>> /\ st[c] = "digest"
    BY <1>7 DEF AfterDigest
  <2>2. CASE call[c] = "done" /\ found[c]
    <3>1. Goto(c, "artifact") /\ UNCHANGED answer
      BY <1>7, <2>2 DEF AfterDigest
    <3>2. Checked(c)
      BY <2>2 DEF RunInv, CallInv, Checked
    <3>3. /\ "artifact" \in State \ {"sent", "end"}
          /\ Sound(Checked(c), "artifact", 0, saved[c], FALSE, "none", "none")
      BY <1>1, <3>2 DEF Sound, State, Configuring
    <3> QED BY <2>1, <3>1, <3>3, Goes
  <2>3. CASE ~(call[c] = "done" /\ found[c])
    <3>1. PICK code \in {400, 500} : Answer(c, code)
      BY <1>7, <2>3 DEF AfterDigest
    <3> QED BY <2>1, <3>1, Ends
  <2> QED BY <2>2, <2>3
<1>8. CASE Mismatch(c)
  <2>1. st[c] \in {"suite", "digest"} /\ Answer(c, 400)
        /\ UNCHANGED <<published, bare, api, artifact, runVars, abort>>
    BY <1>8 DEF Mismatch
  <2> QED BY <2>1, Ends
<1>9. CASE NoTestRunner(c)
  <2>1. /\ st[c] = "suite" /\ Goto(c, "artifact") /\ bare' = bare \cup {c}
        /\ UNCHANGED <<published, api, artifact, answer, runVars, abort>>
    BY <1>9 DEF NoTestRunner
  <2>2. Becomes(c, "artifact", answer[c], saved[c], started[c], job[c], abort[c])
    BY <2>1, Same DEF Goto, Becomes
  <2>3. Sound(TRUE, "artifact", answer[c], saved[c], started[c], job[c], abort[c])
    BY <1>1, <2>1 DEF Sound, State, Configuring
  <2>4. Checked(c)' /\ bare \subseteq bare'
    BY <2>1 DEF Checked
  <2> QED BY <2>1, <2>2, <2>3, <2>4, Settles
<1> QED BY <1>3, <1>4, <1>5, <1>6, <1>7, <1>8, <1>9

\* ArtifactStep: wait_for_artifact_created.
LEMMA ArtifactStep ==
  ASSUME RunsInv, NEW c \in Requests,
         FindArtifact(c) \/ QueryEmpty(c) \/ QueryAgain(c) \/ TimeUp(c) \/ QueryFails(c)
  PROVE  RunsInv'
<1> USE SavedIs
<1>1. Sound(Checked(c), st[c], answer[c], saved[c], started[c], job[c], abort[c])
  BY NowSound
<1>2. st[c] \in {"artifact", "asleep"} /\ UNCHANGED <<published, bare, api, artifact, runVars, abort>>
  BY DEF FindArtifact, QueryEmpty, QueryAgain, TimeUp, QueryFails
<1>3. CASE FindArtifact(c)
  <2>1. Checked(c) /\ artifact
    BY <1>1, <1>2, <1>3 DEF Sound, FindArtifact, QueryMatches
  <2>2. PICK s \in {"log-area", "create"} :
           Goto(c, s) /\ (s = "log-area" => api = "v0") /\ (s = "create" => api # "v0")
    BY <1>3 DEF FindArtifact
  <2>3. s \in State \ {"sent", "end"} /\ Sound(Checked(c), s, 0, saved[c], FALSE, "none", "none")
    BY <1>1, <2>1, <2>2 DEF Sound, State, Configuring
  <2>4. UNCHANGED answer
    BY <1>3 DEF FindArtifact
  <2> QED BY <1>2, <2>2, <2>3, <2>4, Goes
<1>4. CASE TimeUp(c)
  <2>1. Answer(c, 400)
    BY <1>4 DEF TimeUp
  <2> QED BY <1>2, <2>1, Ends
<1>5. CASE QueryFails(c)
  <2>1. PICK code \in {400, 504} : Answer(c, code)
    BY <1>5 DEF QueryFails
  <2> QED BY <1>2, <2>1, Ends
<1>6. CASE QueryEmpty(c) \/ QueryAgain(c)
  <2>1. PICK s \in {"artifact", "asleep"} : Goto(c, s)
    BY <1>6 DEF QueryEmpty, QueryAgain
  <2>2. s \in State \ {"sent", "end"} /\ Sound(Checked(c), s, 0, saved[c], FALSE, "none", "none")
    BY <1>1, <1>2, <2>1 DEF Sound, State, Configuring
  <2>3. UNCHANGED answer
    BY <1>6 DEF QueryEmpty, QueryAgain
  <2> QED BY <1>2, <2>1, <2>2, <2>3, Goes
<1> QED BY <1>3, <1>4, <1>5, <1>6

\* ConfigureStep: one provider of configure_testrun is saved, or the dataset.
LEMMA ConfigureStep ==
  ASSUME RunsInv, NEW c \in Requests, NEW key \in Saved, Configure(c, key)
  PROVE  RunsInv'
<1> USE SavedIs
<1>1. Sound(Checked(c), st[c], answer[c], saved[c], started[c], job[c], abort[c])
  BY NowSound
<1>2. st[c] = key /\ st[c] \notin {"sent", "end"}
      /\ UNCHANGED <<published, bare, api, artifact, started, job, abort>>
  BY DEF Configure
<1>3. CASE Save(c, {key}) /\ Goto(c, NextKey(key)) /\ UNCHANGED answer
  <2>1. /\ saved' = [saved EXCEPT ![c] = saved[c] \cup {key}]
        /\ Goto(c, NextKey(key)) /\ UNCHANGED answer
    BY <1>3 DEF Save
  <2>2. Becomes(c, NextKey(key), answer[c], saved[c] \cup {key}, started[c], job[c], abort[c])
    BY <1>2, <2>1, Same DEF Becomes, Goto
  <2>3. /\ saved[c] \subseteq Saved /\ api = "v0" /\ Checked(c) /\ artifact
        /\ ~started[c] /\ job[c] = "none" /\ answer[c] = 0 /\ abort[c] = "none"
    BY <1>1, <1>2 DEF Sound, Configuring
  <2>4. Sound(Checked(c), NextKey(key), answer[c], saved[c] \cup {key}, started[c], job[c], abort[c])
    <3>1. CASE key = "log-area"
      BY <1>1, <1>2, <2>3, <3>1 DEF Sound, NextKey, State, Configuring
    <3>2. CASE key = "execution-space"
      BY <1>1, <1>2, <2>3, <3>2 DEF Sound, NextKey, State, Configuring
    <3>3. CASE key = "iut"
      BY <1>1, <1>2, <2>3, <3>3 DEF Sound, NextKey, State, Configuring
    <3>4. CASE key = "dataset"
      <4>1. "log-area" \in saved[c] /\ "execution-space" \in saved[c] /\ "iut" \in saved[c]
        BY <1>1, <1>2, <3>4 DEF Sound
      <4>2. saved[c] \cup {key} = Saved
        BY <2>3, <3>4, <4>1
      <4> QED BY <1>1, <1>2, <2>3, <3>4, <4>2 DEF Sound, NextKey, State, Configuring
    <3> QED BY <3>1, <3>2, <3>3, <3>4
  <2> QED BY <1>2, <2>2, <2>4, Moves
<1>4. CASE Answer(c, 400) /\ UNCHANGED saved
  BY <1>2, <1>4, Ends
<1> QED BY <1>3, <1>4 DEF Configure

\* SendStep: the TERCC is published, the TestRun resource is created, or an exception
\* ends the request.
LEMMA SendStep ==
  ASSUME RunsInv, NEW c \in Requests, Fails(c) \/ Publish(c) \/ Published(c) \/ Create(c)
  PROVE  RunsInv'
<1> USE SavedIs
<1>1. Sound(Checked(c), st[c], answer[c], saved[c], started[c], job[c], abort[c])
  BY NowSound
<1>2. UNCHANGED <<published, bare, api, artifact, saved, job, abort>>
  BY DEF Fails, Publish, Published, Create
<1>3. CASE Fails(c)
  <2>1. st[c] # "end" /\ Answer(c, 500) /\ UNCHANGED started
    BY <1>3 DEF Fails
  <2> QED BY <1>2, <2>1, Ends
<1>4. CASE Publish(c)
  <2>1. Becomes(c, "sent", answer[c], saved[c], TRUE, job[c], abort[c])
    BY <1>2, <1>4, Same DEF Publish, Goto, Becomes
  <2>2. st[c] = "publish"
    BY <1>4 DEF Publish
  <2>3. Sound(Checked(c), "sent", answer[c], saved[c], TRUE, job[c], abort[c])
    BY <1>1, <2>2 DEF Sound, State, Configuring
  <2> QED BY <1>2, <2>1, <2>3, Moves
<1>5. CASE Published(c)
  <2>1. PICK code \in {200, 500} : Answer(c, code)
    BY <1>5 DEF Published
  <2>2. st[c] = "sent" /\ UNCHANGED started
    BY <1>5 DEF Published
  <2> QED BY <1>2, <2>1, <2>2, Ends
<1>6. CASE Create(c)
  <2>1. st[c] = "create"
    BY <1>6 DEF Create
  <2>2. ASSUME NEW code, code \in {200, 500}, Answer(c, code) PROVE RunsInv'
    <3>1. Becomes(c, "end", code, saved[c], TRUE, job[c], abort[c])
      BY <1>2, <1>6, <2>2, Same DEF Create, Created, Answer, Goto, Becomes
    <3>2. Sound(Checked(c), "end", code, saved[c], TRUE, job[c], abort[c])
      BY <1>1, <2>1, <2>2 DEF Sound, State, Configuring
    <3> QED BY <1>2, <3>1, <3>2, Moves
  <2> QED BY <1>6, <2>2 DEF Create
<1> QED BY <1>3, <1>4, <1>5, <1>6

\* AbortStep: the suite runner comes and goes, and a client aborts its test run.
LEMMA AbortStep ==
  ASSUME RunsInv, NEW c \in Requests,
         SuiteRunner(c) \/ AbortList(c) \/ AbortDelete(c) \/ AbortResource(c)
  PROVE  RunsInv'
<1>1. Sound(Checked(c), st[c], answer[c], saved[c], started[c], job[c], abort[c])
  BY NowSound
<1>2. UNCHANGED <<published, bare, api, artifact, st, answer, saved>>
  BY DEF SuiteRunner, AbortList, AbortDelete, AbortResource
<1>3. CASE SuiteRunner(c)
  <2>1. PICK j \in {"running", "gone"} : job' = [job EXCEPT ![c] = j]
    BY <1>3 DEF SuiteRunner
  <2>2. started[c] \/ job[c] = "running"
    BY <1>3 DEF SuiteRunner
  <2>3. Becomes(c, st[c], answer[c], saved[c], started[c], j, abort[c])
    BY <1>2, <1>3, <2>1, Same DEF SuiteRunner, Becomes
  <2>4. Sound(Checked(c), st[c], answer[c], saved[c], started[c], j, abort[c])
    BY <1>1, <2>1, <2>2 DEF Sound
  <2> QED BY <1>2, <2>3, <2>4, Moves
<1>4. CASE AbortList(c)
  <2>1. PICK ab \in {"listed", "404"} : abort' = [abort EXCEPT ![c] = ab]
    BY <1>4 DEF AbortList, AbortAnswer
  <2>2. Becomes(c, st[c], answer[c], saved[c], started[c], job[c], ab)
    BY <1>2, <1>4, <2>1, Same DEF AbortList, Becomes
  <2>3. Sound(Checked(c), st[c], answer[c], saved[c], started[c], job[c], ab)
    BY <1>1, <1>4, <2>1 DEF Sound, AbortList
  <2> QED BY <1>2, <2>2, <2>3, Moves
<1>5. CASE AbortDelete(c)
  <2>1. PICK ab \in {"200", "500"} : abort' = [abort EXCEPT ![c] = ab]
    BY <1>5 DEF AbortDelete, AbortAnswer
  <2>2. Becomes(c, st[c], answer[c], saved[c], started[c], "gone", ab)
    BY <1>2, <1>5, <2>1, Same DEF AbortDelete, Becomes
  <2>3. answer[c] = 200
    BY <1>1, <1>5 DEF Sound, AbortDelete
  <2>4. Sound(Checked(c), st[c], answer[c], saved[c], started[c], "gone", ab)
    BY <1>1, <2>1, <2>3 DEF Sound
  <2> QED BY <1>2, <2>2, <2>4, Moves
<1>6. CASE AbortResource(c)
  <2>1. PICK ab \in {"200", "404"} : abort' = [abort EXCEPT ![c] = ab]
    BY <1>6 DEF AbortResource, AbortAnswer
  <2>2. Becomes(c, st[c], answer[c], saved[c], FALSE, "gone", ab)
    BY <1>2, <1>6, <2>1, Same DEF AbortResource, Deleted, Becomes
  <2>3. Sound(Checked(c), st[c], answer[c], saved[c], FALSE, "gone", ab)
    BY <1>1, <1>6, <2>1 DEF Sound, AbortResource
  <2> QED BY <1>2, <2>2, <2>3, Moves
<1> QED BY <1>3, <1>4, <1>5, <1>6

\* RunsStep: every step of the API, as far as the requests are concerned.
LEMMA RunsStep ==
  ASSUME RunInv, [Next]_vars
  PROVE  RunsInv'
<1>1. RunsInv
  BY DEF RunInv, RunsInv
<1>2. CASE ArtifactCreated
  <2>1. artifact' = TRUE /\ UNCHANGED <<published, bare, api, st, answer, runVars, abort>>
    BY <1>2 DEF ArtifactCreated
  <2> QED BY <1>1, <2>1 DEF RunsInv, RunType, ProgressInv, AnswerInv, Checked
<1>3. CASE UNCHANGED <<published, bare, api, artifact, st, answer, runVars, abort>>
  BY <1>1, <1>3 DEF RunsInv, RunType, ProgressInv, AnswerInv, Checked
<1>4. CASE Registries \/ UNCHANGED vars
  <2>1. UNCHANGED <<published, bare, api, artifact, st, answer, runVars, abort>>
    BY <1>4 DEF Registries, TokenExpires, Revoke, vars
  <2> QED BY <1>3, <2>1
<1>5. ASSUME NEW c \in Requests, DockerStep(c) PROVE RunsInv'
  <2>1. UNCHANGED <<bare, api, artifact, st, answer, runVars, abort>>
    BY <1>5 DEF DockerStep
  <2>2. UNCHANGED published
    BY CallsStep
  <2> QED BY <1>3, <2>1, <2>2
<1>6. ASSUME NEW c \in Requests, Start(c) PROVE RunsInv'
  BY <1>1, <1>5, <1>6, SuiteStep, ArtifactStep, ConfigureStep, SendStep DEF Start
<1>7. ASSUME NEW c \in Requests,
             SuiteRunner(c) \/ AbortList(c) \/ AbortDelete(c) \/ AbortResource(c)
      PROVE  RunsInv'
  BY <1>1, <1>7, AbortStep
<1> QED BY <1>2, <1>4, <1>6, <1>7 DEF Next

-----------------------------------------------------------------------------
(* The theorems.                                                           *)

\* RunInit: the invariants hold before the first request.
LEMMA RunInit ==
  ASSUME Init
  PROVE  RunInv /\ ImageInv /\ \A c \in Requests : FoundInv(c)
<1>1. CallType
  BY TestRunAssumption DEF Init, RegistryInit, CallType
<1>2. RunType
  <2>1. "new" \in State
    BY DEF State
  <2> QED BY <2>1 DEF Init, RunType
<1>3. ASSUME NEW c \in Requests
      PROVE  CallInv(c) /\ ProgressInv(c) /\ AnswerInv(c) /\ FoundInv(c)
  BY SavedIs DEF Init, RegistryInit, CallInv, ProgressInv, AnswerInv, FoundInv, Configuring
<1>4. ImageInv
  BY DEF Init, RegistryInit, ImageInv
<1> QED BY <1>1, <1>2, <1>3, <1>4 DEF RunInv

\* RunStep: the invariants are inductive.
LEMMA RunStep == RunInv /\ [Next]_vars => RunInv'
BY CallsStep, RunsStep DEF RunInv, RunsInv

\* WhatIsStartedIsComplete: for any number of requests, of retries and of failures,
\* the TERCC is published and the TestRun resource created only for an artifact that
\* exists, with the image of the test runner if the suite names one, and in v0 with all
\* providers and the dataset in etcd (validate, start_testrun, configure_testrun). A
\* suite that names no test runner is started with no image checked.
THEOREM WhatIsStartedIsComplete == Spec => []StartedComplete
<1>1. Init => RunInv
  BY RunInit
<1>2. RunInv => StartedComplete
  BY DEF RunInv, ProgressInv, StartedComplete, Checked
<1> QED BY <1>1, <1>2, RunStep, PTL DEF Spec

\* RejectionIsClean: a request that is answered 400 or 504 has not started a test run,
\* and no suite runner has run for it.
THEOREM RejectionIsClean == Spec => []RejectedNotStarted
<1>1. Init => RunInv
  BY RunInit
<1>2. RunInv => RejectedNotStarted
  BY DEF RunInv, AnswerInv, RejectedNotStarted
<1> QED BY <1>1, <1>2, RunStep, PTL DEF Spec

\* ImagesAreFound: digest finds an image that exists, by any name that is read as meant, for
\* any number of callers that share the stored token, unless all attempts of _retry met
\* a transient error or the registry gave a broken answer.
THEOREM ImagesAreFound == Spec => []Resilient
<1> DEFINE FInv == RunInv /\ ImageInv /\ \A c \in Requests : FoundInv(c)
<1>1. Init => FInv
  BY RunInit
<1>2. FInv /\ [Next]_vars => FInv'
  <2> SUFFICES ASSUME FInv, [Next]_vars PROVE FInv'
    OBVIOUS
  <2>1. manifest_url = Meaning(image)
    BY RegistryAssumption, NamesAreRead DEF ImageInv
  <2>2. (\A c \in Requests : FoundInv(c)) /\ UNCHANGED imageVars
    BY <2>1, CallsStep
  <2> QED BY <2>1, <2>2, CallsStep, RunStep DEF ImageInv
<1>3. FInv => Resilient
  BY DEF FoundInv, Resilient
<1> HIDE DEF FInv
<1> QED BY <1>1, <1>2, <1>3, PTL DEF Spec
=============================================================================
