--------------------------- MODULE ImageReference ---------------------------
(***************************************************************************)
(* How docker.py finds the manifest of a container image from its name     *)
(* (reference, tag and repository of class Docker), and what the name      *)
(* means. A name is a sequence of tokens: the four delimiters ":", "/",    *)
(* "@" and ".", and words between them.                                    *)
(***************************************************************************)
EXTENDS Integers, SequencesExt

DEFAULT_TAG == <<"latest">>
DEFAULT_REGISTRY == <<"index", ".", "docker", ".", "io">>
DockerHub == <<"docker", ".", "io">>

FirstAt(token, name) == SelectInSeq(name, LAMBDA t : t = token)
LastAt(token, name) == SelectLastInSeq(name, LAMBDA t : t = token)
Before(name, k) == SubSeq(name, 1, k - 1)
After(name, k) == SubSeq(name, k + 1, Len(name))

\* A tag is what follows the last ":", unless that is the ":" of a port.
tag(base) ==
  LET k == LastAt(":", base)
      last == After(base, k)
  IN  IF k > 0 /\ ~Contains(last, "/")
      THEN <<Before(base, k), IF last = <<>> THEN DEFAULT_TAG ELSE last>>
      ELSE <<base, DEFAULT_TAG>>

\* A digest takes precedence over a tag.
reference(name) ==
  LET k == FirstAt("@", name)
  IN  IF k > 0 THEN <<tag(Before(name, k))[1], After(name, k)>> ELSE tag(name)

\* What comes before the first "/" is a registry if it has a "." or a ":".
repository(repo) ==
  LET k == FirstAt("/", repo)
      found == k > 0 /\ (Contains(Before(repo, k), ".") \/ Contains(Before(repo, k), ":"))
      registry == IF found THEN Before(repo, k) ELSE <<>>
  IN  <<IF registry \in {<<>>, DockerHub} THEN DEFAULT_REGISTRY ELSE registry,
        IF found THEN After(repo, k) ELSE repo>>

\* The manifest that digest asks for.
Manifest(name) ==
  LET ref == reference(name)
      repo == repository(ref[1])
  IN  [registry |-> repo[1], repo |-> repo[2], reference |-> ref[2]]

-----------------------------------------------------------------------------
\* An image is a registry, a path in it, a tag and a digest; all but the path may
\* be <<>>. This is how it is written, and which manifest is meant by it.
Name(image) ==
  (IF image.registry = <<>> THEN <<>> ELSE Append(image.registry, "/"))
  \o image.path
  \o (IF image.tag = <<>> THEN <<>> ELSE <<":">> \o image.tag)
  \o (IF image.digest = <<>> THEN <<>> ELSE <<"@">> \o image.digest)

\* On Docker Hub a path of one part is that of an official image, in the namespace
\* library.
Official(image) ==
  image.registry \in {<<>>, DockerHub, DEFAULT_REGISTRY} /\ ~Contains(image.path, "/")

Meaning(image) ==
  [registry |-> IF image.registry \in {<<>>, DockerHub}
                THEN DEFAULT_REGISTRY ELSE image.registry,
   repo |-> IF Official(image) THEN <<"library", "/">> \o image.path ELSE image.path,
   reference |-> IF image.digest # <<>> THEN image.digest
                 ELSE IF image.tag # <<>> THEN image.tag ELSE DEFAULT_TAG]

\* The images that can be told from their names: the delimiters are where they belong,
\* and what stands for the registry looks like one, and nothing else does.
Piece == STRING \cup {":", "/", "@", "."}
Has(part, delimiters) == \E d \in delimiters : Contains(part, d)
WellFormed(image) ==
  /\ image \in [registry : Seq(Piece), path : Seq(Piece), tag : Seq(Piece), digest : Seq(Piece)]
  /\ ~Has(image.registry, {"/", "@"}) /\ ~Has(image.path, {":", "@"})
  /\ ~Has(image.tag, {"/", ":", "@"})
  /\ IF image.registry # <<>> THEN Has(image.registry, {".", ":"})
     ELSE ~Has(Before(image.path, FirstAt("/", image.path)), {"."})
=============================================================================
