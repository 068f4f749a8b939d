------------------------------- MODULE LogArea ------------------------------
(***************************************************************************)
(* The log area: clients upload files into a directory tree                *)
(* (pkg/logarea/v1alpha/logarea.go) from which a goroutine removes what is *)
(* old (retention.go), until main shuts down (cmd/logarea/main.go).        *)
(*                                                                         *)
(* A path is a sequence of names below UploadPath; its first element is    *)
(* the top-level entry, which is all that the retention handler looks at.  *)
(* Time passes in ticks. An age is the number of ticks since an event, and *)
(* stops counting once it is above Retention.                              *)
(*                                                                         *)
(* The file system is external: an upload has a file open by its inode,    *)
(* named after the upload that created it, and goes on writing to it when  *)
(* its name has been removed.                                              *)
(***************************************************************************)
EXTENDS Naturals, Sequences, FiniteSets

CONSTANTS
  Uploads,    \* upload requests
  NoUpload,   \* no file
  NoName,     \* no top-level entry
  Paths,      \* paths they may name
  Retention,  \* cfg.Retention, in ticks
  MaxFaults   \* bound on failing calls and crashes

Names == {p[1] : p \in Paths}

ASSUME LogAreaAssumption ==
  /\ NoUpload \notin Uploads /\ NoName \notin Names
  /\ Paths \subseteq Seq(STRING) \ {<<>>}
  /\ Retention \in Nat /\ MaxFaults \in Nat

VARIABLES
  \* The file system.
  dirs,       \* the directories, as paths
  file,       \* the inode of the file at a path, or NoUpload
  content,    \* the uploads whose bytes are in an inode
  mtime,      \* age of the last modification of a top-level entry
  \* Uploads.
  up,         \* where a request is in Upload, or its answer
  path,       \* the path it names
  depth,      \* how many directories MkdirAll has gone through
  handle,     \* the inode it has open
  \* The retention handler and main.
  run,        \* where run is
  timer,      \* its timer: "armed", "fired" or, once that is seen, "idle"
  directories,  \* the old top-level entries that cleanup still has to remove
  removing,   \* the one in RemoveAll
  main,
  faults,
  \* Histories.
  birth,      \* age of a top-level entry
  topAge,     \* age of the top-level entry in which an upload has created its file
  overlapped, \* uploads to a path that another one was writing to, be it to an inode
              \* that has been removed since
  stored      \* uploads answered 200, alone on their path, until another one opens it,
              \* whether that succeeds or not

fs == <<dirs, file, content, mtime, birth>>
request == <<up, path, depth, handle, topAge, overlapped, stored>>
sweep == <<run, timer, directories, removing>>
vars == <<fs, request, sweep, main, faults>>

Age == 0..(Retention + 1)
Stages == {"idle", "mkdir", "create", "copy", "ok", "error"}

TypeOK ==
  /\ \A d \in dirs : \E p \in Paths : Len(d) < Len(p) /\ d = SubSeq(p, 1, Len(d))
  /\ file \in [Paths -> Uploads \cup {NoUpload}]
  /\ content \in [Uploads -> SUBSET Uploads]
  /\ mtime \in [Names -> Age] /\ birth \in [Names -> Age]
  /\ up \in [Uploads -> Stages]
  /\ path \in [Uploads -> Paths]
  /\ depth \in [Uploads -> Nat]
  /\ handle \in [Uploads -> Uploads \cup {NoUpload}]
  /\ run \in {"select", "remove", "returned"}
  /\ timer \in {"armed", "fired", "idle"}
  /\ directories \subseteq Names /\ removing \in Names \cup {NoName}
  /\ main \in {"serving", "closing", "stopping", "exited"}
  /\ faults \in 0..MaxFaults
  /\ topAge \in [Uploads -> Age]
  /\ overlapped \subseteq Uploads /\ stored \subseteq Uploads

Exists(q) == q \in dirs \/ (q \in Paths /\ file[q] # NoUpload)
TopLevel == {t \in Names : Exists(<<t>>)}
Running == main # "exited"
Writing == {u \in Uploads : up[u] \in {"mkdir", "create", "copy"}}

\* The state of a process that has just started.
Started ==
  /\ run' = "select" /\ timer' = "armed" /\ directories' = {} /\ removing' = NoName

Init ==
  /\ dirs = {} /\ file = [p \in Paths |-> NoUpload] /\ content = [u \in Uploads |-> {}]
  /\ mtime = [t \in Names |-> 0] /\ birth = [t \in Names |-> 0]
  /\ up = [u \in Uploads |-> "idle"] /\ path \in [Uploads -> Paths]
  /\ depth = [u \in Uploads |-> 0] /\ handle = [u \in Uploads |-> NoUpload]
  /\ run = "select" /\ timer = "armed" /\ directories = {} /\ removing = NoName
  /\ main = "serving" /\ faults = 0
  /\ topAge = [u \in Uploads |-> 0] /\ overlapped = {} /\ stored = {}

Fault == faults < MaxFaults /\ faults' = faults + 1

-----------------------------------------------------------------------------
(* External: the file system and the clock.                                *)

\* A name is added to or removed from the directory of q: a top-level directory
\* is modified by what happens directly below it, and by nothing deeper.
Touched(q) == IF Len(q) <= 2 THEN [mtime EXCEPT ![q[1]] = 0] ELSE mtime
Born(q) == IF Len(q) = 1 THEN [birth EXCEPT ![q[1]] = 0] ELSE birth

Older(a) == IF a > Retention THEN a ELSE a + 1
Tick ==
  /\ mtime' = [t \in Names |-> Older(mtime[t])]
  /\ birth' = [t \in Names |-> Older(birth[t])]
  /\ topAge' = [u \in Uploads |-> Older(topAge[u])]
  /\ UNCHANGED <<dirs, file, content, up, path, depth, handle, overlapped, stored,
                 sweep, main, faults>>

-----------------------------------------------------------------------------
(* Upload and Download.                                                    *)

Answer(u, a) == up' = [up EXCEPT ![u] = a]

\* A request that names a path comes in.
Upload(u) ==
  /\ main = "serving" /\ up[u] = "idle"
  /\ Answer(u, IF Len(path[u]) = 1 THEN "create" ELSE "mkdir")
  /\ UNCHANGED <<fs, path, depth, handle, topAge, overlapped, stored, sweep, main, faults>>

\* One that does not is answered 400.
MissingPath(u) ==
  /\ main = "serving" /\ up[u] = "idle"
  /\ Answer(u, "error")
  /\ UNCHANGED <<fs, path, depth, handle, topAge, overlapped, stored, sweep, main, faults>>

\* MkdirAll goes through the directories of the path, from the top. It fails where
\* there is a file, or where the directory above has just been removed.
MkdirAll(u) ==
  LET q == SubSeq(path[u], 1, depth[u] + 1)
      above == SubSeq(path[u], 1, depth[u])
  IN /\ Running /\ up[u] = "mkdir"
     /\ \/ /\ q \in dirs
           /\ UNCHANGED <<dirs, mtime, birth>>
        \/ /\ ~Exists(q) /\ (above = <<>> \/ above \in dirs)
           /\ dirs' = dirs \cup {q} /\ mtime' = Touched(q) /\ birth' = Born(q)
     /\ depth' = [depth EXCEPT ![u] = @ + 1]
     /\ IF depth[u] + 2 = Len(path[u]) THEN Answer(u, "create") ELSE UNCHANGED up
     /\ UNCHANGED <<file, content, path, handle, topAge, overlapped, stored, sweep, main,
                    faults>>

MkdirFails(u) ==
  LET q == SubSeq(path[u], 1, depth[u] + 1)
      above == SubSeq(path[u], 1, depth[u])
  IN /\ Running /\ up[u] = "mkdir"
     /\ q \notin dirs
     /\ Exists(q) \/ (above # <<>> /\ above \notin dirs)
     /\ Answer(u, "error")
     /\ UNCHANGED <<fs, path, depth, handle, topAge, overlapped, stored, sweep, main, faults>>

\* os.Create makes a file, or empties the one that is there.
CanCreate(p) == p \notin dirs /\ (Len(p) = 1 \/ SubSeq(p, 1, Len(p) - 1) \in dirs)
Create(u) ==
  LET p == path[u]
      inode == IF file[p] = NoUpload THEN u ELSE file[p]
      others == {v \in Uploads \ {u} : path[v] = p /\ up[v] = "copy"}
  IN /\ Running /\ up[u] = "create" /\ CanCreate(p)
     /\ handle' = [handle EXCEPT ![u] = inode]
     /\ content' = [content EXCEPT ![inode] = {}]
     /\ file' = [file EXCEPT ![p] = inode]
     /\ IF file[p] = NoUpload
        THEN mtime' = Touched(p) /\ birth' = Born(p)
        ELSE mtime' = (IF Len(p) = 1 THEN Touched(p) ELSE mtime) /\ UNCHANGED birth
     /\ topAge' = [topAge EXCEPT ![u] = birth'[p[1]]]
     /\ overlapped' = overlapped \cup others \cup (IF others = {} THEN {} ELSE {u})
     /\ stored' = {v \in stored : path[v] # p}
     /\ Answer(u, "copy")
     /\ UNCHANGED <<dirs, path, depth, sweep, main, faults>>

\* The path is that of a directory, or its directory has been removed.
CreateFails(u) ==
  /\ Running /\ up[u] = "create" /\ ~CanCreate(path[u])
  /\ Answer(u, "error")
  /\ UNCHANGED <<fs, path, depth, handle, topAge, overlapped, stored, sweep, main, faults>>

\* io.Copy gets to the end of the body, and the request is answered 200.
Copy(u) ==
  LET p == path[u] IN
  /\ Running /\ up[u] = "copy"
  /\ content' = [content EXCEPT ![handle[u]] = @ \cup {u}]
  /\ mtime' = IF Len(p) = 1 /\ file[p] = handle[u] THEN Touched(p) ELSE mtime
  /\ stored' = IF u \in overlapped THEN stored ELSE stored \cup {u}
  /\ Answer(u, "ok")
  /\ UNCHANGED <<dirs, file, birth, path, depth, handle, topAge, overlapped, sweep, main,
                 faults>>

\* The body breaks off: what has come of it stays.
CopyFails(u) ==
  /\ Running /\ up[u] = "copy" /\ Fault
  /\ Answer(u, "error")
  /\ UNCHANGED <<fs, path, depth, handle, topAge, overlapped, stored, sweep, main>>

\* A file is served as it is at the time. If it is removed after Stat, ServeFile
\* itself answers 404. Stat fails otherwise if there is a file where the path has a
\* directory.
NotADirectory(p) == \E i \in 1..(Len(p) - 1) : SubSeq(p, 1, i) \notin dirs /\ Exists(SubSeq(p, 1, i))
Status(p) ==
  IF p = <<>> THEN 400
  ELSE IF Exists(p) THEN 200
  ELSE IF NotADirectory(p) THEN 500 ELSE 404
Download(p) ==
  [status |-> Status(p),
   body |-> IF Status(p) = 200 /\ p \notin dirs THEN content[file[p]] ELSE {}]

-----------------------------------------------------------------------------
(* The retention handler.                                                  *)

\* The timer of run fires, one second after the start and then every minute.
TimerFires ==
  /\ Running /\ run = "select" /\ timer = "armed"
  /\ timer' = "fired"
  /\ UNCHANGED <<fs, request, run, directories, removing, main, faults>>

\* Mutant: an entry is removed as soon as it has the age of the retention time.
TooOldSoon(t) == mtime[t] >= Retention

TooOld(t) == mtime[t] > Retention

\* cleanup collects the old top-level entries, and removes them thereafter. What
\* comes of an entry in between is not looked at again.
Cleanup ==
  /\ Running /\ run = "select" /\ timer = "fired"
  /\ directories' = {t \in TopLevel : TooOld(t)}
  /\ run' = "remove" /\ timer' = "idle"
  /\ UNCHANGED <<fs, request, removing, main, faults>>

\* The directory cannot be read, and Fatal ends the process, or it dies otherwise.
Crash ==
  /\ Running /\ Fault
  /\ main' = "exited"
  /\ up' = [u \in Uploads |-> IF u \in Writing THEN "error" ELSE up[u]]
  /\ Started
  /\ UNCHANGED <<fs, path, depth, handle, topAge, overlapped, stored>>

\* RemoveAll of the next one begins.
RemoveAll(t) ==
  /\ Running /\ run = "remove" /\ removing = NoName
  /\ t \in directories
  /\ removing' = t
  /\ UNCHANGED <<fs, request, run, timer, directories, main, faults>>

Below(t) == {q \in dirs \cup {p \in Paths : file[p] # NoUpload} : q[1] = t}
Leaf(q) == ~\E r \in Below(q[1]) : Len(r) = Len(q) + 1 /\ SubSeq(r, 1, Len(q)) = q

\* RemoveAll removes a file or an empty directory, in the end the entry itself.
Unlink(q) ==
  /\ Running /\ run = "remove" /\ removing = q[1]
  /\ q \in Below(removing) /\ Leaf(q)
  /\ dirs' = dirs \ {q}
  /\ file' = [p \in Paths |-> IF p = q THEN NoUpload ELSE file[p]]
  /\ mtime' = Touched(q)
  /\ IF Len(q) = 1
     THEN removing' = NoName /\ directories' = directories \ {removing}
     ELSE UNCHANGED <<removing, directories>>
  /\ UNCHANGED <<content, birth, request, run, timer, main, faults>>

\* It fails, for instance when a file has been added to a directory that it has
\* just emptied. The error is logged.
RemoveFails ==
  /\ Running /\ run = "remove" /\ removing # NoName /\ Fault
  /\ removing' = NoName /\ directories' = directories \ {removing}
  /\ UNCHANGED <<fs, request, run, timer, main>>

\* Mutant: the timer is not set again.
RearmNever == UNCHANGED timer

Rearm == timer' = "armed"

CleanupEnds ==
  /\ Running /\ run = "remove" /\ directories = {}
  /\ run' = "select" /\ Rearm
  /\ UNCHANGED <<fs, request, directories, removing, main, faults>>

-----------------------------------------------------------------------------
(* main.                                                                   *)

Signal ==
  /\ main = "serving"
  /\ main' = "closing"
  /\ UNCHANGED <<fs, request, sweep, faults>>

\* Mutant: Close waits for requests without a timeout.
ClosesForever == Writing = {}

\* srv.Close waits for the requests, at most a minute.
Closes == TRUE

Close ==
  /\ main = "closing" /\ Closes
  /\ main' = "stopping"
  /\ UNCHANGED <<fs, request, sweep, faults>>

\* Shutdown sends on quit, which run receives when it is back in select. main
\* returns, under whatever requests there still are.
Shutdown ==
  /\ main = "stopping" /\ run = "select"
  /\ main' = "exited"
  /\ run' = "returned"
  /\ up' = [u \in Uploads |-> IF u \in Writing THEN "error" ELSE up[u]]
  /\ UNCHANGED <<fs, path, depth, handle, topAge, overlapped, stored, timer, directories,
                 removing, faults>>

\* The process is started again over the same directory.
Restart ==
  /\ main = "exited" /\ Fault
  /\ main' = "serving"
  /\ Started
  /\ UNCHANGED <<fs, request>>

-----------------------------------------------------------------------------
Request(u) ==
  \/ Upload(u) \/ MissingPath(u) \/ MkdirAll(u) \/ MkdirFails(u)
  \/ Create(u) \/ CreateFails(u) \/ Copy(u) \/ CopyFails(u)

Entries == UNION {{SubSeq(p, 1, i) : i \in 1..Len(p)} : p \in Paths}

Sweep ==
  \/ Cleanup \/ CleanupEnds \/ RemoveFails
  \/ \E t \in Names : RemoveAll(t)
  \/ \E q \in Entries : Unlink(q)

Next ==
  \/ Tick
  \/ \E u \in Uploads : Request(u)
  \/ TimerFires \/ Sweep
  \/ Crash \/ Signal \/ Close \/ Shutdown \/ Restart

Spec == Init /\ [][Next]_vars

\* Time passes, timers fire and goroutines run. A client need not send its body.
\* A select with two ready cases picks one at random, so that run does not miss
\* quit for ever.
Fairness ==
  /\ WF_vars(Tick) /\ WF_vars(TimerFires) /\ WF_vars(Sweep)
  /\ WF_vars(Close) /\ SF_vars(Shutdown)

FairSpec == Spec /\ Fairness

-----------------------------------------------------------------------------
(* Properties.                                                             *)

\* Retained: what a client has stored, alone on its path, can be downloaded whole
\* until another upload opens it, or the top-level entry above it has existed for
\* longer than Retention:
\* whatever the sweep does to a directory while uploads go on, and over restarts.
\* The age of the file itself is not enough: it goes with its top-level entry.
Retained ==
  \A u \in stored :
    \/ Download(path[u]) = [status |-> 200, body |-> {u}]
    \/ topAge[u] > Retention

\* Expires: when uploads have come to an end, everything is removed in the end, also
\* what failed or stalled uploads, failed removals or a crash have left.
Expires == []<>(main # "serving" \/ TopLevel = {})

\* Stopped: once it has been told to, the process ends, in the middle of a sweep as
\* well as while clients upload.
Stopped == []<>(main \notin {"closing", "stopping"})
=============================================================================
