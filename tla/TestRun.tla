------------------------------ MODULE TestRun -------------------------------
(***************************************************************************)
(* Start and abort of test runs in the Python API, versions v0, v1alpha    *)
(* and v1beta1 (routers/*/router.py, v1beta1/testrun.py), over the         *)
(* validation of the test runner image (Registry), the event repository,   *)
(* etcd (library/environment.py), the message bus and Kubernetes. All of   *)
(* these are external and may fail. Each request that starts a test run    *)
(* stands for that run; its client may abort it once it knows its ID.      *)
(***************************************************************************)
EXTENDS Registry

CONSTANTS
  Apis         \* versions of the API that are looked at

ASSUME TestRunAssumption ==
  /\ Apis \subseteq {"v0", "v1alpha", "v1beta1"}
  /\ MaxRetries \in Nat \ {0} /\ MaxFaults \in Nat

VARIABLES
  api,         \* the version that the clients use
  given,       \* how the artifact is given: by "id" or by "identity"
  artifact,    \* the event repository has it
  st,          \* where a request is: see State
  answer,      \* status code it has been answered, 0 for none
  saved,       \* what is saved under /testrun/<id>/provider in etcd
  started,     \* the TERCC is published, or the TestRun resource exists
  job,         \* the suite runner of the test run: "none", "running" or "gone"
  abort,       \* the request to abort it: "none", "listed", or its status code
  bare,        \* requests whose suite names no test runner
  missed       \* history: their last query did not give an artifact that was there

Provider == <<"log-area", "execution-space", "iut">>
Saved == {Provider[i] : i \in 1..3} \cup {"dataset"}

State == {"new", "suite", "digest", "artifact", "asleep"} \cup Saved \cup {"publish", "sent", "create", "end"}

worldVars == <<api, given, artifact>>
runVars == <<saved, started, job>>
vars == <<imageVars, callVars, faults, worldVars, st, answer, runVars, abort, bare, missed>>

TypeOK ==
  /\ RegistryTypeOK
  /\ api \in Apis /\ given \in {"id", "identity"} /\ artifact \in BOOLEAN
  /\ st \in [Requests -> State]
  /\ answer \in [Requests -> {0, 200, 400, 500, 504}]
  /\ saved \in [Requests -> SUBSET Saved]
  /\ started \in [Requests -> BOOLEAN]
  /\ job \in [Requests -> {"none", "running", "gone"}]
  /\ abort \in [Requests -> {"none", "listed", "200", "404", "500"}]
  /\ bare \subseteq Requests /\ missed \subseteq Requests

Init ==
  /\ RegistryInit
  /\ api \in Apis /\ given \in {"id", "identity"} /\ artifact \in BOOLEAN
  /\ st = [c \in Requests |-> "new"] /\ answer = [c \in Requests |-> 0]
  /\ saved = [c \in Requests |-> {}] /\ started = [c \in Requests |-> FALSE]
  /\ job = [c \in Requests |-> "none"] /\ abort = [c \in Requests |-> "none"]
  /\ bare = {} /\ missed = {}

Goto(c, to) == st' = [st EXCEPT ![c] = to]

\* The request is answered.
Answer(c, code) ==
  /\ Goto(c, "end")
  /\ answer' = [answer EXCEPT ![c] = code]

-----------------------------------------------------------------------------
(* The suite is downloaded and validated.                                  *)

\* v0 answers 400 for all but an answer that is not JSON, v1alpha 500.
DownloadFails(c) ==
  /\ st[c] = "new" /\ Fault
  /\ \E code \in CASE api = "v0" -> {400, 500} [] api = "v1alpha" -> {500} [] OTHER -> {400} :
       Answer(c, code)
  /\ UNCHANGED <<imageVars, callVars, worldVars, runVars, abort, bare, missed>>

Download(c) ==
  /\ st[c] = "new"
  /\ Goto(c, "suite")
  /\ UNCHANGED <<imageVars, callVars, faults, worldVars, answer, runVars, abort, bare, missed>>

\* The suite does not fit its schema.
Invalid(c) ==
  /\ st[c] = "suite"
  /\ Answer(c, 400)
  /\ UNCHANGED <<imageVars, callVars, faults, worldVars, runVars, abort, bare, missed>>

\* One test runner is named, and its image looked up.
ValidateTestRunner(c) ==
  /\ st[c] = "suite"
  /\ Goto(c, "digest") /\ Digest(c)
  /\ UNCHANGED <<imageVars, faults, worldVars, answer, runVars, abort, bare, missed>>

\* The list of suites is empty, or they have no recipes: the loops of validate are
\* passed over, and no image is looked up.
NoTestRunner(c) ==
  /\ st[c] = "suite"
  /\ Goto(c, "artifact") /\ bare' = bare \cup {c}
  /\ UNCHANGED <<imageVars, callVars, faults, worldVars, answer, runVars, abort, missed>>

DockerStep(c) ==
  /\ RegistryStep(c)
  /\ UNCHANGED <<worldVars, st, answer, runVars, abort, bare, missed>>

\* v1beta1 catches every exception, the others only that the image is not found.
AfterDigest(c) ==
  /\ st[c] = "digest" /\ call[c] \in {"done", "raised"}
  /\ IF call[c] = "done" /\ found[c]
     THEN Goto(c, "artifact") /\ UNCHANGED answer
     ELSE Answer(c, IF call[c] = "done" \/ api = "v1beta1" THEN 400 ELSE 500)
  /\ UNCHANGED <<imageVars, callVars, faults, worldVars, runVars, abort, bare, missed>>

\* v1beta1: the number of datasets is not that of suites, which are valid.
Mismatch(c) ==
  /\ api = "v1beta1"
  /\ st[c] = "suite" \/ (st[c] = "digest" /\ call[c] = "done" /\ found[c])
  /\ Answer(c, 400)
  /\ UNCHANGED <<imageVars, callVars, faults, worldVars, runVars, abort, bare, missed>>

-----------------------------------------------------------------------------
(* wait_for_artifact_created.                                              *)

\* The query is by ID if there is one. v1beta1 passes str(artifact_id), which is
\* not None even if no ID was given.
QueryById == given = "id" \/ api = "v1beta1"

\* The identity as an ID matches nothing.
QueryMatches == artifact /\ (QueryById = (given = "id"))

FindArtifact(c) ==
  /\ st[c] = "artifact" /\ QueryMatches
  /\ Goto(c, IF api = "v0" THEN Provider[1] ELSE "create")
  /\ UNCHANGED <<imageVars, callVars, faults, worldVars, answer, runVars, abort, bare, missed>>

\* External: the artifact is published in the event repository.
ArtifactCreated ==
  /\ ~artifact /\ artifact' = TRUE
  /\ UNCHANGED <<imageVars, callVars, faults, api, given, st, answer, runVars,
                 abort, bare, missed>>

\* The query has no result, and the next one is two seconds later.
QueryEmpty(c) ==
  /\ st[c] = "artifact" /\ ~QueryMatches
  /\ Goto(c, "asleep")
  /\ missed' = IF artifact THEN missed \cup {c} ELSE missed \ {c}
  /\ UNCHANGED <<imageVars, callVars, faults, worldVars, answer, runVars, abort, bare>>

QueryAgain(c) ==
  /\ st[c] = "asleep"
  /\ Goto(c, "artifact")
  /\ UNCHANGED <<imageVars, callVars, faults, worldVars, answer, runVars, abort, bare, missed>>

\* Mutant: there is no limit to the wait.
TimeUpNever(c) == FALSE /\ UNCHANGED vars

\* The 30 seconds are over, although the artifact may have come since the last query.
TimeUp(c) ==
  /\ st[c] = "asleep"
  /\ Answer(c, 400)
  /\ UNCHANGED <<imageVars, callVars, faults, worldVars, runVars, abort, bare, missed>>

\* TimeoutError is answered 504, any other exception 400.
QueryFails(c) ==
  /\ st[c] = "artifact" /\ Fault
  /\ \E code \in {400, 504} : Answer(c, code)
  /\ UNCHANGED <<imageVars, callVars, worldVars, runVars, abort, bare, missed>>

-----------------------------------------------------------------------------
(* v0: configure_testrun, and the TERCC.                                   *)

NextKey(key) ==
  CASE key = "log-area" -> "execution-space" [] key = "execution-space" -> "iut"
    [] key = "iut" -> "dataset" [] OTHER -> "publish"

Save(c, keys) == saved' = [saved EXCEPT ![c] = @ \cup keys]

\* Mutant: a provider that does not exist is passed over.
ConfigureLax(c, key) ==
  /\ st[c] = key
  /\ \E keys \in {{}, {key}} : Save(c, keys)
  /\ Goto(c, NextKey(key)) /\ UNCHANGED answer
  /\ UNCHANGED <<imageVars, callVars, faults, worldVars, started, job, abort, bare, missed>>

\* do_configure for one provider, which is registered in etcd or not, and save_json for
\* the dataset: what was saved before an error stays in etcd until its lease ends.
Configure(c, key) ==
  /\ st[c] = key
  /\ \/ Save(c, {key}) /\ Goto(c, NextKey(key)) /\ UNCHANGED answer
     \/ key # "dataset" /\ Answer(c, 400) /\ UNCHANGED saved
  /\ UNCHANGED <<imageVars, callVars, faults, worldVars, started, job, abort, bare, missed>>

\* An exception of the etcd client, or of the publisher before it has sent.
Fails(c) ==
  /\ st[c] \in Saved \cup {"publish", "create"} /\ Fault
  /\ Answer(c, 500)
  /\ UNCHANGED <<imageVars, callVars, worldVars, runVars, abort, bare, missed>>

\* The TERCC goes out.
Publish(c) ==
  /\ st[c] = "publish"
  /\ started' = [started EXCEPT ![c] = TRUE]
  /\ Goto(c, "sent")
  /\ UNCHANGED <<imageVars, callVars, faults, worldVars, answer, saved, job, abort, bare, missed>>

\* Mutant: that the publisher takes too long is answered 504.
PublishedTimeout(c) ==
  /\ st[c] = "sent"
  /\ \/ Answer(c, 200) /\ UNCHANGED faults
     \/ Answer(c, 504) /\ Fault
  /\ UNCHANGED <<imageVars, callVars, worldVars, runVars, abort, bare, missed>>

\* wait_for_unpublished_events and the stop of the publisher; that may fail, too.
Published(c) ==
  /\ st[c] = "sent"
  /\ \/ Answer(c, 200) /\ UNCHANGED faults
     \/ Answer(c, 500) /\ Fault
  /\ UNCHANGED <<imageVars, callVars, worldVars, runVars, abort, bare, missed>>

-----------------------------------------------------------------------------
(* v1alpha and v1beta1: the TestRun resource.                              *)

Created(c) == started' = [started EXCEPT ![c] = TRUE]

\* The resource is created; the answer of Kubernetes may be lost.
Create(c) ==
  /\ st[c] = "create"
  /\ Created(c)
  /\ \/ Answer(c, 200) /\ UNCHANGED faults
     \/ Answer(c, 500) /\ Fault
  /\ UNCHANGED <<imageVars, callVars, worldVars, saved, job, abort, bare, missed>>

-----------------------------------------------------------------------------
(* The suite runner (external), and abort.                                 *)

SuiteRunner(c) ==
  /\ \/ started[c] /\ job[c] = "none" /\ job' = [job EXCEPT ![c] = "running"]
     \/ job[c] = "running" /\ job' = [job EXCEPT ![c] = "gone"]
  /\ UNCHANGED <<imageVars, callVars, faults, worldVars, st, answer, saved, started, abort, bare, missed>>

AbortAnswer(c, code) == abort' = [abort EXCEPT ![c] = code]

\* v0 lists the jobs and looks for that of the suite runner.
AbortList(c) ==
  /\ api = "v0" /\ answer[c] = 200 /\ abort[c] = "none"
  /\ AbortAnswer(c, IF job[c] = "running" THEN "listed" ELSE "404")
  /\ UNCHANGED <<imageVars, callVars, faults, worldVars, st, answer, runVars, bare, missed>>

\* The job is deleted, unless it has gone since.
AbortDelete(c) ==
  /\ abort[c] = "listed"
  /\ AbortAnswer(c, IF job[c] = "running" THEN "200" ELSE "500")
  /\ job' = [job EXCEPT ![c] = "gone"]
  /\ UNCHANGED <<imageVars, callVars, faults, worldVars, st, answer, saved, started, bare, missed>>

\* The resource is deleted, and its job goes with it.
Deleted(c) ==
  /\ started' = [started EXCEPT ![c] = FALSE]
  /\ job' = [job EXCEPT ![c] = "gone"]

\* v1alpha and v1beta1 delete the resource by the ID.
AbortResource(c) ==
  /\ api # "v0" /\ answer[c] = 200 /\ abort[c] = "none"
  /\ AbortAnswer(c, IF started[c] THEN "200" ELSE "404")
  /\ Deleted(c)
  /\ UNCHANGED <<imageVars, callVars, faults, worldVars, st, answer, saved, bare, missed>>

-----------------------------------------------------------------------------
Start(c) ==
  \/ Download(c) \/ DownloadFails(c) \/ Invalid(c) \/ ValidateTestRunner(c) \/ NoTestRunner(c)
  \/ DockerStep(c) \/ AfterDigest(c) \/ Mismatch(c)
  \/ FindArtifact(c) \/ QueryEmpty(c) \/ QueryAgain(c) \/ TimeUp(c) \/ QueryFails(c)
  \/ (\E key \in Saved : Configure(c, key)) \/ Fails(c) \/ Publish(c) \/ Published(c) \/ Create(c)

Registries == (TokenExpires \/ Revoke) /\ UNCHANGED <<worldVars, st, answer, runVars, abort, bare, missed>>

Next ==
  \/ Registries \/ ArtifactCreated
  \/ \E c \in Requests :
       Start(c) \/ SuiteRunner(c) \/ AbortList(c) \/ AbortDelete(c) \/ AbortResource(c)

Spec == Init /\ [][Next]_vars

\* The event loop runs every coroutine, and what it awaits answers or fails. There are
\* as many queries for an artifact as fit into 30 seconds.
FairSpec == Spec /\ \A c \in Requests : WF_vars(Start(c)) /\ SF_vars(TimeUp(c))

-----------------------------------------------------------------------------
\* What is started is complete: the artifact exists, and so does the image of the test
\* runner if the suite names one; and in v0 the providers and the dataset are in etcd
\* before the TERCC makes others read them. A suite that names none is started all the
\* same (validate, start).
StartedComplete ==
  \A c \in Requests : started[c] =>
    /\ artifact /\ (published \/ c \in bare)
    /\ api = "v0" => saved[c] = Saved

\* A request that is rejected (4xx, or 504: retry) has started nothing: to repeat it
\* does not start the test run twice. After 500 that is open.
RejectedNotStarted == \A c \in Requests : answer[c] \in {400, 504} => ~started[c] /\ job[c] = "none"

\* Every request is answered, whatever fails (the limits of _retry and of
\* wait_for_artifact_created).
Answered == \A c \in Requests : []<>(answer[c] # 0)

\* "The artifact can be identified by either its ID or its identity." (v1beta1): a
\* request is not rejected for an artifact that the event repository had when it was
\* asked (wait_for_artifact_created).
ArtifactFound == \A c \in missed : answer[c] # 400
=============================================================================
