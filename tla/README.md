# ETOS API: specifications, model checking and proofs

A verification development of the ETOS API repository: TLA+ modules that model
its services, TLC runs that check them on small instances, and theorems about
them that TLAPS checks for every instance. Paths below are relative to the
repository; line numbers refer to the modelled commit. `PROJECT.json` maps every
definition to the lines it stands for.

## 1. The system

ETOS API is a set of small services around a test run. A client starts a test run
through the Python API; an environment provider asks the Go providers for an
execution space, an IUT and a log area; test runners run as Kubernetes jobs; what
they log is published on RabbitMQ; the client follows it over Server-Sent Events.

| Part | State it keeps | Operations | Talks to |
|---|---|---|---|
| SSE v2alpha (`pkg/sse/v2alpha`, `internal/stream`) | per connection: the handler, the goroutine `subscribe`, a stream consumer, `lastID`; over all: the shutdown context | `GetEvents`, `subscribe`, `resumeOffset`, `handleMessage`, `notifyClose`, `OnShutdown` | RabbitMQ stream, HTTP client |
| SSE v1, v1alpha (`pkg/sse/v1*`) | per connection: a poller and a channel | `GetEvents`, `Subscribe`, `GetFrom` | test runner's log listener, Kubernetes cache |
| Kubernetes cache (`internal/kubernetes`) | jobs and pods with a time stamp each | `getAllJobs`, `getAllPods`, `IsFinished`, `LogListenerIP` | Kubernetes |
| File stream (`internal/stream/file.go`) | a file and a position | `Consume`, `FirstOffset` | SSE v2alpha, in development |
| RabbitMQ publisher (`internal/rabbitmq`) | connection, channel, confirmations, outstanding message, three locks | `Publish`, `tryPublish`, `ensureConnection`, `Close` | RabbitMQ; called by the log hook of every service |
| Execution space provider (`pkg/executionspace`, `internal/executionspace`) | in etcd: one record per checkout and one per executor; in the process: two wait groups | `Start`, `Checkout`, `Status`, `ExecutorStart`, `Stop`, `Checkin`, `Close` | etcd, Kubernetes, event repository |
| IUT provider (`pkg/iut`) | in etcd: the IUTs of a checkout | `Start`, `Status`, `Stop` | etcd |
| Log area (`pkg/logarea`) | files, and a retention goroutine | `Upload`, `Download`, `cleanup` | file system |
| Keys (`pkg/keys`, `internal/authorization`) | signing keys | `CreateNew`, `Middleware` | every authorized service |
| Python API (`python/src/etos_api`) | in etcd: the configuration of a test run; in memory: a token cache | start, abort, validation, image digests | event repository, etcd, Kubernetes, container registries |

Hard behaviours, by part, with what makes the part correct:

* **SSE v2alpha.** A client reconnects with `Last-Event-ID` while its old
  connection still winds down, messages are held back by filters, expire under
  the consumer's feet, and pings move the client's ID although no event was sent.
  Correct: no event the client could get is passed over, none is repeated, a client
  is told to give up only when it must, nobody stays blocked, a shutdown completes.
* **Publisher.** Concurrent goroutines share one connection that any of them may
  tear down; confirmations arrive late or never. Correct: `Publish` returns nil only
  for a message the broker acknowledged; one message is outstanding at a time; a
  cancelled call returns; a broken connection is rebuilt.
* **Execution space provider.** Four requests work on the same records without a
  lock, every step may fail, and the process may be told to stop at any time.
  Correct: what `Status` says is complete; after `Stop` nothing runs; a failed start
  leaves no job; a checkout always ends; the process exits when nothing is under way.
* **Kubernetes cache.** Any number of requests share one list of jobs and one of pods,
  refreshed by whoever finds them too old. Correct: one API call at a time; no caller
  sees an older list than one that was returned before; every call returns.
* **SSE v1 and v1alpha.** A poller counts lines that may break off, and takes the
  decision that the run is finished from a cache that may be five seconds old, that
  reports errors as "not finished" and a missing job as "finished". Correct: no line is
  passed over, the client is told of the end when and only when there is one, and
  nothing outlives its client.
* **Log area.** A sweep judges top-level entries by their modification time and removes
  them later, while clients upload into them. Correct: what was answered 200 stays as
  long as was promised, everything goes in the end, the process stops.
* **Python API.** A start is a sequence of external calls, one of which may fail after
  others have taken effect; `docker.py` shares tokens between requests and retries.
  Correct: what is started is complete, what is rejected is not started, an image that
  exists is found, every request is answered.
* **IUT, keys.** One database call, or one function of the request, per handler.

The hazards are listed one by one, at their lines, in `PROJECT.json`.

## 2. Modules

| Module | Models |
|---|---|
| `EventStream` | SSE v2alpha: the server's side of several connections of one client, with the stream and the client as external parts |
| `ResumableDelivery` | the promise to that client, without servers and connections |
| `EventStreamInv` | the inductive invariant of `EventStream` |
| `EventStreamProofs` | type correctness of `EventStream`, proof that `IInv` is inductive, and the safety theorems that follow |
| `EventStreamRefinement` | proof that `EventStream` implements `ResumableDelivery` |
| `Publisher` | the RabbitMQ publisher for several goroutines, with the AMQP library and the broker as external parts |
| `PublisherProofs` | its inductive invariant, and the proofs |
| `ExecutionSpace` | one checkout of the execution space provider, with etcd, Kubernetes and the client as external parts |
| `ExecutionSpaceProofs` | its inductive invariant, and the proofs |
| `KubeCache` | the cache of jobs and pods: its operations, for use by the next two |
| `CacheReads` | the cache under any number of callers, and what they may rely on |
| `CacheReadsProofs` | proofs about `CacheReads` |
| `LogPoller` | the log streams of SSE v1 and v1alpha, composed with `KubeCache` |
| `LogPollerProofs` | its inductive invariant, and the proofs |
| `ImageReference` | what `docker.py` reads from the name of an image, and what the name means |
| `Registry` | `Docker.digest`: retries, authorization, shared tokens |
| `TestRun` | start and abort of test runs in the three versions of the Python API, composed with `Registry` |
| `TestRunProofs` | proofs about the three |
| `LogArea` | uploads, the retention sweep and the shutdown of the log area, over a file system |
| `LogAreaProofs` | its inductive invariant, and the proofs |
| `MC*` | the instances for TLC |

A `Mutant:` definition before an operator is that operator as a plausible mistake
would have it; each property has one that it refutes. The mutants are not part of
any specification.

### EventStream

`hnd` and `ctx` are the handler `GetEvents` and its context; `sub`, `out`, `outID`
and `lastID` are the goroutine `subscribe` (`sub[c] = "send"` means blocked in a
`select` that sends `out[c]` with ID `outID[c]`); `cons`, `next`, `pos` and `closed`
are the consumer, the value of `Position()` and the channel `closed`. `log` and
`first` are the RabbitMQ stream with its retention. A message is reduced to what
becomes of it: it is sent as an event, withheld by a filter, or invalid.

Each operation is one action, cut where the code blocks or calls the broker:
`SubscribeResume` (first check of `resumeOffset`), `SubscribeConsume` (attach),
`SubscribeRecheck` (second check), then the cases of the `select` loop
(`SubscribePing`, `SubscribeClosed`, `SubscribeReceive`, `SubscribeCtxDone`) and the
deferred calls (`SubscribeExit`). A rendezvous on an unbuffered channel is one action
of both sides. The client is the one the code is written for: it resumes with the
last ID it has seen, reconnects after a broken or aborted response or a retryable
error, and stops after a clean end or any other error. When it leaves a connection, the
server need not learn of it: the connection may be `stalled`. A write to it succeeds while
its buffers have room, and then blocks (`hnd[c] = "blocked"`), since the server sets no
`WriteTimeout` (`internal/server/server.go:47`); a handler that is blocked looks at no
context. `Drop` closes a stalled connection after all, and nothing says when.

The ghosts `gone` and `blind` record offsets that the client was never to receive:
those it claims to have, those expired before it first attached or while its
consumer lagged, and those that expired where the code knowingly does not look.

### Publisher

Each goroutine has a program counter through `Publish`, `ensureConnection`,
`tryPublish` and `awaitConfirmation`; `connMu` and `publishMu` are modelled as locks,
and a wait in the `select` may end by the timeout at any time and any number of times. A generation number stands for the
identity of a connection and its channels, so that a confirmation can be seen to
belong to another generation. The broker confirms, loses the connection, or closes a
channel.

### ExecutionSpace

`space` and `spec` are the records in etcd: the status of the checkout, and for each
executor whether its specification exists and has a `BuildID`. `kube` is the job with
its pod. `checkout`, `status`, `start[e]` and `stop` are the program counters of the
goroutine `Checkout` and of the handlers. A step is one access to the database or to
Kubernetes. Any access may fail, and a write that fails may have been done. The
contexts of requests end at any moment (`WaitEnds`, `StopWatching`), the background
context of the cleanups never.

Abstractions: one checkout, one `Stop` and, per executor, one `ExecutorStart` at a
time; a job and its pod are created together; a request is counted in its wait group
from its first step (`wg.Add` is the handler's first statement). The ghosts `lost`,
`raced`, `unsettled` and `late` record that a Kubernetes call failed or `Wait` panicked
(which needs no failure: it may do so whenever the context of its request ends,
`internal/executionspace/executor/kubernetes.go:181`), that
`ExecutorStart` and `Stop` overlapped, that a status could not be written, and that
`Checkout` had not begun when the provider's wait group was passed.

### KubeCache, CacheReads and LogPoller

Of the cluster the modules see one test run; `stage` says how far its suite runner has
come, and `View` what a list of jobs or pods shows of it. A call of `getAllJobs` or
`getAllPods` is cut at the mutex, the API call and the store (`Lock`, `List`, `Store`);
the check before the mutex is part of the call's first step, the check under it part of
`Lock`. In `CacheReads` callers make any calls in any order, and the histories
`newest` and `floor` remember what has been returned.

`LogPoller` has the handler `GetEvents` (`hnd`) with its calls of `IsFinished` and
`LogListenerIP`, the goroutine `Subscribe` (`sub`, `out`, `counter`, `batch`) and its
client, for v1 or v1alpha; where the two differ, the definition says so. A `batch` is the
set of lines of a response, sent in the order of their numbers. A response may break off
in the middle of a line, which only v1 notices; v1alpha sends the part as the line, and
`cut` has the lines that went out like that, `got` those that arrived whole. A client
comes with no `Last-Event-ID`, one that is no number (`NotParsable`: 0 in v1, 400 in
v1alpha), any of `FirstIDs`, or the last it has seen. One below 1 makes v1 ask from the
first line on, and v1alpha index below 0: `SlicePanics`, and `PollPanics` ends the
process (`service = "crashed"`). The cache is that of
`KubeCache` with one caller; what other requests do to it is `OthersRefresh`.

### ImageReference, Registry and TestRun

A name is a sequence of tokens, so that `tag`, `reference` and `repository` are the
string operations of `docker.py`; `Meaning` is the reference definition, taken from the
parts from which the name was composed, with the namespace `library/` that Docker Hub has
for a path of one part (`Official`), and `WellFormed` says which parts can be told from
the name: the delimiters are where they belong, and a registry has a "." or a ":". `Registry` is `digest` with its `_retry`, from one
`await` to the next, for several requests that share `tokens`. `TestRun` goes through the
handlers: suite, validation, artifact, then in v0 the four keys in etcd and the TERCC, in
v1alpha and v1beta1 the `TestRun` resource; `abort` follows. An error of an external call
becomes the status code that the code answers, and a call that failed may have been done.
The loops of `validate` come to one call of `digest`, or to none: `bare` has the requests
whose suites are none or name no test runner. Whether a provider is registered in etcd is a
choice of each `Configure`. The wait for the artifact alternates between a query and a
sleep (`"asleep"`), from which it may also give up, with an artifact that has come since.

### LogArea

The tree is `dirs` and `file`, which gives the inode at a path; an upload has an inode
open and goes on writing to it when the sweep has unlinked it, as on Linux. `MkdirAll`
goes directory by directory, `RemoveAll` entry by entry. Only top-level entries have a
modification time, since `cleanup` looks at no others; it is that of the direct children,
as in the file system. Time is a clock of ages that stop counting above `Retention`, so it
is not bounded. Histories say of which uploads `Retained` speaks: `overlapped` has those to
a path that another upload was writing to, even if its inode had been unlinked by then, and
an upload leaves `stored` when another one opens its file, which truncates it whether that
upload succeeds or not. The checks of all entries in one `cleanup` are one step: each is followed
by its removal in any case, and what happens to an entry between its own check and the
last one may as well happen after.

## 3. What the runs show

| Run | Bounds | Shows |
|---|---|---|
| `sse_resume` | 1 connection slot, 3 messages, 2 faults, first ID in {-1, 0, 1} | no event is skipped (`NoSkip`) or repeated (`InOrder`) over any number of reconnections; a client gives up only if its place expired (`GivesUpOnlyWhenLost`); `EventStream` implements `ResumableDelivery`; `IInv` holds |
| `sse_liveness` | 2 connections, 1 message, 1 fault | a shutdown ends every handler but one in a write that nobody reads (`Drains`), no goroutine or consumer outlives its client (`NoLeak`), events arrive (`EventuallyDelivered`) |
| `sse_shutdown_abort` | 1 connection, no fault | **violated** `ShutdownAborts`: a stream may end cleanly during a shutdown, after which the client does not reconnect |
| `publisher` | 2 goroutines, 2 generations, 2 faults of every kind, any number of timeouts | `NoFalseAck`, `OneOutstanding`, `NoPanic` outside of an overlap with a connection setup; a cancelled `Publish` returns (`Interruptible`); no deadlock |
| `publisher_overlap` | 2 goroutines, 3 generations, 1 broken connection | **violated** `StrictNoFalseAck`: a message is reported as delivered on the confirmation of another goroutine's message |
| `execspace` | 2 executors, 4 requests, 2 faults | `StatusComplete`, `StopStops`, `CleanedUp`, `CloseWaits`; every checkout ends (`Settles`), every request is answered (`Responds`) |
| `execspace_stop_race` | 1 executor, no fault | **violated** `StrictStopStops`: a `Stop` during an `ExecutorStart` answers 204 and leaves a job running |
| `kube_cache` | 2 callers, 1 fault | one API call at a time (`OneCall`), no way back to an older list (`NeverBack`, `MonotonicReads`, `Ordered`), every call returns (`CallsReturn`) |
| `log_poller` | v1 and v1alpha, 2 lines, events or not, first ID none, unparsable, -1 or 1, 1 fault | no line is passed over (`NoGap`) or goes back (`Ascending`); the end is told truthfully (`ToldTheTruth`) and in the end (`Told`); lines arrive, but for one that v1alpha got in part (`Delivered`); handler and goroutine end (`Released`) |
| `testrun` | 2 requests, 3 versions, 2 images, 2 attempts, 2 faults | an existing image is found unless every attempt fails (`Resilient`); what is started has its artifact, its keys and the image of its test runner, if it names one (`StartedComplete`); `RejectedNotStarted`; every request is answered (`Answered`) |
| `testrun_identity` | 1 request, v1beta1, no fault | **violated** `ArtifactFound`: a start by artifact identity is rejected although the artifact is there |
| `logarea` | 2 uploads, 4 paths over 2 top-level entries, retention of 1 tick, 2 faults | a stored file can be downloaded whole until its top-level entry is older than the retention time (`Retained`); everything is removed in the end (`Expires`); the process stops (`Stopped`) |

The violations are disagreements between a comment or test of the repository and its
code; the findings in `PROJECT.json` quote both.

**Bounds.** Three messages are enough for one that the client has, one that expires
and one that is retained behind it; two faults for a broken connection and a broker
failure on the next one. The client's sequence of connections is not bounded: a
reaped connection is used again. In the publisher two generations allow a confirmation of
an old channel to meet the current one, and the broker is unreachable after them; the
theorems cover any number. In the execution space,
two executors let one step of several fail, and four requests allow a status, a
start, a failed stop and its repetition. In the cache two callers are enough for a race
at the mutex; the theorems cover any number. In the log poller two lines are enough for
one to break off or be no event with one behind it, -1 for an ID that v1 clamps and
v1alpha panics on, and the client reconnects any number of times. In `TestRun` two requests share the tokens, two attempts are one retry, and the
images have no registry and one with a port, two and one path elements, and a tag with a
digest or neither; `NamesAreRead` covers the others. In `LogArea` two uploads meet on one path, on a directory and its file, or
below one top-level entry while the sweep is at another; two faults allow a crash and a
restart. Deadlock is not checked where a client may have left for good, the run be over,
or the process have exited, which is in all models but `Publisher`.

**Fairness.** `EventStream`: weak fairness for every goroutine that can run; strong
fairness for two cases of the `select` in `subscribe`, because a Go `select` picks
uniformly among the ready cases and pings are seconds apart, so a case that is ready
again and again is taken. Publishing, retention, faults, pings and shutdown are not
fair, nor is the end of a stalled connection: what is blocked in a write to it may stay so. `Publisher`: weak fairness for the steps of a goroutine, strong fairness for
those that need a mutex, weak fairness for the timer of a `tryPublish`, which fires after
10 s in any case; none for the broker, which may never confirm anything. `ExecutionSpace`: weak fairness for the goroutine, for the handlers,
whose contexts end by `timeoutHandler`, and for Kubernetes completing a deletion;
none for a pod becoming ready, and none for requests. `Responds` exempts a cleanup
that is `"stuck"`: the code really waits for ever there, because the cleanup has no
deadline and a watch shows only what happens after it begins.

`CacheReads`: strong fairness for the steps of a call, since a Go mutex is handed to
every waiter in the end; the API server answers, if only when the context is done.
`LogPoller`: weak fairness for the age of the cache, the handler and the channel; strong
fairness for the ticker and for the context in the `select` of `Subscribe`, which picks at
random. The suite runner need not go on, and neither need the client stay. `TestRun`: weak
fairness for each coroutine, and strong fairness for the end of the wait for an artifact,
since each round of it takes two of its 30 seconds; the artifact need not appear. `LogArea`: weak fairness for
the clock, the timer, the sweep and the close, which has a timeout; strong fairness for
the receive of `quit` in the `select` of `run`; none for an upload, whose client may stall.

Where the requests or uploads are bounded, "every one is answered" is written as
"again and again none is pending", which is the same there and cheaper to check.

**Ghosts in properties.** Where a property has an exception, the exception names one
situation, and a stricter form without it is violated by a run above, or the situation
is in section 6, or the code makes no such promise.

## 4. What is proved

Every invariant and every action property that a passing run checks is also a theorem,
and so is the refinement: for every value of the constants that satisfies the named
`ASSUME` of its module. These say no more than that bounds are natural numbers, that a
value for "none" is none of the others, which kinds of things there are, and, for
`Images`, that they are `WellFormed` and not `Official`; TLC evaluates them in every run. The bounds on
faults, requests, lines, messages and connections remain constants, of any size.

| Module | Theorems |
|---|---|
| `EventStreamProofs` | `TypeCorrect`, `Invariance` (`IInv`), `NothingSkipped` (`NoSkip`), `OnceInOrder` (`InOrder`), `RefusedOnlyWhenLost` (`GivesUpOnlyWhenLost`) |
| `EventStreamRefinement` | `KeepsItsPromise` (`Implements`) |
| `PublisherProofs` | `TypeCorrect`, `NoMessageLost` (`NoFalseAck`), `NeverTwoOutstanding` (`OneOutstanding`), `NoNilChannel` (`NoPanic`) |
| `ExecutionSpaceProofs` | `TypeCorrect`, `StatusIsComplete` (`StatusComplete`), `CloseReallyWaits` (`CloseWaits`), `StopReallyStops` (`StopStops`), `StartCleansUp` (`CleanedUp`) |
| `CacheReadsProofs` | `TypeCorrect`, `MutualExclusion` (`OneCall`), `ListsOrdered` (`Ordered`), `ReadsMonotone` (`MonotonicReads`), `CacheNeverBack` (`NeverBack`) |
| `LogPollerProofs` | `PollerInvariance`, `EndIsTrue` (`ToldTheTruth`), `NothingPassedOver` (`NoGap`), `IDsAscend` (`Ascending`) |
| `TestRunProofs` | `NamesAreRead`, `ImagesAreFound` (`Resilient`), `WhatIsStartedIsComplete` (`StartedComplete`), `RejectionIsClean` (`RejectedNotStarted`) |
| `LogAreaProofs` | `TypeCorrect`, `StoredStays` (`Retained`) |

Each inductive invariant was checked by TLC on the instances of the runs before it was
proved. A step that touches one connection, caller, request or upload goes through a frame
lemma for all the others.

### The event stream

`EventStreamProofs` has `TypeCorrect`: `Spec => []TypeOK`, for every set of
connections, every set of integers as first `Last-Event-ID`, and all bounds. It is
not a matter of declarations alone: that a message under way has a positive ID is
part of `TypeOK`, because the offsets the client receives are IDs less one.
The assumptions are those of `EventStreamAssumption`. The proof has one step per
action; the actions of `subscribe` that may start a send rest on `StartSendType`,
`StartErrorType` and `GoToType`.

It also proves `Invariance`, `Spec => []IInv`, and from it `NothingSkipped`
(`NoSkip`), `OnceInOrder` (`InOrder`) and `RefusedOnlyWhenLost` (`GivesUpOnlyWhenLost`),
from the same assumptions. None of the three is inductive: they speak of what the
client has, and an event reaches it through a consumer, a channel and a blocked send,
each with its own idea of where it is. `IInv` (module `EventStreamInv`, checked by TLC
in `sse_resume`) says how they fit:

- `Connections`: a connection that is not in use has no goroutine and no consumer, and
  the connected client's handler is serving;
- `Retained`, `Received`: what the client received lies in the stream and below its
  place;
- `SendsSomething`: a blocked send is of some event, and an error carries no ID;
- on the client's own connection, while its context is not done, `Following` (every
  event between the client's place and the consumer's is expired, withheld, invalid,
  or under way in the callback or in `subscribe`), `InStep` (the server's `lastID` is
  the client's place, up to the event under way) and `Refusal` (an error that is not
  to be retried is under way only to a client that lost its place).

The restriction to a context that is not done is essential: after that `subscribe` may
return anywhere and the three say nothing, and then nothing is written to the client
either. The proof first settles `Connections` and `SendsSomething` for all actions
(`NextConnections`); a step that touches neither the client nor its connection is
`Quiet` (`QuietGood`), a step of another connection is dealt with by `ElsewhereGood`;
what remains is one lemma per action on the client's own connection, the longest being
the write (`HandlerWriteGood`, one lemma per kind of event) and the delivery to the
callback (`HandleMessageGood`).

`EventStreamRefinement` shows that `EventStream` implements `ResumableDelivery`, which
knows only the stream and what the client has: every step is one of its steps or none at
all. Steps that change neither are stutters (`Unheard`, `StillFollowing`). A write to the
client is the step that needs `IInv`: by `Following` and `InStep` the event that is
written is the next one that is due, or everything due below it has expired
(`OutsteppedID`). The ghosts `gone` and `blind` excuse nothing that has not expired or
been passed (`Excused`, proved along).

### The publisher

The three properties hold until a setup of the connection overlaps a `tryPublish`
(`overlap`), after which nothing is said, and `publisher_overlap` shows why. The invariant
has a part that holds in any case (`StructInv`): `MutexInv` says where `connMu` and
`publishMu` are held, `SetupInv` that a connection that passes for ready has a channel and
its confirmations, because a setup outdates whoever looked before, and `LibraryInv` that
the library invents no acknowledgement. The rest (`MessageInv`) holds without an overlap:
a channel carries one message (`SingleInv`), `hasOutstanding` or the goroutine about to
set it tells whether it does (`OutstandingInv`), so the drain leaves the channel empty for
the next message (`BodyInv`), and the confirmation that is awaited can be only that of
one's own (`AwaitInv`). `NoFalseAck` follows from the last and `LibraryInv`.

### The execution space

`StatusInv` relates the position of `Status` to what it has listed. `CloseInv` splits
`CloseWaits` at the two wait groups: between `provider.Done` and the exit nothing joins
the first one that is waited for. For jobs, `JobInv` speaks of the executors that are
`Clean`, that is, with no overlap of `ExecutorStart` and `Stop`, no failed call to
Kubernetes and no panic in `Wait`: `StartInv` (a job that runs is known to the database, except from its creation
to the save and during a cleanup), `StopInv` (what `Stop` has passed without an error does
not run, and what it has checked in is gone) and `StoppedInv` (after a 204 there is
nothing left to start). `CleanedUp` and `StopStops` follow.

### The cache

`CacheReadsProofs` proves `TypeCorrect`, `MutualExclusion` (`OneCall`), `ListsOrdered`
(`Ordered`), `ReadsMonotone` (`MonotonicReads`) and the action property `CacheNeverBack`
(`NeverBack`), for every set of callers and any number of failures, from
`CacheReadsAssumption`. The invariant is `TypeOK /\ OneCall /\ Ordered`. `MonotonicReads`
alone is not inductive: what a call will return has to be related to what is stored, that
to what earlier calls returned, and a list on its way into the cache to the one it
replaces. The last needs the mutex: between the API call and the store nobody else may
store, which is `OneCall`. `ViewMonotone` has the fact about the cluster on which all
rests, that the suite runner goes only forward.

### The log streams

`NoGap` is about the lines below the client's last: each is `Passed`, which in v1 means
that the client has it, and in v1alpha that it has it or its cut part. That is inductive
only together with what is under way. `BatchInv` and `GapInv` say that what `Subscribe` has passed or left out of a
response is no line that the client still has to get, which is where a response that
breaks off and a line that is no event have to be distinguished; `CountInv` says that
without such lines and with a start at 1 or above (`CountsAll`) the counter is the number
of the next line, from which `Ascending` follows. For `ToldTheTruth`, `OrderInv` carries the order of the lists from the cache into
the handler, and `SeenInv` says that `Subscribe` runs only when the job has been seen:
otherwise a job that is not there yet would count as finished.

### The Python API

`NamesAreRead` is about `ImageReference` alone: for every well-formed image, of any length,
`Manifest(Name(image)) = Meaning(image)` if and only if the image is not `Official`. A cut at a delimiter gives back the two parts that
were joined by it (`Split`, from the existence of a first and a last position), and each of
`tag`, `reference` and `repository` is one or two such cuts (`TagRead`, which has the port
that is not a tag, `ReferenceRead`, `RepositoryRead`). `ImagesAreFound` adds what happens
in `digest`: `CallInv` (as many transient errors as attempts less one, and a token that has
just been granted is accepted unless it was revoked) and `FoundInv`. The two theorems about
requests rest on `ProgressInv` (how far a request has come says what is there: the artifact,
the keys, and the image unless its suite is `bare`, `Checked`) and
`AnswerInv` (what has been answered says what has been started).

### The log area

`Retained` is inductive with `AreaInv`: the files and directories form a tree (`Tree`), a
sweep is only at top-level entries that are too old (`Sweeping`, with `BirthInv`), an inode
belongs to the path of the upload that created it (`InodeInv`), uploads that share a path
know of it (`AloneInv`), and what is stored, or written by one upload alone, is whole and in
place until its top-level entry is too old (`KeptInv`). An unlinked inode that is written
on is the case that needs `InodeInv`.

### Only model-checked

Liveness needs fairness and ENABLED, which the prover does not handle: `Drains`, `NoLeak`,
`EventuallyDelivered`, `Interruptible`, `Settles`, `Responds`, `CallsReturn`, `Told`,
`Delivered`, `Released`, `Answered`, `Expires` and `Stopped` stay with TLC. The type
invariant of `TestRun` is not proved either: that a literal such as `"latest"` is in
`STRING` is out of the provers' reach, and nothing depends on it; for the same reason
`Piece` names the delimiters although they are strings.

## 5. Plan

Done, in this order: `EventStream` with its abstract specification and proofs,
`Publisher`, `ExecutionSpace`, the Kubernetes cache with its proofs, `LogPoller`,
`TestRun` with `Registry` and `ImageReference`, `LogArea`; then the proofs of the safety
properties of all of them and of the refinement. Left: an abstract specification of
`Publisher` (what a caller may conclude from nil and from an error) and of the execution
space (a checkout as one atomic change), with their refinement proofs.

## 6. Exposed, and not a property

What the models or the reading of the code show, where no run states a property: either
nothing in the repository promises otherwise, or the model excepts it by name.

* If the second check after `Consume` in SSE v2alpha has no answer, events that expired
  before the attach are skipped without an error (`pkg/sse/v2alpha/sse.go:185`). `NoSkip`
  excepts them (`blind`).
* After the broker closes a channel and not the connection, `ensureConnection` does not
  rebuild anything and every `Publish` fails (`internal/rabbitmq/rabbitmq.go:119`).
* If the last save of a checkout fails and the save of the failure does not, the
  goroutine `Checkout` calls `Error` on a nil error and the process ends
  (`internal/executionspace/provider/provider.go:125`; `service = "crashed"` in the model).
  A checkout that fails midway leaves specifications that nothing refers to.
* A client of SSE v2alpha that keeps its connection and stops reading blocks its handler in
  `event.Write` or `Flush` (`pkg/sse/v2alpha/sse.go:326-333`): the server sets no
  `WriteTimeout` (`internal/server/server.go:47`), and while the handler is blocked it looks
  at no context. A shutdown waits for it for a minute. `Drains` excepts such a handler, and
  `NoLeak` is about connections that are not stalled.
* The handlers of v1 and v1alpha write in the same way; there `Released` assumes that the
  write ends.
* v1alpha sends the part of a line that has arrived as the line, under its ID, and never
  again (`pkg/sse/v1alpha/sse.go:144`); `NoGap` and `Delivered` except it (`cut`). Its
  `Subscribe` stays blocked when the handler has returned (`:224`).
* A `Last-Event-ID` of 0 or less makes v1alpha's `Subscribe` slice below 0
  (`pkg/sse/v1alpha/sse.go:116-117`): the goroutine panics, and the process ends with all
  its streams. In v1 the counter then lags behind the lines by as much, and events are
  repeated; so it does after a header that is no number, which counts as 0
  (`pkg/sse/v1/sse.go:247`). `Ascending` excepts both (`CountsAll`).
* In v1 a line of more than 64 KiB ends the log
  (`pkg/sse/v1/sse.go:144`), and a client that misses the shutdown event gets 404 instead
  when it comes back.
* When the context of an `ExecutorStart` ends, the watch in `Wait` is closed as well; if the
  `select` takes that first, the type assertion on the zero event panics, and the job is
  not cleaned up (`internal/executionspace/executor/kubernetes.go:181`). `StopStops` and
  `CleanedUp` except it (`lost`), as they do a job whose creation succeeded with a lost
  answer (`:135`).
* An empty list of suites, or suites without recipes, pass the validation, and the run is
  started with no image checked (`library/validator.py:166-182`); `StartedComplete` excepts
  them (`bare`). `python/tests/test_routers.py:202-204` says "POST requests to ETOS with an
  empty suite definition list shall return 400." and that they "shall not trigger sending a
  TERCC." That test passes because it does not replace the event repository, which cannot
  be reached, and the answer to that is 400 as well.
* An image of Docker Hub that is named by one part is meant as `library/<name>`, as `crane`
  has it, which `library/docker.py:51` names as its model; `repository` (`:235-257`) does
  not add it, and the image is not found unless the registry does so itself. The runs leave
  such images out, and `NamesAreRead` says that they are the only ones.
* A v0 abort before the job exists is answered 404, and the run goes on.
* Two uploads to one path at the same time are both answered 200, and the file has the
  bytes of one over those of the other; `Retained` speaks of uploads that are alone. Files
  are not closed by `Upload`.
* An upload into a directory that `cleanup` has already judged too old is answered 200, and
  goes with the directory, as does one below a directory whose direct children are old
  (`pkg/logarea/v1alpha/retention.go:61-68`). `Retained` speaks of the age of the top-level
  entry, so it excepts both.

## 7. What is not modelled

Configuration, logging setup, metrics and tracing: nothing the program decides depends
on them. The event repository client: stateless queries, whose outcome is a choice of
`waitStart`. The text of events, logs and error messages, and the JSON schema of the
event protocol: a message is valid or not. `etcd.Open` drops the tree prefix, so keys
have none; the modules use one name space per service and do not see it. Deployment
files and documentation. The IUT provider: three handlers without state of their own,
with one database call each. Keys and authorization: functions of one request. The file
stream: a development substitute with one consumer. `GetEvent` and `get_subsuite`, which
only read. The reasons are also in `PROJECT.json`.
