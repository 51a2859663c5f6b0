# A formal model of a2acode

a2acode serves a coding agent (Claude Code, or any agent that speaks ACP) to
A2A callers. This directory holds TLA+ modules of it: the session machinery
between a backend and the executor, the executor's calls that interleave over
shared registries, the three backends, and a server from its command line to
the agent behind it. TLC checks the modules on small instances; TLAPS proves the
theorems of the `*Proofs` modules for every value of the constants. Source paths
below are relative to `src/src/a2acode/`.

## The system

| part | state | operations | interacts by | modelled |
|---|---|---|---|---|
| `backends/session.py` BackendSession | queue, pending futures, runner task, `last_request_id`, `done`, `evicted` | start, emit, request_permission, resolve, drain, abort, close | the driver pushes to the queue; the executor drains, resolves, closes | all of it: SessionOps, BackendSession |
| `executor.py` ClaudeCodeExecutor, calls | `_live`, `_streams`, `_admit_lock`; per call the await it is at | execute, cancel, `_pump`, `_evict_if_full`, `_discard` | called by the A2A library, concurrently; publishes task events | control flow and registries: Executor |
| `executor.py` continuity | `_session_ids` | lookup in execute, `_remember_session` | written by pumps, read by new runs | Continuity |
| `executor.py` response stream | `_Stream`: chunks, pending, sent_first, metadata | the flushes of `_pump` | artifact events | ResponseStream; Executor keeps only what decides its next await |
| `backends/acp.py`, `claude.py`, `echo.py` | the agent process or client, what was received and not yet emitted | `drive`, translation, permission callbacks | `session.emit`, `session.request_permission` | Backends; as arbitrary drivers in Executor |
| `backends/acp.py` files | the file on disk, a read and a write under way | `read_text_file`, `write_text_file`, in threads | the agent's requests | TextFile |
| `backends/diff.py` | none | `file_changes`, `unified_diff` | called by backends | which calls change a file: Backends; not the diff text |
| `cli.py` serve, `backends/__init__.py`, `server.py`, `card.py` | the options, the card and its signature, the installed middleware | serve, make_backend, build_app, build_card, sign_card | once at start-up | Server |
| `auth.py` | the token | one decision per request | ASGI middleware | Server |
| the whole, for one task | all of the above and the caller's message | a caller's messages and decisions | middleware, executor, session, backend, agent | Service |
| `cli.py` call and card, `tracing.py`, `backends/base.py` | none that changes | event printing, spans, dataclasses | | base.py as the item type; the rest not modelled |

What makes it hard: every `await` is a point where another call may run.
`execute()` reads `_live` before three awaits and writes it after them; a session
is closed by an eviction or a cancel while a pump drains it, or while its pump
publishes; a client may disconnect at any await; a permission request spans two
calls of `execute()` with the session parked in between; admission waits under a
lock for somebody else's runner to unwind; an ACP agent's updates, requests and
file accesses arrive beside the driver, and its callbacks and threads outlive it.

What makes each part correct:

* session: a blocked drain waits for a runner that goes on or unwinds (the code
  breaks this for a runner cancelled before its first step); a session that
  waits for a decision has no consumer; a queued request reaches the caller.
* executor: the registry keeps its bound; one consumer per session; nothing is
  reported completed that was not; no runner, session or stream stays behind; a
  registered task that shows a prompt waits for the answer; a call that waits for
  a slot gets one.
* response stream: the caller reads every chunk once and in order, all of them
  before it is asked or told of the completion; the artifact is closed once (the
  code starts both over when a run is dropped during an answer).
* continuity: bounded, forgets no recent context, and gives nobody the
  conversation of another context.
* backends: each acts on its session as a session allows; the agent is told of
  each request what its caller decided about that request, and not more.
* files: a read returns the lines that were asked for.
* server: an option is honoured or refused at start-up; the card agrees with the
  middleware and with the backend, and its signature with the card; without the
  token nothing is started or decided.

## The modules

**PythonNone** declares `None`, once for the modules that are composed.

**Dicts** holds the four operations on the ordered keys of a Python dict that
the executor's maps need.

**SessionOps** describes a BackendSession as a record and every method, and every
step of the runner behind it, as a guard and an effect on that record. `runner`
is the life of the asyncio task: created, running, reported (the Result was
emitted), doomed (cancelled before its first step), cancelling (CancelledError
delivered, cleanup running), and over: returned, raised, cancelled, or
unstarted. The error and the sentinel are queued in the step that ends the
runner, since `runner()` has no await between them. The only payload kept is the
request id of a permission request; an id is random in the code, so a model id
may be used again once nothing holds it.

**BackendSession** runs one such record with its consumer (`at`: off, in
`queue.get()`, or holding a yielded event), and whoever aborts or closes it.

**Executor** is the composition: `call[c]` is an `execute()` or `cancel()` call,
its `pc` the await it is suspended at, and one session record per session.

| pc | await in executor.py | actions leaving it |
|---|---|---|
| open, begin | the Task event 148, start_work 155 | OpenTask, BeginWork |
| admit | the lock 161 (its holder is the head of `lock`) | Admit, MakeRoom |
| evict | close() of a victim 347/352 | FinishEviction |
| answer | start_work 175 | Answer |
| get | queue.get in drain() 202 | TakeQuietly, TakeEvent, TakeError, TakeDone |
| handle | publishing what the drain yielded 206, 210, 216, 223, 225 | HandleText, HandleTool, HandleFile, FlushForRequest, HandlePermission |
| last, complete, fail | 265/269, 273, 240/256 | FlushLast, Complete, Fail |
| closing, cancel | 285, 287 | FinishClose, PublishCanceled |

`LeavePump` is the CancelledError handler of `_pump()`; `Leave` is a
cancellation anywhere else. `StartRun`, `FollowUp` and `CancelTask` are the
library calling in. The steps of the runners are those of SessionOps.

`One(s)` instantiates BackendSession for each session, and `SessionsAreSessions`
says each of them is implemented: `at`, `hand` and `closing` are read off the
calls that work with the session. So what the session module promises under its
assumptions about its consumer (started once, drained after start() or
resolve(), by one consumer) holds of the sessions of the executor.

**Continuity** is the LRU map of conversations with overlapping runs. A lookup
does not move a context in the order, a recorded result does. A run keeps what
it was given to resume and the conversation its backend is in: the one given, or
one that nobody holds (`Open`: `_open_session()` of acp, `resume` of the Claude
client). `last` and `newer` are history.

**ResponseText** says what a caller is promised about the text of a run: chunks
are said, shown in order, all shown before a decision is asked for, and repeated
by the completion. `StartOver` is the one way out: a run that was dropped while its
caller decided may begin a new response.

**ResponseStream** is the `_Stream` of one run and the flushes of `_pump()`: `at` is
the await the task's call is suspended at (`get`, publishing a `text`, `event` or
`ask`ing, the `prompt`, the `last` chunk, the `close` of the artifact, `complete`,
`fail`, start_work() of an `answer`) or the state it left the task in. `stream` holds
the fields of `_Stream`; `artifact` is what the caller has assembled from append and
last_chunk. Texts are values, their concatenation a sequence. `Drop` is tasks/cancel
(279-285) or an eviction (334-352): both pop the stream from `_streams` and leave the
call with the objects it holds, so what changes is `fate`. A pump that ends on the
sentinel fails the task if `fate` is evicted and completes it if it is cancelled. A
run dropped while an answer is in start_work() (175) either raises in resolve(), or
resolves a future that is already cancelled and goes on with the new stream and
artifact that setdefault() makes (189); `earlier` keeps the artifact of the old one.
It follows one run of a task that had no stream before, and one call of it at a
time; the message after a pause whose run was dropped starts another run.

Through the mapping, what is yet to be shown is the text in `pending` and in the
event being handled, and ImplementsText says the code's step order loses and repeats
none of it. Text that was held back is dropped by a failure or a disconnect only. What
was shown is left out of the completion only by that new stream: then the task
completes with what came after (or "(no text output)"), and the first artifact has no
last chunk, against executor.py:187-188 and 267-268. ClosedAtEnd and ImplementsText
state that exception and that there is no other.

**Backends** runs one BackendSession under one of the three drivers: `drv.at` is
the await `drive()` is suspended at, `drv.blocks` and `drv.todo` what it has yet to
translate and to emit, and `perm[r]` what is known of permission request r: the
options offered, the decision, what the agent was told. EchoSpeak, EchoAsk and
EchoAnswered are `EchoBackend.drive`; ClaudeConnect, ClaudeReceive, ClaudeBlock,
ClaudeAsk and ClaudeAnswered `ClaudeBackend.drive` and `can_use_tool`;
AcpInitialized, AcpOpened, AcpResponse `ACPBackend.drive`, and AcpUpdate, AcpAsk,
AcpAnswered the callbacks of `_BridgeClient`. `EventsFromBlock`,
`EventsFromUpdate`, `FileChanges` and `SelectOption` are the pure translations,
over blocks, updates and options reduced to what decides the kind of event.
Emitting several events is cut finer than in the code, where emit() never
suspends: every interleaving of the code is one of the model. A driver changes the
session by the effects of SessionOps, under guards of its own: the await it is at,
and that its runner is inside `drive()` or its cleanup. It borrows none of the guards
of SessionOps (CanEmit, CanAsk, CanReport, CanReturn).

**TextFile** is a file of the workspace as the agent reads and writes it: a read is
an open, a line at a time and a reply, a write a truncation and a store, since both
run in threads of their own.

**Server** is one run of `serve`: the options are refused, or the application is
built with its card, signature and middleware; from then on `Passes(q)` decides
about every request.

**Service** composes these three with the part of the executor that one task goes
through: SendTask and SendAnswer are the caller, NotDelivered the middleware or a
loss, StartSession, FollowUp, Answer and AnswerTooLate `execute()`, Pump the drain
and whoever disconnects or closes, Begun the drivers, Files the file requests and
threads. A decision is a word; `Wordings` says which words a caller uses for what it
means, by the repository's `README.md:149`; `Decision` what `_decision()` makes of
the word; it is applied to `last_request_id`, and `given[r]` is what the caller meant
about request r. The actions that start, ask, report, answer and return write the
session under the guards of executor.py and the drivers, and ImplementsSession says
the result is a BackendSession: nobody starts it twice or drains it while another
does, no request takes an id that is still held, there is one Result.

### What the model assumes

* asyncio runs one task at a time, and only an await that suspends lets another
  run. The queue is unbounded, so emit() never suspends.
* Publishing an event is the last thing an updater await does; updater calls
  do not raise. What they hand to the A2A library is external.
* The library takes no message and no cancel for a task in a terminal state, and
  runs one `execute()` per task at a time; `"overlap"` in Faults drops the
  latter. A message for a running task is refused by the guard at 171 and
  changes nothing, so it is no step.
* A call that is cancelled while it waits in close() stays where it is: close()
  suppresses the CancelledError (session.py:126).
* `_discard()` at the end of a pump never waits: the sentinel was taken, and it
  is queued in the last step of the runner.
* A driver is any driver: it emits, asks, returns and raises when it likes, and
  ignores a cancellation for as long as it likes unless fairness is assumed. With
  Flows = 1 (echo) it is silent while it waits for a decision; with more
  (callbacks of the ACP connection and of the Claude client) other flows go on,
  after the Result and during a cancellation too. Such a driver may return
  while a callback of it still waits for its decision.
* An ACP agent that uses files does nothing else in the run, and the middleware is
  installed by `build_app`, whose token is stripped (cli.py:163); a
  BearerAuthMiddleware built directly with a padded token would match nobody.
* A message either reaches execute() or its caller is told that it
  failed; `"retry"` in Faults lets callers say a decision again, after it got through,
  and about an earlier request too.
* In Service every request of a driver waits in a flow of its own beside the
  driver's (Cardinality(ReqId) < Flows): a callback never waits for another.
* `Allows` are the words that `README.md:149` lists for approval; `Undocumented` those
  that `_decision()` takes for approval besides.

## The runs

| run | instance | shows |
|---|---|---|
| session | 3 request ids, 2 flows, 2 queued events, fair | TypeOK, NoHungDrain, ParkedIsQuiescent, CancelReleasesDrain, RequestSurfaces |
| session_unstarted | 1 request id, 1 flow | SentinelReachesDrain fails |
| executor | 2 tasks, 2 calls, 3 sessions, 1 slot, no faults | BoundedRegistry, NoFalseCompletion, NoOrphanRunner, NoLeakedSession, NoLeakedStream, PromptAnswerable |
| executor_faults | 2 tasks, 2 calls, 2 sessions, 1 slot, all faults | TypeOK, SingleConsumer, SessionsAreSessions |
| executor_live | 2 tasks, 2 calls, 2 sessions, 1 slot, cancel, fair | NoLeakedStream, PromptAnswerable, AdmissionEventually, CancelledPumpEnds |
| executor_cancel | cancel | NoFalseCompletion fails |
| executor_evict_prompt | 1 slot | EvictedPumpReports fails |
| executor_disconnect | disconnect | NoLeakedSession fails |
| response_stream | 2 texts, 4 chunks, 2 metadata values, drops anywhere | TypeOK, ClosedAtEnd, NothingAfterLast, ImplementsText |
| continuity | 4 contexts, 5 conversations, 3 entries, 2 runs | TypeOK, BoundedContinuity, KeptWhileRecent, ConversationOfOneContext |
| service | 25 command lines, 6 kinds of request, 2 permission requests, 2 things received; loss, retry, close, disconnect | ReadIsWindow, CardTellsAccess, CardIsHonest, OptionsHonoured, OutcomeMatchesDecision, ImplementsSession, OnlyCallersAct |
| service_words | the same with one undocumented word, no faults | OutcomeMatchesDecision fails |

Bounds. SessionId is the number of sessions a behaviour may start, none twice; a
third one lets the evicting call be evicted in its turn and lets a second call
wait for the lock behind the first. Two calls suffice for a race, since every
shared object is handed over between two calls at a time: the drained session and
its closer, the parked session's follow-up and its evictor, the lock's holder and
its waiter. QueueBound limits the events a driver queues ahead, not requests,
results and sentinels: one is enough for an event to be yielded while another is
queued. Three contexts beyond the one looked at fill a continuity map of three.
Four chunks let one pass in each turn around two pauses and the artifact be made,
appended to and closed in different turns; two texts tell an order from its reverse.
In `executor_live` two sessions are enough for a wait: one is evicted for the other.
In `service`, Flows = 3 lets both requests of a driver wait at once while a third
flow goes on, so that the second is asked, surfaced or answered around the decision
about the first; two things received let an event or a request follow another; the
files have one and three lines, and the window numbers lie below, in and past them.
A request id is not used twice there. Each other option of a command line is at its
default where one is varied, except that the key, the key id and the token, which
meet in the card, are varied together; the credentials of a request to the
task endpoints are none, the right one, the right token under another scheme, and the
right one behind a wrong one; the two sets of options an ACP agent offers are one with
a choice and one in which nothing allows. Five conversations let an agent open one of its own while the map is full and
another run is in one that was forgotten.
Sessions and tasks come to an end and the pool of sessions is finite, so the
executor's, the session's, the response stream's and the service's runs may stop: deadlock is not checked there.
Symmetry is used only where no liveness property is checked; the request ids of
`service` are compared for equality only.

The properties of `executor` are checked without faults, and two of them in
`executor_live` with cancels. That is not a convenience: all but BoundedRegistry fail under some
fault, and the failing runs above show the three ways that contradict the code's own
words. Which fault breaks which is settled by the theorems of ExecutorPromisesProofs
(below): NoFalseCompletion fails under "cancel" only, NoOrphanRunner under "overlap"
only, NoLeakedSession under "disconnect" only, NoLeakedStream under "cancel" or
"overlap" only, PromptAnswerable under "overlap" only. The model shows more, without a
run of its own:

* With `"overlap"`, two first messages of one task both find no session
  (executor.py:144), both start one, and the second registration (165) orphans
  the first runner: NoOrphanRunner fails.
* A parked session is evicted first (341). Its caller's decision then finds no
  session and becomes the prompt of a new run, where executor.py:12-13 says it
  resumes the same session. PromptAnswerable speaks of registered tasks for that
  reason.
* A follow-up that is answered while its session is being evicted makes a new
  stream (189), and the evicted branch (251-261) returns without removing it.
  NoLeakedStream excepts the streams of evicted sessions for that reason, and claims
  that nothing else leaves one behind.
* With cancels and drivers of several flows, a cancelled driver may still have a
  request on the queue: the pump publishes it, with the session unregistered, after
  making the stream anew, and that stream stays. `executor_live` has one flow.
* The continuity map counts only results as use: a context that was resumed
  (159) a moment ago may be the next one evicted, where the comment at 48-49
  says least recently used.
* A decision carries no request id (311). A "yes" that is said again may be applied to
  the next request of the task, about which its caller did not decide: the
  repository's `README.md:151` says the caller, not the server, holds the decision. So
  of a caller that repeats itself, OutcomeMatchesDecision claims only that what the
  agent hears is a decision it gave.

Some behaviours of the code are in the model as they are, and no property speaks
of them. An empty `--auth-token-file` or `--sign-key` counts as absent
(cli.py:150, 161). The card of the echo backend says "Claude Code" (server.py:48),
which CardIsHonest excepts. Two overlapping runs of one context resume the same
conversation. What a loaded conversation replays reaches the caller as events of
this turn. A read that overlaps a write may return part of the file or nothing, and
a write may land after its session was closed.

### Fairness

FairSpec of BackendSession assumes the runner's cancellation is carried out
(Unwind, DropUnstarted) and that the consumer takes what is queued and goes on.
FairSpec of Executor assumes that every call that can run does (`Advance`) and
that a cancelled runner unwinds (`Stop`). The event loop runs every ready task,
so weak fairness of each call is justified; that a cancelled driver unwinds is
what asyncio cancellation asks of coroutines, and a driver that never does holds
up admission in the code just as in the model. Nothing is assumed of drivers that
were not cancelled, of callers, or of disconnects.

## The proofs

* **SessionLemmas**: what each operator of SessionOps preserves (types, the rest
  of the queue, the fields it leaves alone), and the invariant of one session,
  `Sound(x, a, h)`, of its object x, the await a of its consumer and the item h in
  the consumer's hand. `DrainSound` says that each pending request of a live runner
  is on the queue, in hand, or was the one surfaced; that a runner that is over
  left its sentinel on the queue unless it was taken; and that a session being
  drained is neither parked nor done. `QueueSound` says that errors and sentinels
  come from a runner that is over, the error first, and that no request is queued
  twice or again after it was surfaced. Each operator keeps Sound, by one lemma.
* **BackendSessionProofs**: `TypeCorrect`; `DrainIsNeverHung` (NoHungDrain) and
  `ParkedMeansQuiescent`. NoHungDrain names its exception: a drain on a runner that
  was cancelled before its first step does hang, as session_unstarted shows. NoHungDrain is not inductive: that the runner does not
  wait for an unasked decision depends on where each pending request is. The
  invariant `DrainInvariant` is the types and Sound.
* **ExecutorProofs**, for all faults and all numbers of tasks, sessions, calls,
  slots and events: `TypeCorrect`; `CapacityIsKept` (BoundedRegistry: only Admit
  adds an entry, and only when the registry has room in that same step);
  `OneConsumer` (SingleConsumer, through `ConsumerInvariant`: a session being
  drained is neither parked nor unstarted, so neither Answer nor Admit can start
  a second drain of it).
* **ExecutorPromisesProofs**, for all numbers of tasks, sessions, calls, slots and
  events. Under every fault: `EverySessionIsASession` (SessionsAreSessions: every
  step of the executor is a step of BackendSession, or none, for each session) and
  `DrainsWaitForRunners`, which carries NoHungDrain and ParkedIsQuiescent over to each of
  them. Neither is inductive, since one call's step must fit what another call is
  doing with the same session: a close() must find nobody else closing, the end of a
  pump must unregister its own session and not another's. `ProtocolInv` adds to the
  types and ConsumerInvariant that each session is Sound and `RegistryInv`: a
  registered session was started, is not marked evicted and has one key; one that
  is being closed is unregistered and closed by one call; one that is pumped is
  registered for no other task; what is published last follows the end of the drain.
  The proof of a step is cut in two: what an action does to each session
  (`OneStep`, and `Tended` for its marks and requests), one lemma per group of
  actions, and what a BackendSession step keeps whoever takes it (`SoundGoes`, `AgesGoes`).
  The other promises each assume away the faults that break them:
  * `CompletedMeansReturned` (NoFalseCompletion, unless tasks are cancelled):
    `CompletionInv` says that a stopped runner belongs to a session that is marked
    evicted, or that nobody drains or will answer, so a drain that ends unmarked
    ended on the sentinel of a driver that returned.
  * `RunsAreRegistered` (NoOrphanRunner, unless messages overlap): `OwnerInv` says
    that one call executes a task, that a starting one finds the task unregistered
    until it registers it, and that a pump's task is registered with its session or
    not at all; so whoever unregisters a session stops its runner, or it is over.
  * `NothingStaysBehind` (NoLeakedSession, unless callers disconnect): `AskingInv`,
    which holds under every fault, says that of a registered session every request
    queued or in hand is still pending, so a pump that returns for a request leaves
    its session parked.
  * `PromptsCanBeAnswered` (PromptAnswerable, unless messages overlap): `PromptInv`
    adds that a task which starts a run shows no prompt, so a prompt that is shown is
    the one its pump left when it parked the session.
  * `StreamsAreBounded` (NoLeakedStream, unless tasks are cancelled or messages
    overlap): `KeptInv` says that a pump's session is registered or was evicted, and
    that a task with a stream is registered or has the stream of an evicted session.
    All of these are for every capacity, whatever is evicted.

* **ResponseStreamProofs**, for all texts and metadata and any number of chunks:
  `TypeCorrect`, `ClosedWhenComplete`, `LastIsLast` and `Implements` (the refinement:
  Text!Init from Init, and every step a step of ResponseText or a stutter). All rest
  on `StreamInvariant`: outside a flush what was collected is what the caller has,
  during one it is that and the chunk held back; the artifact is there once
  something was sent; nothing is held back in a pause; the artifact is closed at
  the end only; and an earlier artifact is open only in a run that was dropped, after
  its last event only in one that was cancelled.
* **ContinuityProofs**, for all sets of contexts, conversations and runs:
  `TypeCorrect`, `StaysBounded`, `RecentIsKept` and `ConversationsKeptApart`.
  KeptWhileRecent is not inductive: that what is dropped was overtaken by enough
  others follows from the order of the map, so the invariant also says that the
  order has no key twice and agrees with `newer`; an entry that goes has
  _MAX_CONTEXTS different keys behind it, all of them in its `newer` (an injection
  of 1.._MAX_CONTEXTS into it). ConversationOfOneContext is inductive by itself
  over the types: a run resumes what its own context has, and a new conversation
  is one that nobody holds.
* **TextFileProofs**: the invariant of a read under way (what it has is the part
  of the window up to the line it is at, unless a write intervened), for all
  files, lines and limits.
* **ServiceProofs** first shows what a server that is up has of its options
  (`ServerInv`), and that this determines who passes. Then `ServiceRunsASession`:
  each step of the service is a step of BackendSession or leaves it as it was. Since
  the drivers and the executor do not borrow BackendSession's guards, this needs an
  invariant: the first message finds no runner and an answering one finds the session
  parked and hence undrained (`DrainInvariant`, carried along the refinement); an id
  that the session still uses was asked (`UsedWasAsked`), so an unasked one is
  fresh; a pending request occupies a flow, of which there is one more (`FlowLeft`);
  and the driver that reports has not reported (`ReportsOnce`). Through it
  `ServiceNeverHangs` carries DrainIsNeverHung over. `ReadsTheWindow`,
  `CardTellsTheCaller`, `CardStaysHonest`, `EveryOptionHonoured` follow from the
  invariants above, and `NobodyElseActs` since a message gets past `Passes` with
  the token only. `AgentsHearTheDecision` (OutcomeMatchesDecision) assumes only
  `Undocumented = {}`; callers may repeat themselves. It is not inductive: the message
  under way carries a request and a word, the decision goes to `last_request_id`.
  `DecisionInv` says that of a caller that never repeated itself, an undecided request
  which a message answers is the one surfaced last, or about to be when the message
  was sent during its publication, and what was decided is what it gave; of any
  other, that each verdict is one that was given; and that a verdict is there before
  it is told.

Assumptions: those named `...Assumption` in the modules (None is no id, text,
number or conversation; finitely many tasks and contexts; at least one slot and
one entry; the shapes of messages, updates, options and requests; more flows than
request ids in Service; denying words are not among the allowing ones), evaluated by TLC in every run of a module that extends
them. Every invariant and every action property that a run finds to hold is
also proved. Only model-checked: liveness (CancelReleasesDrain, RequestSurfaces,
AdmissionEventually, CancelledPumpEnds), which is out of TLAPS's reach here.
That the faults named above do break the promises is shown by TLC.

## Mutants

An operator whose comment says "mutant" is a wrong version of the definition
that follows it (a dropped guard, a missing reset, an off-by-one). Every
checked property is violated under one of them; PROJECT.json lists the pairs.

## Not modelled

Prompt building, wording of messages, the contents of metadata, the card's skills
and interfaces, tracing, the client commands and the text of diffs: pure data or
I/O. Cost and usage of a run. The containment of paths in the workspace
(`_safe_path`), missing files and text that does not decode: a read or write that
is refused changes nothing. Push notifications, the A2A library, the ACP and Claude
clients and asyncio are external and appear as what the code relies on; in
particular, in which order an ACP connection dispatches a late update and the
response of the prompt. That a task's `execute()` may still start a run after
`cancel()` published CANCELED (cancel finds no session while the call waits for
admission) is in the behaviours of Executor, but no property speaks of it, as what
may follow a terminal state is the library's to say.

## Plan

1. ResponseStream and Executor under one task id with several runs: what a run that
   starts with the stream of a dropped one shows its caller.
2. Service with the executor's registry: decisions of several tasks under
   evictions, where a caller's answer may meet a session that is gone.
3. The client commands: which of the server's events a caller is shown, as an
   operator over the events ResponseStream publishes.
