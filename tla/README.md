# TLA+ models of MCP State Twin

This directory holds the formal models of the program in this repository: TLA+
modules translated from the Go source, TLC configurations that check them on
small instances, and theorems proved with TLAPS. `PROJECT.json` is the index:
components, runs, hazards, findings, theorems, and for every definition the
lines of code it stands for. Paths below are relative to the repository.

    tlc -workers 2 -config MCStoreSteps.cfg MCTwinStore.tla     # one run
    tlapm EpisodeCoordinatorProofs.tla                          # proofs of a module

## 1. The system and its parts

`statetwin` serves a deterministic "twin" of a stateful tool API over MCP, runs
Scenarios and agents against it, and records what happened as Evidence. It is a
single Go binary; durable state lives in SQLite files that are opened with one
connection each, and in directories whose documents are published by hard links.

| Part | State it keeps | Operations | Talks to | What is hard | Status |
|---|---|---|---|---|---|
| Episode lifecycle (`internal/episode/episode.go`) | in memory: status and transitions of one run | `Lifecycle.Transition`, `run` | Journal, through an observer | error edges are missing from two states | modelled, without the Scenario |
| Episode Journal (`journal.go`) | tables `episodes`, `episode_events` | `RunPersistent`, `createOrLoad`, `appendTransition`, `complete`, `fail`, `Get`, `loadEvents` | runner, coordinator | one executor per ID, crash between transitions, cancelled context while recording a failure | modelled, without the migration |
| Remote coordinator (`remote.go`, `coordinator.go`) | tables `episode_tasks`, `episode_attempts` | `Submit`, `ClaimProfile`, `Heartbeat`, `CompleteClaim`, `FailClaim`, `CancelTask`, `RecoverExpired`, `GetTask` | Journal; workers and clients by HTTP | leases against a clock, fencing, retries of unknown effects, late and repeated requests, torn reads | modelled |
| Episode worker (`CoordinatorClient` in `coordinator.go`, `runEpisodeWorker` in `cmd/statetwin/main.go`) | the claim it holds, a heartbeat goroutine | poll, run, heartbeat, report | coordinator | heartbeat against the end of the run, lost requests and replies, reports under a cancelled context | modelled |
| Twin store (`internal/store/store.go`) | tables `branches`, `snapshots`, `fault_plans`, `audit`, `fault_events` | initialize, snapshot, fork, reset, call, faults, clock | data plane, control plane | rollbacks with several kinds of rows, reset and fork of derived state, stale reads of control clients | modelled, without the migration |
| Branch scheduler (`scheduler.go`, `internal/world`) | events inside a branch's `state_json` | schedule, cancel, `advanceClockToNext`, `ScheduledEventPage`, `NextDueBatch` | store, engine callback | order and exactly-once over partial instants, two step budgets, pages and previews read from different states | modelled |
| Plugin sessions (`internal/plugin`, `agenteval/plugin_world.go`) | a session directory, a `PluginWorld`, the sealed report | `Serve`, `controlLoop`, `seal`, `store.publish`, `PluginWorld.Call`, `Finish`, `Inspect`, `Recover` | MCP host by stdio, control host by a private socket | three goroutines that may each end the session, calls in flight against the barrier, failing publications, an `Inspect` in between | modelled, without `Prepare` and `Recover` |
| Recorded trials (`internal/agenteval`: episode, live, environment, evidence, storage, inspect) with host and API client (`internal/agenthost`, `agentapi`) | an evidence directory, a private world, budgets, receipts | `RecordMock`, `RecordLive`, `Session`, `Client.Do`, `InspectDirectory` | provider, store | effects and requests nobody knows about, budgets that run out anywhere, publication against crashes and readers | modelled; documents are data |
| Suites (`suite*.go`, `compare.go`, `suite_archive.go`) | an output directory with a write allowance, archives | `RunSuite`, `InspectSuite`, `ExportSuite`, `ImportSuite` | recorded trials | which of several causes ends a suite, copies of what is still written | modelled, without `PrepareSuite` |
| Projects and campaigns (`project_run.go`, `case_run.go`, `campaign.go` and inspectors) | nested directories and reports | `RunProject`, `RunCampaign`, `InspectProject`, `InspectCampaign` | suites | nested deadlines, failure at every stage | modelled; one suite is one step |
| Baseline experiments (`internal/baseline`) | frozen inputs, a lease, shard directories | `Freeze`, `RunShard`, `Assess`, `Decide` | trials, plugin sessions | a lease that outlives its holder, evidence inspected twice, statistics at their boundaries | modelled; bootstrap by its range |
| Pack registry (`internal/baselinepack/revision.go`) | a directory per revision: `revision.json` and one marker per event | `Register`, `Transition`, `RevisionState` | command line, directories | files created exclusively and written in place by processes without a lock | modelled; pack validation not |
| State engine (`internal/engine`), Scenario, evaluator | none: state in, state out | validate, apply operations | the store's `ApplyCall` callback | all-or-nothing | a Boolean outcome in the models above |
| MCP server (`internal/server`) | admission gate, sessions | data-plane calls, control handlers | store, engine | a handler reads a branch before it changes it | control's `advanceClock` in the store's model |
| Branch diff, agent plans, retention preview and views, bundles, TwinSpec, canonical JSON, YAML, tasks, governor, host compatibility, release policy, doc checks, logging, provider smoke test, command line, Inspect adapter | none | parse, hash, format, compare, wire | - | data without control | not modelled (section 6) |

Interactions that carry the risk: every Journal method shares **one** pooled
connection (`SetMaxOpenConns(1)`, `journal.go:85`), so methods serialise and a
method that asks for a second connection waits for itself; the local runner
and the coordinator share the `episodes` table; the coordinator and its workers
share only leases, fences and wall clocks; the scheduler calls back into the
engine in the middle of a store transaction; control clients act on branch
states they read in an earlier request; and everything under `internal/plugin`,
`internal/agenteval` and `internal/baseline` is judged by readers that look at
directories file by file, possibly while another process writes them.

## 2. Modules

| Module | Models | Uses |
|---|---|---|
| `EpisodeLifecycle` | transition table, event rows, the lifecycle of a verdict | - |
| `EpisodeJournal` | the Journal and `RunPersistent` of several concurrent runners | extends `EpisodeLifecycle` |
| `EpisodeCoordinator` | tasks, attempts, leases and fences on the same Journal | extends `EpisodeJournal` |
| `EpisodePromise` | abstract: what the coordinator promises of an Episode | instance in `EpisodeCoordinator` |
| `TaskInspection` | `GetTask`, a reader of four separate queries | extends `EpisodeCoordinator` |
| `EpisodeWorker` | worker processes with their heartbeat goroutines | extends `EpisodeCoordinator` |
| `TwinStore` | the store's rows, its operations and the scheduler step | - |
| `SchedulePromise` | abstract: what the scheduler promises of a branch | instance in `TwinStore` |
| `EventPages` | a client that lists events page by page or previews a batch | extends `TwinStore` |
| `PluginSession` | one plugin session and an `Inspect` of its directory | - |
| `AgentTrial` | one recorded trial, scripted or live, and an `InspectDirectory` | - |
| `SuiteRun` | one suite of trials, and what `InspectSuite` makes of it | - |
| `SuiteArchive` | export and import beside the running suite | extends `SuiteRun` |
| `CampaignRun` | a campaign of projects, and an inspector of one of them | - |
| `BaselineRun` | runners of the shards of one experiment, and its assessment | - |
| `PackRegistry` | processes at the directory of one pack revision | - |
| `TwinStoreProofs`, `PluginSessionProofs`, `AgentTrialProofs`, `SuiteArchiveProofs`, `CampaignProofs`, `BaselineProofs`, `PackRegistryProofs` | theorems | extend the module they are named for (`EventPages` is that of `TwinStoreProofs`, `CampaignRun` and `BaselineRun` are those of `CampaignProofs` and `BaselineProofs`), and `TLAPS` |
| `EpisodeCoordinatorProofs` | theorems | extends `TaskInspection` and `EpisodeWorker`, and `TLAPS` |
| `MC*` | instances and symmetry for TLC | one of the above |

Operators whose comment begins with `Fault:` are not part of the model. Each is
one definition changed the way a plausible bug would change it; substituted for
the original, it makes the property it is listed with (`mutants` in
`PROJECT.json`) fail, so that property is known to depend on that code.

### 2.1 EpisodeJournal

`episode` and `events` are the two tables, keyed by Episode ID; `run[r]` is what
one `RunPersistent` call has in memory: the Episode it executes, the status of
its `Lifecycle` and the last sequence it persisted. Each Journal method is a
transaction on the single connection, so each is one action: `Reserve`, `Reuse`
and `Refuse` are the outcomes of `createOrLoad` and what follows it, `Advance`
is the observer with `appendTransition`, `Complete` is `complete`, `RunError` is
an error with `fail`. `Abandon` stands for three things that look alike in the
tables: the process dies; `complete` fails, after which nothing is recorded
(`journal.go:291`); `fail` fails because the context it is given is already
cancelled. A transaction that writes takes the time it stores as an argument, and by
itself the Journal assumes nothing of it. Of `updated_at` a row keeps what
`scanRecord` (`journal.go:492`) asks of it: `timely`, whether it is no earlier than
`created_at`. `answered` and `written` are history variables: the digests handed to
callers, and the time last written into an Episode's rows, which is `Disordered`
once a transaction wrote an earlier one than a transaction before it.
Left out: bundle decoding and the Scenario (one nondeterministic verdict or
error), `error_class`, envelope contents beyond digest and verdict, `SQLITE_BUSY`
from a second process.

### 2.2 EpisodeCoordinator

`task` and `attempt` are the tables; attempt IDs are random and never reused, so
an attempt is its number. Where a method is *not* atomic the model says so:

* `ClaimProfile` and `Heartbeat` read the wall clock before `BeginTx` waits for
  the connection: `ReadClock(w, kind)`, then `Claim` or `Heartbeat` with the
  stale `call[w].now`. `RecoverExpired`, `CompleteClaim` and `FailClaim` read it
  inside the transaction. (`Refused` is also a caller that left in between.)
* `Submit` is two transactions: `SubmitReserve`, then `SubmitTask`,
  `SubmitRepeat` or `SubmitBlock`, the path where `Journal.Get` asks for a
  second connection while the open transaction keeps the only one; `conn` holds
  the submitter that waits for itself, and no transaction can begin until its
  context is cancelled (`SubmitAbandon`) or the process restarts.
* `recoverExpiredTx` is not an action of its own: it runs inside `Claim` and
  `RecoverExpired` (`Expired`, `Fate`, `RecoveredTask`, `RecoveredAttempt`,
  `CancelParents`), and a claim that finds nothing rolls it back.

Any request may arrive at any time, late, repeated, with any attempt and fence;
that covers lost requests (never sent), lost replies (never acted upon) and
duplicates. Timestamps are ticks of a clock with `TicksPerSecond` per second.
`StampLE` is the text order of RFC3339Nano, not the order of time: the format drops
trailing zeros, and since `Z` sorts after digits and point, a time with fewer decimals
comes after every time it is a cut of (".51Z" before ".5Z", both before "Z"). `Places`
are the decimal places, in ticks, at which a text may end; the whole second is one.
With two ticks to the second, or one, it is the only one, and the instances are exact;
the theorems are about any set of places. `clock` is the
latest time the system clock has shown; a call may read any of `Readings`, up to
`MaxSetBack` ticks earlier, since the clock may be set back. Tasks and attempts have
`created` and `timely` as the records of the Journal do, so that `TaskTimesAdmitted`
is what `validateTaskRecord` demands of them (`remote.go:600`, `remote.go:612`), and
`TaskAdmitted` the rest. HTTP framing, the bearer token and bundle bytes are left out.

### 2.3 TaskInspection

`GetTask` reads the task, the Episode, its events and the attempts in four
queries without a transaction; between them any coordinator action may commit.
`Judged` is `validateTaskRecord`, timestamps included, on what the four returned; an
Episode whose timestamps are out of order ends the reading (`Journal.Get`).

### 2.4 EpisodeWorker

`worker[w]` is one process of `runEpisodeWorker`: where its loop stands, the
claim it executes, the result of the run, and its heartbeat goroutine. `SendClaim`
lets the request reach the coordinator, `Granted` / `NotGranted` is its reply or
the loss of either; a grant whose caller is gone stays in the tables. `Beat`,
`BeatAnswered` and `BeatGone` are the goroutine, which cancels the run when it is
told of a cancellation or told nothing; `RunEnds`, then `ReportEvidence`,
`ReportFailure` or `NotReported`: an error ends the process. `Signal` is SIGTERM,
which cancels the context the report is sent under (`main.go:694`); `Dies` and
`CoordinatorRestarts` may come at any time. Worker IDs are unique; `past` records
the attempts a process went on from without an error.

### 2.5 TwinStore

`branch`, `snapshot`, `plans`, `audit` and `fired` are the five tables. The
modelled world of a branch is the number of effects committed to it: enough to
tell an effect that was lost, doubled or kept by a suppressed call. Every
operation is one transaction and one action, except `advanceClockToNext`, which
calls the engine for each selected action inside its transaction. That step is
`BeginStep`, then `StepSignal` / `StepAction` in the total order, then
`CommitStep` or `AbortStep`, on the working copy `tx`; the single connection
(`store.go:150`) keeps all other operations out meanwhile. `AbortStep` is every
reason for a rollback: callback error, result or state budget, invalid result,
cancelled request, an action of another TwinSpec. `Start` is a server start: it
may come at any moment, discards an open step and may load another TwinSpec.
`view` is what a control client read in an earlier request; `AdvanceBy` is
`POST /v1/clock/advance` with `by`, whose target comes from that read and which
may or may not carry `expectedHeadVersion`. `origin` is a history variable.
`StateAdmitted` is what `scanBranch` and `scanSnapshot` demand of the stored
JSON before any operation can use a branch. Left out: tool inputs and results,
digests, JSON budgets (an `AbortStep`), the `control_audit` rows, the ID
tie-break of the order (creation sequences of a branch differ), and
`expectedHeadVersion` on the other operations, where it only removes behaviour.
The kind of an event is fixed by its ID (`Actions`).

`SchedulePromise` is the scheduler as SPEC-0007 has it: a timetable per branch, a
log of who made its calls, and one atomic `Step` that executes the longest allowed
batch, the actions each once and in their turn. It knows no transaction, working
copy, rollback or restart, and says which batch is right (`Selected`) rather than
how to count it. `KeepsSchedule` is the claim that the rows of `TwinStore`
implement it: `TableOf` maps a row or a snapshot to its timetable, `CallLogs` the
audit rows since the branch's last reset to their callers, and `tx` is hidden, so
that `BeginStep`, the callbacks, `AbortStep` and `Start` are `Unseen` and
`CommitStep` is the `Step`.

### 2.6 PluginSession

One session of `Serve` from the claim of its output directory to its return.
`serve` and `control` are the two goroutines, each with its place in the code;
`sealing` is the holder of `sealMu` with its place in `seal`; `world` is the
`PluginWorld` with its admission flag and its terminal; `call[c]` a tool call
(waiting for the mutex, running, run); `disk` the directory, name by name;
`reader` an `Inspect` in another process, which lists the directory and then
reads the two documents. `host` is a history variable.

The steps are the points where the goroutines can meet. `PluginWorld.Call` is
`Enter` (admission and a slot), `Dispatch` (the second look, under the mutex)
and `Step` (the dispatcher's answer); `seal` is `Acquire` (with the barrier of
`Finish`), `Finish` (under the mutex, which a running call holds; the replay of
the frozen terminal included), then `Create`, `Link` and `Remove` for each of
the two documents, each of which may fail. `Serve` seals after a failed seal of
the control loop, over whatever that left. `Cancel` is the deadline, a signal or
the frame limit, `Expire` the shorter deadline of the world, `CloseWire` the end
of the MCP streams, `Crash` the death of the process.

A terminal is what tells sessions apart: its execution, whether it carries a
failure code, cleanup, the number of attempts, the recorded calls, and whether
the evaluator's outcome is the expected one. Replay is deterministic, so
`Verifiable` says when `VerifyPluginTerminal` succeeds; that it may run out of
its time budget in `Serve` is `inTime`. The host outcomes `cancelled` and
`failed` are treated alike by the code and are one value. Left out: sizes,
redaction (a write that fails), the identity checks of task and bundle, MCP
requests other than tool calls, the authentication of the control host (one
that fails is `ControlNotReady`), and an `os.Remove` that removes and reports
an error.

### 2.7 AgentTrial

`RecordMock` and `RecordLive` step by step (`pc`): the directory is claimed
(`Claim`, `WriteClaim`), a world provisioned, then turns of the host session:
`Request` charges the Governor, `ScriptedReply` or `Exchange`, `Post` and
`ProviderAnswer` produce a response, `Accept` judges it, `AdmitTool`, `CallTool`
and `Deliver` run each tool call it asked for; `Settle`, `Stage`, `WriteClosure`,
`CloseWorld`, `WritePending` and `Publish` end it. `client` and `receipts` are the
API client with its allowance; `effects` is what the private world committed,
known to nobody when an answer is lost. `Crash` may come anywhere and
`RecordAgain` starts a second recording on the same directory; the clock may be
set back once. `InspectList` and `InspectRead` are one `InspectDirectory` beside
it. `VerifyError` is the evidence verifier. Left out: documents beyond the fields
its rules compare, disclosure scans (a run that fails), the grading (a
nondeterministic evaluation that the replay repeats), token counting.

### 2.8 SuiteRun and SuiteArchive

`RunSuite` writes into one directory under one allowance (`left`): `ClaimOutput`,
`WritePlan`, then for each planned trial `RunTrial`, whose end is any of those a
recorded trial has, `Settle` (which of several causes names the failure),
`CompareTrials`, `WriteReport`, `Link`, `Unlink`. `State` is `InspectSuite` of the
directory at rest. `SuiteArchive` adds one `ExportSuite` (list, freeze, write,
link, unlink) and one `ImportSuite` (claim, plan, trials, report, link, unlink),
each of which may fail, be cancelled or die between steps, while the suite still
runs. An export that listed the directory before the report was staged refuses
it (it is not terminal), and such listings are not explored. Left out: the bytes
of archives, path checks, `PrepareSuite`.

### 2.9 CampaignRun

`RunCampaign` runs its projects in order, each under a child deadline (`late`)
of the caller's context (`ended`). A project claims its directory, runs its
oracle cases, writes the quality document, runs the suite if the cases qualify,
has it assessed and publishes its report; the campaign copies the row, totals
and publishes. `ProjectStep` collects the steps of the running project.
`ListProject` and `ReadProject` are an inspector that may run beside it all;
`Verification` is its judgment. A suite, its assessment and one case are
nondeterministic outcomes here.

### 2.10 BaselineRun

`FreezeInputs` and `FreezePlan` write the frozen directory. Each of several
processes may `Start` any shard: `Claim` takes the lease of the whole experiment
(`shard.lock`, O_EXCL) and the exclusive shard directory, `WritePlans`, then per
trial `NextTrial`, `Execute`, `InspectTrial`, finally `Report`, `WriteReport` and
`Unlock`; any write may fail, `Die` may come anywhere, and nobody removes another's
lease. `Report` creates `shard-report.json` exclusively, `WriteReport` fills it in
place (`plan.go:224`), and between the two, or after a death, whoever reads it finds
it torn.
`executed` counts executions, `session` is what each left. `Begin`, `ReadSeal`,
`InspectAgain`, `GiveUp` and `Judge` are one `Assess` in progress: it inspects
every trial again and compares with the recorded rows; `Decide` applies floors,
per-trial and per-entry rules and the noninferiority interval, whose bootstrap
is abstracted to its range (it may answer anything between the extremes of what
it resamples). Families are not modelled apart: each entry of the plan is one of its
own.

### 2.11 EventPages

Extends the store with one control client that reads over several requests.
`FirstPage` and `NextPage` are `ScheduledEventPage` without and with a cursor:
each reads the branch once (`Readable`: the connection is free) and `listing`
keeps the pages, the cursor of the last one (head, scheduler digest, filter and
the last event) and, as history, the state of the first. A cursor that no longer
matches ends the listing. `NextDueBatch` is the preview of a step, with
`BatchSize` counting as `scheduledBatchSize` does; the step itself,
`advanceClockToNext`, counts on its own in `TwinStore`. Left out: the encoding of
a cursor. The digest is the scheduler state itself.

### 2.12 PackRegistry

The directory of one revision (`dirs`, `file`, `marker`) and processes at it, each
system call a step: `Look` and `Make` along the path, `ReadOld`, `StatOld`,
`OpenNew` and `WriteNew` are `Register`; `ReadRevision`, `StatRevoked`,
`OpenMarker` and `WriteMarker` are `Transition`; `LookAtMarker` in the order of
`LookForState` is `RevisionState`. A file that is created but not wholly written
is `Torn` and cannot be decoded. `Die` may come anywhere. `told` and `floor` are
history: what any process was told, and what was told when a call began. The
content of a revision is a model value; its validation is left out.

## 3. Runs

Names are those of `PROJECT.json`. Deadlock is checked in the Episode, store and
registry runs. It is not in `plugin_session`, `agent_trial`, `suite_archive`,
`campaign` and `baseline`: what they model comes to an end.

| Run | Question | Bounds, and why they suffice |
|---|---|---|
| `coordinator_safety` | Are leases, fences, retries and cancellation safe under stale clocks, a clock set back, late and repeated requests, restarts? Does the coordinator implement `EpisodePromise`? What may `validateTaskRecord` refuse of a stored task? (1.5 million states) | 1 Episode, 1 local runner, 2 workers, 2 attempts, leases of 2 ticks, 2 ticks per second, 3 instants, readings up to 1 tick back: an old and a new holder coexist, a lease that begins inside a second ends inside one, and time runs forward in one order of the transactions and back in another |
| `shared_journal` | Two local runners, two requests and a remote worker on one Journal: records refused for nothing but timestamps of a time that ran backwards, one executor, one Evidence, task and Episode end together, terminal records final. What can a torn `GetTask` answer meanwhile? (634 000) | 2 instants and readings up to 1 tick back: leases of 1 tick that end, and times that run forward and back; 1 Episode, for which everybody competes; 2 runners and 2 requests for races and conflicts; 2 digests, one passing, for repeats with other Evidence; 2 attempts and 1 reader: a retry, or a completion, between two of its queries. That one transaction recovers one Episode and grants another rests on the theorems of 4.1, which are about any number of them |
| `worker_fleet` | Is an attempt executed once, reported or never passed over, cancelled in time, and taken back when its process is gone? (278 500, with liveness, no symmetry) | 2 processes, 1 Episode, 2 attempts, leases of 1 tick, 3 instants: the first holder may be alive, dead or deaf while the second retries |
| `store_steps` | Through schedules, steps, calls, faults, resets, rollbacks and restarts: each event once and in order; audit, world and fault counters agree; every stored state readable. Is what a branch sees of a step one atomic step of `SchedulePromise`? (910 700) | 1 branch that changes and 1 that is only forked from it; 2 actions and a signal, 2 priorities, 3 instants, a budget of 2 events and as many actions per step, so that a step runs several actions and an instant may take several steps (`store_branches` has a budget of actions that ends a batch before that of events does); 1 fault plan (that `takeFault` picks the right one of several rests on the theorem `FaultsAreAccounted`); 5 changes of the branch |
| `store_branches` | Two TwinSpecs over one database: is the head a sound compare-and-swap, and can an action meet another TwinSpec? Are pages of different requests the schedule of one state, and does a step do what the preview of it said? (664 500) | 2 branches, 2 TwinSpecs, 1 snapshot, 1 client; 2 actions, pages of 1 event, all events or the pending ones, so that two pages are a listing; a budget of 1 action per step, so that it ends a batch; 2 changes per branch besides creation |
| `plugin_session` | In whichever order stream, control host, deadline, calls and failing publications end a session: is the evidence complete, is there one report, does `Serve` return? What may a concurrent `Inspect` accept? (424 000, with liveness) | 2 calls that may run together, a budget of 1 attempt, 2 control requests (a finish and its repetition, or a status before it), every failure of every file operation, 1 `Inspect` |
| `pack_registry` | Is a registration final, and does a state only advance? (522 000) | 3 processes, so that a third sees two others pass each other; 2 definitions; a path of 2 parts |
| `agent_trial` | Does a completed recording verify, is every POST accounted for, what may an inspection beside it accept, and what may the caller be told? (1.4 million) | both lanes; batches of one call, two calls, and one call ID twice; scripts of 3 responses, 3 model requests, 2 tool attempts, 4 messages of content, 2 POSTs, a window of 2 instants: each budget can run out first; 2 recordings on one directory |
| `suite_archive` | Is the report one its own reader accepts, is the gate earned, are archives and copies whole or nothing? (749 000) | 2 pairs; 3 evaluations (a success that failed one policy check, one that failed two, one that could not be scored); allowances 7, 9 and 23 with metadata at 1 and evidence at 2: one that ends among the trials, one at the report, one that suffices; 2 runs of the suite |
| `campaign` | Do runner, caller and inspector agree whatever ends first, and is "passed" earned? (135 000) | 2 projects, 1 oracle check, a manifest that covers the check and one that does not, failures at every stage |
| `baseline` | Is a trial executed once, an abandoned lease final, and a pass whole? Does an assessment ever turn against a complete report? (4.7 million) | 2 processes; 2 entries of one domain, one of them required, 1 repeat: 4 trials, 3 to a shard, so that the boundary falls inside a pair; 2 grades (a success, a failure with a policy violation); floor 50, margin 20; sample minima lowered so that an interval is estimated |
| `submit_self_wait` (violation) | "Submit creates an immutable remotely claimable task" (`remote.go:119`) | 1 submitter. Repeated after its first transaction alone committed, or made for an Episode of a local run, it waits for the connection it holds and stops every other call |

`MaxTime`, `MaxClock`, `MaxHead` (per branch) and `MaxRuns` bound the models, not
the code; the other bounds are the code's limits (`internal/limits`) or its budgets
made small.
Symmetry is used only for safety: Episodes, workers, runners and requests in the
coordinator; actions, signals, branches and TwinSpecs in the store; runners of the
baseline; processes and definitions of the registry. Fault plan IDs are numbers,
because `takeFault` takes the lowest.

### Fairness

`FleetFairness` assumes of the environment that time passes, that every live
process, its HTTP handler and its heartbeat goroutine are scheduled, that a
process which ended is started again by a supervisor outside the program, and
(strong fairness) that again and again some process sends a claim and some claim
reaches its transaction. A run need not end by itself; one whose context is
cancelled does, because the Scenario runner checks it. `RecoverExpired` is *not*
fair: no worker or timer calls it, so `OverdueWorkRetried` rests on the recovery
inside claims that grant something.

`LiveSessionSpec` assumes that goroutines run, that file operations and the
dispatcher answer (they have timeouts), that the deadline comes (`WithTimeout`,
`session.go:83`), that a cancelled context closes the streams (`session.go:152`)
and the control connection (`session.go:306`), whose reads then fail, and that a
control host that does not appear times out. Nothing is assumed of the hosts:
they need not call, finish or hang up.

The store, the recorded trials, suites, campaigns, baselines and the
registry state no fairness: they promise safety only, since nothing in the code
repeats a step by itself.

### Names of properties

A reader's and a writer's side of one document are one property of a run:
`SuiteReportHolds` is `ReportIsAccepted` (the report is one its reader accepts) and
`GateIsEarned`; `CampaignReportHolds` is `ConsistentIsEarned` and
`RunnerAgreesWithInspector`; `InspectionHolds` is `PositiveIsSealed` and
`AcknowledgedIsPublished`. `WorkersKeepTheirClaims` is `OneProcessPerAttempt` and
`MovesOnWhenOver`. `EveryRecordAdmitted` and `EveryTaskAdmitted` are about two
kinds of refusal: for Evidence, lifecycle, accounting and lineage there is none; for
timestamps there is none as long as time ran forward for the Episode
(`TimeRanForward`), which the code does not guarantee (section 5). `NothingOverdue` of the store is in no run: the theorem
`NothingIsOverdue` covers it for every value of the constants.

## 4. What is proved

Eight modules hold proofs; between them they state every safety property of
the passing runs, invariant or action property or implementation of an abstract
specification. Each theorem holds for every value of the constants
that satisfies the named assumption of the module it is about; TLC evaluates
those assumptions in every run. All follow one pattern: an inductive invariant,
which TLC checked on a small instance before it was proved, one lemma per action,
`PTL` at the end. The assumptions say which constants are numbers and that values
which stand for different things differ; none bounds the size of an instance.

### 4.1 EpisodeCoordinatorProofs

**The Journal.** Of `JournalSpec`, under `JournalAssumption` (`None` is no ID or digest; `Passed`
is a set of digests; the record limit is a number): `RecordsAreAdmitted`,
`RunnersMirrorJournal`, `AnswersAlwaysAgree`, `TerminalStaysFinal`, and the type
invariant `JournalTypeCorrect`, which no run needs to check any more.

`EveryRecordAdmitted` is not inductive: that `Complete` may append the verdict to
the event chain depends on the record being at exactly the depth of its status,
which depends on nobody else having moved it, which depends on a runner being
the only one of its Episode. (Timestamps are apart, in `DatesOK`: a record for which
time ran forward is `timely` and was created no later than it was last written.) So
`JournalInv` adds: each running record is at the
depth of its status with the events of a straight course (`RunsAtDepth`,
`UnfinishedOnCourse`); no two runners share an Episode (`RunsExclusive`); a runner
that has finished has left its Evidence (`FinishedHasEvidence`); an absent record
has no events (`AbsentHasNothing`).

**The coordinator.** Of `Spec`, the coordinator beside local runners on one Journal, under
`JournalAssumption` and `CoordinatorAssumption`, for any number of Episodes,
workers, attempts and ticks, any `Places` and any `MaxSetBack`:

| Theorem | Says |
|---|---|
| `TasksAlwaysAdmitted` | `validateTaskRecord` refuses no task for accounting, lineage or identity, and timestamps only where a transaction wrote an earlier time into the Episode than one before it |
| `RetriesAlwaysSafe` | an attempt beyond the first exists only of work that may be repeated |
| `LeasesExclude` | two attempts of a task have unexpired leases at most within the second in which one of them ends, at whatever decimal places their text may be cut |
| `ParentsAlwaysAgree` | task and Episode end together, with the same Evidence |
| `AttemptsStayEnded`, `RemoteTerminalIsFinal` | what is terminal never changes |
| `RemoteJournalInvariant` | the Journal's theorems hold of the composition: its records are refused by their readers only for timestamps where time ran backwards, compare-and-swaps are never lost, answers agree |
| `PromiseIsKept` | `Spec` implements `EpisodePromise` under the mapping of `Promise` |

The inductive invariant `CoordInv` consists of the types; `CallsPast` (no call
carries a time the clock has not shown); `JournalInv`; `ParentsOK` (what a task
says of its Episode, that nobody else runs that Episode, and what a reservation
without a task looks like); and, per Episode, `RowsOK`: which attempts are
`Unstarted`, how they are `Numbered`, what a `Held` task and a `Closed` one have
in the attempt table, what an earlier attempt `Tried`, and `Past`. `Past` is the part
that makes lease exclusion inductive under stale clocks: an attempt is `EXPIRED`
only from the second in which its lease ends, whatever a delayed claim or a clock
set back has read, so its worker outlives the grant to another by less than a
second. `TaskDatesOK` is a second
invariant, of timestamps: where time ran forward, task and attempts were created and
updated no later than the last write, and in that order (`InOrder`); it needs no more
of a step than the rows it writes and their time (`DatedStep`). There is one
lemma per kind of write (`SubmitRows`, `GrantRows`, `BeatRows`, `EndRows`,
`CompleteRows`, `CancelRows`), and `EndThenGrant` for a claim whose transaction
recovers and grants the same Episode. `CoordKeeps`, what no step of the coordinator
undoes, gives the action properties and the steps of `EpisodePromise`, and is what
the proofs about its users build on.

**A torn `GetTask`.** Of `InspectionSpec`, for any number of readers between
whose queries the coordinator does anything: `TornReadsAgree` (`AcceptedViewHolds`).
An accepted view need not have been true at any moment: a task read as QUEUED, then
cancelled, is accepted with its CANCELLED Episode. What the property keeps is that
Evidence is shown only of a completed task and as the Journal holds it, and a LEASED
task only with that attempt unreported and its Episode not begun.
`InspectionInv` adds to `CoordInv` what a row read earlier has to do with the row
of now: the task was in a state that the present one can follow (`Once`), and the
Episode, read after the task, lies between the two (`EpisodeBetween`). Without the
order of the queries the property is false; `EpisodeBetween` is where it enters.

**Worker processes.** Of `FleetSpec`, under `WorkerAssumption` (Evidence is not
one of the marks `none`, `failed`, `foreign`), for any number of processes:
`ClaimsAreKept` (`WorkersKeepTheirClaims`), which is `NoAttemptRunsTwice`
(`OneProcessPerAttempt`) and `GoesOnWhenOver` (`MovesOnWhenOver`). A process is right about its claim only through the tables, so
`FleetInv` adds to `CoordInv`: what a process executes was granted to it under the
fence it holds (`HoldsGranted`), to it alone (`HoldsApart`), what it went on from is
over (`PastOver`), a heartbeat on its way is one of a process that does not yet hold
another claim (`BeatsNamed`), and no process reports or beats out of turn
(`RunsOrderly`). A grant
makes a new attempt number, which no process can hold already because what is held
is in the attempt table.

### 4.2 TwinStoreProofs

Of `StoreSpec`, under `StoreAssumption` (actions are events, fault plan IDs are
positive numbers, `None` is no ID or digest, the limits are positive):
`HeadsIdentifyStates`, `NothingIsOverdue`, `PendingActionsAreBound`, the action
property `FaultsAreAccounted` on `takeFault`, and `StoreTypeCorrect`.

What `StoreInv` adds is what a step in progress and a client's old read have to
do with the tables:

* `RowsSound`: what the scheduler invariants say of a branch row holds of every
  snapshot too, since `Fork` and `Reset` copy snapshots into rows;
* `StepSound`: the working copy of a step in progress has the head and the
  TwinSpec of the row it was copied from, is sound itself, and its fault plans
  and fault events are accounted for against the tables (`Accounted`), so that
  the commit of a whole step is one accounted change and a rollback none;
* `ViewsSound`: no branch is at a head below one that was read of it. With it
  `HeadIdentifiesState` is inductive: every write moves the head past them all.

`RowUpdate` and `StepUpdate` say once what every operation on a row and every
move of the working copy has to show. That `takeFault` never selects an exhausted
plan rests on `LeastExists`, and that an advance to the earliest instant passes
nobody on `EarliestInstant`.

A second invariant, `HistoryInv`, is about what the rows say of the operations that
made them. It gives `StatesAreAdmitted` (`EveryStateAdmitted`: the next read accepts
every state that is ever stored), `WorldIsExplained` (`AuditExplainsWorld`) and
`ScheduleIsItsHistory` (`ScheduleIsHistory`). To `StoreInv` it adds

* `Lived`, of every branch row, every snapshot and the working copy: the state is
  admitted, what was processed was due, and all of it comes before all that is
  pending. Forks and resets carry it from row to row;
* `Audited`: the last `calls` rows of the branch's audit are its calls in order,
  each that names an event gave that event its outcome, and the effects among them
  are the world. `AuditedNext` is the one step that adds a row (a call of a client
  or an action of the scheduler), with its fault and its effect;
* `Prefix`: what a step has still to process are due events that come before all
  other pending ones. This is the order of `tx.todo`: an action processed next is
  the least of it (`PrefixShrinks`), and the batch is a prefix to begin with
  because the selection takes whole instants in the total order (`BatchIsPrefix`),
  also when the action budget cuts an instant.

**The promise.** `ScheduleIsKept` is `StoreSpec => KeepsSchedule`, step by step: one
lemma per operation (`ScheduleMaps`, `CancelMaps`, `AdvanceMaps`, `CallMaps`,
`SaveMaps`, `LoadMaps`, `StartMaps`), and `CommitMaps` for the step. By the time a
step commits, its batch was selected many steps ago, so a third invariant,
`StepInv` (`StepsFollowTheirBatch`), keeps what it has to know. It adds to
`HistoryInv` that

* the working copy is the row it was begun from, which nobody has changed since,
  less those events of the batch that are processed, which all come before those
  left to do (`Processing`);
* the rows the step has added to the audit are the actions among the processed
  events, each once and in their order (`Logged`);
* a branch or a snapshot that does not exist is empty (`RowsAbsent`), so that
  copying it is loading a blank timetable.

`BatchIsLongest` shows that the batch, which the code finds by counting, is the longest
one within the budgets; `LoggedRows` and `RowsInTurn` turn the rows of the audit into
the calls of the abstract step.

**Reading clients.** Of `PageSpec`, the store beside a client that lists or
previews, under `StoreAssumption` and `PageAssumption` (page sizes are positive; the
filters are statuses or `None`, which is not a status):

| Theorem | Says |
|---|---|
| `PagesAreOneListing` | `ListingIsOneState`: pages put together are the schedule of one state |
| `PreviewsComeTrue` | `PreviewComesTrue`: a step over a previewed head does what the preview said |

A page is a cut of a sorted sequence. `ScheduledEvents` is *a* sorted sequence of
the listed events, as `sort.Slice` promises no more; `ListedOnce` shows that in an
admitted state there is one and that it has each event once (its
place is the number of events up to it), and `SameListing` that it depends on the scheduler alone,
which is why a cursor bound to its digest can go on in a state whose world has
changed. `ListingInv` (`PagesKeepInvariant`) says that what a client has is the front
of that sequence (`Fronts`), and where its cursor stands. `PreviewInv`
(`PreviewsAreCurrent`) says that a preview speaks of the branch's batch as long as the
branch has the head that was read; it rests on heads that only rise (`HeadMoves`) and on
`BatchCounted`, that the count of `scheduledBatchSize` along the sorted events and the
selection of `advanceClockToNext` find the same batch.

### 4.3 PluginSessionProofs

Of `SessionSpec`, under `SessionAssumption` (the budgets are numbers; `None` is no
call, no report and none of the marks of control), for any number of calls, slots,
attempts and control requests:

| Theorem | Says |
|---|---|
| `NoCallIsLost` | `EvidenceIsComplete`: the published terminal is what `Finish` froze, and records every call that reached the dispatcher |
| `HostIsToldTheTruth` | `ToldIsPublished`: what the control host was told is the one report on disk, without residue, and `Serve` succeeds only after it was told |
| `OnlySealedIsAccepted` | `AcceptedWasSealed`: nothing is accepted before an authenticated host asked, and an `Inspect` at any moment accepts only what `Serve` verified |
| `VerdictStands` | `AcceptedIsFinal`: what was accepted once, nothing changes |

`SessionInv` has one part per thing the goroutines share. `WorldOK` is the barrier:
a finished world has nobody in it. `ControlOK` and `ServeOK` say that a goroutine
which ends well has a report that was told. `SealOK` is the invariant of the
lock `sealMu`: who holds it is at its seal, before there is a report, and from
`Finish` on writes what `Finish` froze, the terminal before the report. `DiskOK` is
what a failed seal may leave for the next one: a terminal is always the frozen one,
and a report that the session does not know of has its pending name beside it, which
is what makes every reader refuse it. `ReaderOK` is what a reader has in hand.
`AcceptedIsFinal` follows since a directory that is accepted has no residue, so its
report is one the session knows of, and with it no seal ever begins again.

### 4.4 AgentTrialProofs

Of `Spec` of `AgentTrial`, under `TrialAssumption` (the lanes are the two there are,
the budgets are positive numbers, and no more requests are approved than the budget
allows), for any batches of calls a model may ask for, any budgets, approval window
and number of recordings on the directory:

| Theorem | Says |
|---|---|
| `CompletedRunsVerify` | `CompletedRunVerifies`: the evidence of a run that completes passes the verifier, unless the wall clock was set back |
| `PostsAccounted` | `EveryPostAccounted`: every POST has its receipt, in order; only the last may lack a usable answer; none goes beyond what was approved |
| `InspectionsHold` | `InspectionHolds`: what an inspection finds published is whole, sealed, verified and of the run that holds the claim, and what was acknowledged is found |

The verifier sees only the end of a run; that it accepts every completed one is a
matter of what the turn loop keeps on the way. `TrialInv` says it by place.
`FrontiersOK`: one frontier per admitted request, each no higher than the next and
than the number of events, the last one equal to it from a request to its answer
(`Asked`), which is why all events are delivered when the model says it is done.
`EventsOK`: one event per admitted call but for the call in flight, and as many
effects as events that committed; this is what the replay compares, and it
stops holding when the trial breaks off, where nothing is claimed of it (`Going`).
`ReceiptsOK`: one receipt per POST, and per answered request one POST: an unknown
acceptance ends the loop. `TimesOK`: a clock that is not set back orders the
receipts. `CompletedVerifies` puts them together.

`ClosedOK` carries the verdict from the stage over the closing of the world to the
link: `SealedVerifies` shows that the seal changes nothing the verifier reads but
what it asks of a sealed episode. `FilesOK` has, by the place of the recorder, which
members there are; after a crash only its last part is left, which is what
`PositiveIsSealed` needs. `InspectorOK` is what an inspection may rest on
although it reads file by file: a terminal document appears whole and never changes,
and a listing that began after success was told holds just the claim and the
terminal document, at rest (`AtRest`); another recording is refused there and changes
nothing.

### 4.5 SuiteArchiveProofs

Of `Spec` of `SuiteRun` and of `ArchiveSpec`, under `SuiteAssumption` (at least one
pair and one run is allowed), for any number of pairs and any allowance:

| Theorem | Says |
|---|---|
| `ReportsHold`, `ReportsHoldBesideCopies` | `SuiteReportHolds`: only a torn member makes a finished suite invalid; who is told of success finds it published; an open gate is earned by every trial |
| `ArchivesWhole` | `ArchivesAreWhole`: an archive is a suite that ended well and still is what was archived; a copy that reads as published is that suite |

A report is built up in memory over the whole run while the failures that go into
it (a trial, the allowance, the context, the comparison) occur in any order. What
makes its final text agree with the directories is kept by two parts of `SuiteInv`:
`RowsInOrder` (rows before the present trial are those of complete directories, the
present one may have failed, those after it are untouched) and `ReasonOK` (at each
place of the program, which of `status`, `failure`, `cause` and the comparison may
already be set and what they exclude). `DiskOK` carries the result over to the file:
any whole report on disk is one that `Decodes` and does not `Disagree` with the
directories beside it (`Whole`), also the one with the staged name only.

The copies need one fact about the suite: an output directory that export accepts
is at rest. `EligibleIsAtRest` derives from what is on disk that the runner is done
(or is a later one that will be refused), `EligibleStands` that no step of anyone
changes it. So `ExporterOK` can say that what
the export froze is what is on disk now, and `CopyOK` that the members of an import
are the source's; the copy gets a report under its final name only after all else
is there, which is why a cut import is never taken for a suite that ended.

### 4.6 CampaignProofs

Of `Spec` of `CampaignRun`, under `CampaignAssumption` (there is at least one
project; a manifest is a sequence of roles), for any number of projects, oracle
checks and cases: `CampaignReportsHold`, that is `CampaignReportHolds` with both its
parts. `CampaignInv` rests on four facts:

* `Sound` is what any failed write, ended context or crash may leave of a project
  directory: a suite only beside a quality document that qualified, and a staged
  or published report only if it is the one its other files call for (`Want`, which
  the inspector computes again).
* `AtPlace` ties the report in memory to the directory at each place of the runner.
  The report is built up over eleven steps, each of which may fail; at `publish` it
  equals `Want` of the directory, which is `WantUnqualified` and `WantAssessed`.
* A directory that is `Settled` (a report, no staging) never changes again. So an
  inspector that lists a directory and reads it later (`ListProject`, `ReadProject`)
  judged one state whenever it says "consistent" (`InspectorOK`,
  `ConsistentWasSettled`), although a runner worked between the two steps.
* `TopOK` says that a campaign report, staged or published, is `Final`, the one that
  the reports of its finished projects call for, and stays that: nothing but the
  running project's directory is ever written (`WritesHere`), and none runs by then.

### 4.7 BaselineProofs

Of `Spec` of `BaselineRun`, under `BaselineAssumption`, for any number of runners,
entries, repeats and shards: `TrialsExecutedOnce`, `PassesAreWhole` and
`AbandonedStaysFinal`. `BaselineInv` adds to the types: the process that holds
the lease is alone at work, and the lease is on disk while it works (`Leased`);
nothing of a shard exists before its directory is claimed (`ClaimedFirst`); the
holder does its trials in order, so those it has not reached are untouched
(`InOrder`); what a session left agrees with the count of executions
(`SessionsStand`) and with the sealed rows (`SealsStand`); and what an assessment
has read so far still stands (`ReadStands`), because runners never change a
complete report or a session that left something (`Keeps`). `PassIsWhole` then
follows from what `Judge` read, not from what is on disk when it judges.

`CompletedShardsStand` (`CompleteStands`: an assessment whose own context lives
declares no shard invalid that has a complete report at that moment) needs more,
`RecordInv`: the rows a runner has
collected (`RowsOf`), those of a report (`SealRow`) and those an assessment has
recorded (`ReadRows`) are what an inspection of the same trial answers now, although
trials of other shards run meanwhile. `InspectedStands` is why: the inspection of a
trial depends only on what that trial left. A report that is read while it is
written is torn (`InOrder` has the place of its writer), and what was read of it never
comes to be compared.

### 4.8 PackRegistryProofs

Of `Spec` of `PackRegistry`, under `RegistryAssumption`, for any number of
processes, definitions and parts of the path: `RegistrationsAreFinal` and
`StatesOnlyAdvance`. `RegistryInv` adds that a file which is being written is torn
and has one writer (`OneWriter`, `OneMarkerWriter`, because it was created
exclusively); that what was told when a call began is still on the disk
(`FloorStands`); and what the place of a call says of it (`OnCourse`): one that
got past `revoked.json` cannot have been told "revoked" before it began. A
registration can only be the first thing that is ever whole in `revision.json`,
since it is never opened again. `MoveKeeps` and `RefusalKeeps` say once what a
step has to show that changes no file.

### 4.9 Only model-checked

The liveness properties `CancelReachesWorker`, `OverdueWorkRetried` and
`SessionEnds`, since liveness under fairness is beyond the proof system, and the
violation of `submit_self_wait`, which is a counterexample.

## 5. Observations

One run finds a disagreement between the code and what is written of it;
`findings` has the details. `submit_self_wait`: a repeated `Submit` waits for the
connection its own transaction holds. One hazard has no property: crash points
inside a schema migration (`store.go:207`), a sequence of SQL scripts that the
tests stop at each point.

Modelling brought up further behaviours that a maintainer may want to know. The
models contain them; the properties are stated so that they say what the code
does keep.

* The time of a claim or a heartbeat is read before its transaction
  (`remote.go:196`). A claim that waits while a `Submit` commits gives its attempt
  an earlier time than the task, and `validateTaskRecord` (`remote.go:612`) then
  refuses the task for good. A clock that is set back does the same to the
  `updated_at` of a task or attempt (`remote.go:600`) and, with it or with the stale
  time a recovery stamps (`remote.go:695`), to that of the Episode (`journal.go:492`),
  which is refused until a later write, or for good if it is terminal.
  `EveryTaskAdmitted` and `EveryRecordAdmitted` say that it takes one of the two.
* Leases are compared as text (`remote.go:498`), and RFC3339Nano text is ordered
  only up to the second: a lease may expire up to a second early or late. SPEC-0018:17
  says that at most one attempt owns an unexpired lease; the property is about
  whole seconds (`OneLiveAttemptPerSecond`).
* A claim that grants nothing rolls its recovery back (`remote.go:208`) and
  nothing calls `RecoverExpired`, so an expired external attempt becomes
  `COMMIT_UNKNOWN` (SPEC-0018:39) only beside a grant to somebody else.
* A fork copies outcomes but not the audit rows their `callIndex` names
  (`store.go:958`, SPEC-0033:79).
* An action whose callback always fails rolls its whole prefix back
  (`store.go:1216`) and blocks all later instants of its branch.
* A `GetTask` torn by a commit may refuse a consistent task (`remote.go:588`);
  `FailClaim`, `CancelTask` and `Submit`, which answer through it, then report an
  error of a change that happened.
* When `complete` fails, nothing records a failure (`journal.go:291`): the
  Episode stays EVALUATING, visible and never retried.
* An `Inspect` of a running plugin session may have listed the directory before
  a residue it would refuse (`plugin/inspect.go:85`).
* `Recover`, which is not modelled, copies files and asks for their decision at
  two moments (`plugin/recover.go:67`), so that it may record a decision which its
  copy does not earn. It reads each file through `Reader.Read`, which refuses a
  file it has read under another name (`baselinepack/pack.go:131`): a session
  whose pending name is still linked to the published one cannot be recovered,
  though `docs/guides/BASELINE-PLUGIN.md:64` says that residue is kept.
* A `Register` that dies after it created `revision.json` and before it wrote it
  (`revision.go:140`), or that overlaps another, makes an exact duplicate a
  conflict; the comment at `revision.go:92` calls duplicates idempotent. What was
  registered stays registered (`RegistrationIsFinal`).
* `Assess` calls the remaining trials of an honestly interrupted offline shard
  "invalid" and never "missing", because the inspection of an absent trial
  answers "unknown" (`baseline/shard.go:299`).
* An `Assess` that reads `shard-report.json` while its runner is still writing it
  (`plan.go:224`) calls that shard "invalid" (`baseline/shard.go:268`) and may print
  so when the report is already complete. Of a report that is complete when it says
  so, it never does (`CompleteStands`).
* A marker that was created but not written makes the state of its revision
  unreadable for good, and the event cannot be repeated (`revision.go:207`,
  `revision.go:251`): it fails closed.
* The command `register` prints the state "frozen" for a duplicate of a revision
  that has been deprecated or revoked (`cmd/statetwin/baseline_maintenance.go:50`).

## 6. What is not modelled

* **State engine, Scenario runner and evaluator, branch diff:**
  sequential functions of their input, well suited to unit tests. The models
  above use their outcome: commit or error, a verdict, a grade.
* **MCP server, IPC, HTTP of the coordinator:** transports and the semaphore of
  admission. What a control handler does across two requests is in `TwinStore`;
  what a lost request or reply does is in `EpisodeWorker` and `EpisodeCoordinator`.
* **`Prepare`, `PrepareSuite`, plans, catalogs, views, Governor profiles:**
  validation and rendering of documents before anything runs or after it ended.
* **`Recover` of plugin sessions, retention preview:** the first copies a
  directory that is at rest in its intended use and promises nothing beyond the
  observations above; the second computes a report and deletes nothing.
* **Schema migrations:** one script per version, no state of their own.
* **Validation of packs, `AssessClaim`:** checks over directories at rest.
* **Bundles, TwinSpec, canonical JSON, YAML, tasks:** parsing and hashing. A
  digest is a model value; distinct contents have distinct digests.
* **Host compatibility, release policy, document checks, logging, smoke test,
  command line, Inspect adapter:** stateless checks, wiring, or outside the binary.

Worth doing next: `Recover` beside a session that is still served; the promise of the
registry and of a suite's report as abstract specifications of their own.
