# A verification of KernelAgent's run directory

KernelAgent optimizes one GPU kernel per *run*. A run lives in a directory: a
hash-chained journal that is the truth about what was executed and billed, one
JSON record per baseline and candidate, the champion, a report. Processes die,
are cancelled and resumed with other limits; a web console and `kernelagent
status` look on. What the program promises (docs/handoffs/recovery-runbook.md,
docs/adr, the module docstrings of `orchestrator.py` and `optimization.py`) is
about exactly this: nothing is billed twice or for free, nothing finished is
repeated or lost, a resumed run is the run that was interrupted.

The modules here model that core in TLA+, with what it rests on: the workers in
which each stage runs, the profile of the baseline, the planner and the model
provider that candidates come from, the web console beside the command line, and
the evidence store. TLC checks them on small instances. TLAPS proves every safety
and action property of the runs that pass, for any number of processes,
candidates, calls, clients and crashes, and for any problem the planner is given;
liveness is checked only.

## Inventory

Paths are below `src/src/kernelagent/`.

| part | state | operations | interacts with |
|---|---|---|---|
| Run journal (`orchestrator.py` 250-409) | `journal.jsonl`; per process `_entries`, `_chain` | load, drop a torn tail, append, commit block | every other part of a run |
| Run lock (`optimization.py` 188-270) | `run.lock` (flock) | acquire without waiting, release, freed when the holder dies | optimize, resume, profile |
| Orchestrator and budget (`orchestrator.py` 134-223, 412-750) | budget totals, open reservations, disowned finishes | reserve, start, settle and finish, refuse, cancel, reconcile, complete | journal; the actions it is given |
| Optimization loop (`optimization.py` 848-1714) | records, champion.json, report.json; history, feedback, repairs | baseline, candidates with generation, policy, evaluation, correctness, timing, confirmation; report | orchestrator, stages, model, promotion |
| Baseline profiling (`optimization.py` 604-772, `adapters/profiling`) | profile field of the baseline record, evidence file | profile once, bill, record, reuse | journal, baseline record |
| Manifest and identity (`domain/run_manifest.py`, `optimization.py` 883-1030) | run_manifest.json | write once, bind a resumed run to it | run lock, loop |
| Promotion (`promotion.py`) | none | confirm, fast_p, coverage | loop |
| Evaluation stages (`config.py`, `adapters/evals`) | workspace | evaluate, prove, time, confirm, under deadlines | workers, loop |
| Container worker (`worker/container.py`) | a container, a work directory | preflight, start, monitor, kill, inspect, reclaim | docker daemon |
| Process worker (`worker/process.py`) | a process group or job object | start, wait, kill, reap, clean up | operating system |
| Evidence store (`adapters/storage/evidence.py`) | object files, SQLite index | put, get, record, audit | not used by the loop |
| Model clients (`adapters/models`) | token ledger, recordings | complete, retry, parse, policy check | provider, loop |
| Web console (`webapp`) | job threads, per run job.json and error.txt | start a run, list, snapshot, journal tail, files | journal (without the lock), loop |
| Method planner (`generators`, `methods.py`, `dispatch.py`) | none | classify, plan, select | loop |
| Benchmarks (`adapters/benchmarks`) | none | load and validate problems | loop |
| Command line, probe, acceptance | none | parse, check the machine | all |
| Frontend (`src/frontend`) | cached answers | poll | web console |

What is hard in it, and what each part owes:

- **Crashes between and inside writes.** A write of one line or of the two-line
  commit block can leave any prefix. Owed: the chain stays whole, a torn tail is
  an uncommitted record, damage elsewhere is refused, an attempt is billed at
  most once and its fate is decided once.
- **Memory against file.** The chain head, the entries and the live budget are
  kept in memory and recomputed from the file by other code after a restart.
  Owed: they are the same.
- **Repetition.** Execution is at least once. Owed: a finished action is not
  repeated, an unfinished one is repeated only after it was marked, what it
  held stays held.
- **Several files, one truth.** Record, champion and report are separate files
  written before and after the commit that makes an attempt final. Owed: the
  report names a champion that the records and champion.json agree on.
- **A resumed run continues the same experiment.** Owed: its history, feedback,
  limits and verdict are those of an uninterrupted run.
- **Onlookers.** `status` and the console read without the lock. Owed: they do
  not disturb the run.
- **External services that fail** (docker, model provider, GPU tools), with
  timeouts and retries. Owed: a result is never reported without evidence, and
  resources are reclaimed or reported as leaked.

## Modules

| module | models |
|---|---|
| `Ledger` | abstract: records that are only added, by one owner at a time |
| `Journal` | the file, byte-torn writes, recovery, the lock, readers without it |
| `Orchestrator` | `Orchestrator.run` by several processes in turn, with the budget |
| `OptimizationLoop` | `optimize` and `kernelagent profile` above the orchestrator |
| `RunDirectory` | the checks before `run.lock`, the manifest, who may work under which identity |
| `WebConsole` | `WebApp.start_run`, its threads, `run_snapshot`, beside the command line |
| `BaselineProfiler` | `_run_baseline_profile` and `profile_baseline`, call after call |
| `MethodPlanner` | classification, signal rules, ranking and plan, over the catalog |
| `CandidateGeneration` | plan, ask, be billed, parse, judge, plan again |
| `ContainerWorker` | one call of `execute_container`, with docker and the payload |
| `EvaluationStages` | a GPU stage: the container, its result file, what the port answers |
| `ProcessWorker` | one call of `worker.process.execute`, with the processes of its payload |
| `EvidenceStore` | files and index of the store, several clients, crashes, damage |
| `MC...` | values for TLC, one for each of seven modules; the others need none |
| `...Proofs` | theorems: `Journal`, `Orchestrator`, `OptimizationLoop`, `EvaluationStages`, `ProcessWorker`, `EvidenceStore`, `WebConsole` with `RunDirectory`, and `Planning`: `BaselineProfiler` and `CandidateGeneration` with `MethodPlanner` |

They compose in four places. `Journal` and each directory of `RunDirectory` (the
last by a theorem alone) implement `Ledger`, and `Orchestrator` takes that for
granted: its journal is a sequence that its actions extend. `EvaluationStages` extends `ContainerWorker`,
`CandidateGeneration` extends `MethodPlanner`, and `WebConsole` extends
`RunDirectory`. `OptimizationLoop` takes the rest as answers: what the journal
holds, what a stage or a generation says, what a profile came to.

### Ledger and Journal

`Ledger` has an owner and a sequence of records: take, extend, give up. It is
what the rest of the program takes the journal for.

`Journal` has `lines`, the complete lines of the file, each with its body, its
hash and the hash before it, and `torn`, whether the file ends in a fragment.
The hash of a line is a number drawn fresh for each serialized line; two lines
have the same hash only if they are the same. A process has `entries`, `chain`
and a phase. `Load` is `Journal._load` with the early returns of `_load_line`
(a line that is damaged or does not continue the chain refuses the file);
`Truncate` and `RecoverAppend` are the two writes of `_recover_torn_tail`, two
steps because a process may die, or another may run, between them. `AppendOne`
and `CommitBlock` are the two callers of `_write_block`; each has a torn
variant that leaves any proper prefix and ends the process. `Damage` flips one
complete line at rest (at most one in a behaviour). `LockedSpec` has only
processes that take `run.lock`; `ObservedSpec` adds readers that construct
`Journal` without it, as `run_snapshot` and `run_status` do.

### Orchestrator

`journal` holds records of the kinds that the module docstring lists, with
action, attempt and amounts; attempts are numbered as uuids are drawn, in
`fresh`. One call of `run()` is `Enter` (restore the budget, reconcile, disown,
in the order of the code), then for each action `Skip`, `Cancel`, `Refuse`, or
`Reserve`, `Start`, `Finish`, then `Close` with `experiment_done`. Every append
may be torn: the prefix that lands is written, the process is gone. `Load` is
the start of the next process. A process is resumed under one of the
`Identity` values, which is the `input_hash` of its actions, so that finishes
of another identity are disowned. The budget is kept per resource and by
attempt, exactly as `_open_gpu` and `_open_tokens`; amounts are integers.

### OptimizationLoop

It takes from the journal what the loop depends on: which actions are finished,
what is settled and held. (`Orchestrator` shows that these totals are what any
process sees, and `NoRerun` that a finish is there for good.) Its own state is
`baseline`, `record`, `champion`, `report` (files that are replaced as a
whole), the process's place in the loop, its `history` and `feedback`. One
action per stage of `_attempt_action`, with all answers the loop tells apart;
`Crown`, `Persist` and `Commit` are separate because the process may die
between any two of them. A process starts fresh, resumes under any allowance of
`Allowance` (candidates, repair rounds, seconds, profiling on or off: the
options that `kernelagent resume` may revise), or is `kernelagent profile`. A source that
the model generates is a number drawn fresh.

`Wrote` and `Said` keep apart the detail that a record stores for a failure and
the sentence that the running process feeds back: they differ for an async
leak.

### ContainerWorker and EvaluationStages

Five things move on their own: the parent (`execute_container`, one action per
docker command or look at the world, `pc` says where it is), the `docker run`
client it starts, the daemon that acts on the client's two requests in its own
time (`asked`), the payload, and the clock and the cancel event. The parent only
sees what the code sees: whether the client is gone and its return code, the
sizes of logs and output, the return codes of kill, inspect and rm. Every docker
command may be carried out, refused, or time out, in which case it may have been
carried out all the same. A time-out is an exception that leaves the body with
`infra_error` and goes on with the `finally` block, from wherever it was raised.
The two looks at the container there are separate steps (`Check`, `Remove`,
`Confirm`), and a request of a client that still lives may land between them.

`Lapses` names what docker may get wrong beyond that: `"inspect"`, an inspect
that fails for a container that exists; `"late"`, a request of a killed client
that the daemon still acts on. The history variable `misled`, which nothing
reads, remembers which of the two had a say: the inspect that confirmed a removal
was wrong, or the daemon created the container for a client that was dead.

The payload writes its result in two steps (a file that does not parse yet, then
all of it), at any time; it may go on, exceed a limit or be killed afterwards.
`Interpret` is what a port makes of the outcome and the file: `evaluate` and
`correctness_pro` read the file whatever the outcome says, and so does `timing`.

### RunDirectory and WebConsole

A process of `RunDirectory` is one call of `optimize`, `resume` or `profile`; what
it wrote in a file (manifest, journal line, report, error.txt, job.json) is named
by the process, whose configuration is an identity (problem and setting, for the
`IDENTITY_FIELDS`) and an allowance (for the `REVISIBLE_FIELDS`). `Inspect` is what
`optimize` looks at before the lock, `AcquireRunLock` the lock, `OpenJournal` or
`RefuseIdentity` the comparison under it, with the manifest that was read
*before* it; `Declare` writes the manifest of a fresh run or the revisions of a
resumed one. The work is abstract: attempts that start, finish or are marked, a
report. `MayRun` is the refusal of `Orchestrator.run`: a fresh run works on a journal
that has no line of another process. A process raises or dies anywhere, so what
a refused one has written by then (its manifest) stays.

`WebConsole` adds a server: `StartRun` names a directory by the second, so that
two starts may meet in one; its threads go through the same steps, after
`build_generator` and before `error.txt`; the server dies with its threads.
`run_snapshot` is three reads (report, error.txt, journal) with anything in
between, and `view.true` remembers what the files said at each instant.

### BaselineProfiler

One call after another on a run directory, in the loop or by `kernelagent
profile`, each with the container it starts. A call dies anywhere; its container
does not: it goes on writing the marker and the report to the scratch directory,
which all calls share. `report`, `evidence`, `profile` and `bills` are the four
things that `Look`, `WriteEvidence`, `RecordCollected` and `Bill` write, one after
the other. The history variable `lost`, which nothing reads, counts the bills that
have no record or lost it.

### MethodPlanner and CandidateGeneration

`MethodPlanner` is `MethodPlanner.plan` as operators: the 38 methods of the frozen
catalog with category and expected gain, what fires for a problem (its operator
class, features, metrics, hardware), what the history demotes, the ranking, and the plan
with its refusals. Scores are integers, in thirds of a millionth: `Prior` is the
table of 0.3^n up to n = 6, which bounds the failures of one method that are told
apart, and a gain divided by 1.5 is multiplied by 2 instead of 3. The code's two
sorts are `Ordered`, the elements of a set by the number of elements before them,
over the ranks (`Rank`, `Outranks`) of the candidates. `CandidateGeneration` runs attempts over it: the plan, the requests
and their retries, an answer of any kind the client or the parser distinguishes,
the ledger and the port's deltas, the policy gate, the stages as the answers
the history tells apart, and `confirm_promotion`, whose bootstrap is the set of
bounds that resampling can give.

### ProcessWorker

`platform` is chosen at the start. The parent has one action per call it makes
of the operating system, each of which may fail; the payload and what it starts
(`Kid`, each in its group or job, escaped, or not to be signalled) move on their
own. The nested `finally` blocks of the code are the phases `reap`, `finally`,
`close` and `clean`, entered from wherever an exception was raised.

### EvidenceStore

Each statement that writes is a step: the staged file, the rename, the look at
the index, the insert, the event. A client may be overtaken or die between any
two; `Damage` changes or removes a file behind the store's back, and `damaged`
remembers which, so that what the audit reports can be compared with it.

## Runs

| run | checks | bounds | distinct states |
|---|---|---|---|
| `journal_locked` | the chain; memory is file; damage stands; implements `Ledger` | 2 processes, 1 body, 6 serialized lines, 1 damaged line | 63,503 |
| `journal_observed` | violation of `AppendOnly` | 1 writer, 1 reader, 5 lines | |
| `orchestrator_recovery` | the story of each attempt; reruns are marked; budget is replay; spending gate; no rerun; `run()` returns | baseline and one candidate, 2 identities, 3 processes, 2 resources, cancel | 211,305 |
| `loop_resumed` | records tell; the champion is earned; limits hold; requests know the records; records stand; the verdict repeats; every run reports | 2 candidates, 3 allowances, 3 processes, 7 seconds | 930,689 |
| `console` | one identity; overrides are journaled; a refused call leaves no trace; a snapshot was true; jobs settle | 2 threads, 1 command line, 2 directories, 3 configurations, 3 lines | 156,556 |
| `run_mixed` | violation of `RefusesToMix` | 3 commands, 1 directory, 2 identities, 4 lines | |
| `generation` | every method is disposed of; failed methods yield; tokens are deltas; generation returns | 9 problems, 6 attempts, 8 kinds of batches | 214,275 |
| `profile` | what is recorded as collected is there; each bill is on record; profiling returns | 3 calls | 23,750 |
| `stages_worker` | no container left unless a lapse misled the worker; completed is earned; every stage answers | 3 stages, cancel, both lapses | 106,682 |
| `stage_score` | violation of `CutShortNeverScores` | evaluation and correctness, no cancel | |
| `process` | nothing is left; the payload runs in its job; completed by itself; the call returns | 2 platforms, 2 descendants | 5,393 |
| `evidence` | the audit blames damage; evidence is indexed; events are earned; records stand | 2 clients, 2 contents, 2 experiments, 1 damage, 3 events | 470,236 |

Type invariants are part of the inductive invariants that are proved (`Proofs`)
and are not run again.

The bounds are the smallest in which the cases meet. Six hashes let a process
write, tear, be replaced by the other, recover, tear the recovery and recover
again. Three processes over a baseline and a candidate let a crashed attempt be
marked, repeated, crash again and be marked a second time; two identities let a
finished action be disowned and executed again. In the loop two candidates are
enough to have a record before the one in question, three processes let a crash
be followed by a resume with a smaller and then a larger allowance, and seven seconds
with an estimate of 3 and overruns of 4 put the gate, the refusal and the
deadline at their limits. In `console` two threads share the one directory that
the clock names, and a process of the command line meets them there with another
setting or another allowance, or works in a directory of its own; three lines are
a revision, an attempt and its end. In `run_mixed` four lines let a
resumed process start an attempt after one of another process. Six attempts let two methods fail twice while
others that match wait (a plan has three). Three calls of the profiler let what
a first one left and a second one moved be found by a third. Two descendants let
one escape and one stay. Two clients, experiments and contents are what a race
between look and insert needs; three events are two recordings and a duplicate.
`MaxHash`, `MaxStarts`, `MaxEntries`, `MaxCalls`, `MaxAttempts`, `MaxDamage` and
`MaxEvents` are only bounds of the models. `ContainerWorker` and `ProcessWorker`
have no bounds of that kind: each is one call.

Deadlock is checked in `journal_locked`, where some process can always load.
The other runs turn it off because they stop where the program stops: the
hashes are used up with a reader in between, all processes have been started
and have returned, a directory that was claimed and never journaled accepts neither
a fresh run nor a resume, or the call has come back.

**Fairness.** `RunReturns` and `RunReports` assume weak fairness of the steps of
a process that is alive, and of nothing else: model calls have a timeout in the
client, GPU stages a deadline (`_stage_timeout`), and the rest is straight-line
code. Crashes, cancel events and starts are never fair. `StageAnswers` assumes
that the parent goes on (each of its commands and waits has a timeout) and that
the clock does; nothing of docker, its client or the payload, which may all hang.
`CallReturns` and `ProfilingReturns` likewise assume only that the parent goes on;
the payload, its children and the containers may hang for ever. `GenerationReturns`
assumes that the client does (a request has a timeout, transient statuses
are retried twice), whatever the provider answers. `JobSettles` assumes each
thread of the server goes on when it can; requests, browsers and the command line
are free.

### What the violations show

Each is a sentence of the repository that the code does not keep.

- `AppendOnly`: "Exactly one process may append to a run's journal at a time".
  A writer dies and leaves a fragment; a reader loads the journal and takes it for
  the torn tail that it is. Before the reader truncates to the size *it* read, the
  next writer has cut the fragment away itself and committed records. Those
  records are cut off.
- `RefusesToMix`: "refusing to mix experiments". The directory is inspected
  before the lock and not again under it: two fresh runs both find it empty. The
  first takes the lock, works and fails; the second takes it, overwrites the
  manifest and is refused by the journal that is there. From now on the manifest
  and the journal are of different experiments, and a resume with the second's
  configuration compares it with the manifest and works over the first one's
  journal. `console` keeps the fresh runs of the command line out of the
  console's directories, so that what it shows of identities does not rest on
  this; within the console `active_run_id` and `WebApp._lock` prevent it.
- `CutShortNeverScores`: "a result over its limits must not be turned into a
  correct score" (docs/adr/0001, in Chinese). The payload writes a passing
  result, is killed for its log, its output or its time, and the ports read the
  file: what `evaluate_case` and `run_pro_case` know of the outcome is not in
  what the ports return. `timing` does the same with its samples.

### Promises the code does not keep

Other sentences of the repository were found not to hold while the modules were
written. They have no run of their own; where a module defines the property, its
name is given, and the module's configuration with this one INVARIANT shows the
trace.

- `ProfileBilledOnce` (OptimizationLoop): "reused verbatim on resume (idempotent,
  no re-run, no duplicate billing)" (`optimization.py:619`). The bill and the
  record are two writes, and the record alone is asked: a process that dies
  between them is followed by one that profiles and bills again.
  `EachBillOnRecord` is what does hold: there is no other way to a second bill,
  but for a baseline that is measured again and gets a new record.
- `HistoryParity`: "a resumed run plans on the same evidence path as an
  uninterrupted one" (`optimization.py:1043`). A candidate that was recorded and
  not committed is attempted again, and later candidates see both attempts.
  `RequestKnowsRecords` is what does hold: nothing recorded is missing from a
  resumed request, and the last word on each candidate is its record.
- `FeedbackParity`: "keeping the resumed request content on the same path"
  (`optimization.py:1046`). For an async leak the record's detail and the live
  feedback are different texts.
- `RemovalIsConfirmed` (ContainerWorker): "removal is confirmed via inspect and a
  failed reclamation is reported, never claimed clean" (`container.py:23`).
  `container_exists` takes every failure of inspect for absence.
  `OutcomeMeansGone` is what does hold.
- `NeverClaimedClean`: the same sentence, also with `Lapses = {}`. When `docker kill`
  itself times out the client is neither waited for nor killed; it may create the
  container after its absence was confirmed. (The outcome is then `infra_error`,
  but it says reclaimed.)
- `DoneIsTerminal` (Orchestrator): "terminal, written only when every action
  finished" (`orchestrator.py:33`). `optimize()` calls `run()` once per action, so it
  is written after the baseline.
- The scratch directory of a profile is never emptied, so the marker and report
  of a dead call may be collected by the next ("Missing metrics are absent ...
  never zero-filled" says nothing of stale ones); and the GPU time of a profile
  that was not collected is neither billed nor recorded, where the docstring says
  "reported and billed, never silently dropped" (`pipeline.py:24`). The privileged
  container of a dead parent keeps running.
- "Every completed response is billed, accepted or not" (`generation.py`): a
  completion that the client cannot use (no usage, not JSON, empty content)
  raises before the ledger hears of it.
- "Infrastructure failures are the environment's, not the method's" (`plan.py`): an
  unreachable provider is a `GenerationFailure` of class `parse` and demotes the
  method that was selected.
- A directory that was claimed and never journaled can neither be resumed nor
  started again; `kernelagent profile` accepts a manifest without a journal.

## Proofs

Assumptions are the ASSUMEs of the modules: constants are naturals, functions on
the sets they are declared for, and marker values lie outside the sets they
extend. They hold for every instance the program can make.

**JournalProofs.** The inductive invariant `LockedInvariant` is: types; the
complete lines form a chain from genesis; only the owner of the lock
is in a session; what a process in a session holds is the file. The chain alone
is not inductive: an append continues the chain of *memory*, so memory must be
known to be the file, and it stays so only because no one else is in a session.
From it follow `ChainIntact`, `MemoryIsFile`, `AppendOnly` under the lock, and
the refinement of `Ledger`, for any number of processes. `AppendOnly` is thus
proved with the lock and refuted without it. `DamageStands` needs `DamageInv`,
that a damaged line is one of the file: every step of a writer keeps the damage,
because it only appends to a file whose lines it has verified, and a process that
loads a damaged file never gets to `open`, so that none but those that were there
before may append after it.

**OrchestratorProofs.** The properties about attempts (`OncePerAttempt`,
`StepsInOrder`, `VerdictIsFinal`) speak of the journal alone and are not
inductive: what keeps an attempt from being billed twice is that its number is
fresh, that a process only writes for the attempt in its hands, and that
recovery has resolved every other one. `RunInvariant` says so: the facts about
the journal; the attempt in a process's hands has exactly the records its
program counter implies; every other started attempt is finished or marked when
a process is past recovery; a name a process skips is finished under its
identity. Each action has a step in the proof, with torn writes reduced to
prefixes of the blocks they were writing.

The budget is a second layer. `Replay` is a recursive function of the journal, and
what it gives for one record more (`ReplayOneMore`) is an induction over the
length: stated for the *set* of lengths for which it holds, with the library's
theorem on well-founded sets, which takes no operator. `BudgetInv` then says what a
replay is made of: it is a budget (naturals, with an amount for each open
attempt); every attempt was reserved at the estimate of its action, and holds exactly that
until it is settled (`HeldIn`); the marker of an interrupted attempt quotes the
reservation (`QuotedIn`); and the budget in memory is the replay wherever an action
begins or ends (`MemoryIsReplay`). `BudgetIsNeverForgiven` (`BudgetIsReplay`) follows from
it, and `NothingRunsUnfunded` (`SpendingGate`) because only `Reserve` adds a
reservation and it compares with the budget in memory.

**OptimizationLoopProofs.** All safety properties of `loop_resumed` are proved,
for any number of candidates and any allowances. `LoopInv` adds to them what
makes them inductive. `Course` and `OnCourse`: while the loop is at a candidate,
everything below is finished and let the loop go on, and the repairs counted are
those in the records (this is where the sum over a run of processes comes from;
one candidate more is one element more of a finite set). `InHand`: what an
attempt has already put into champion.json and its record. `Funded`: what is
settled and held fits the allowance from the reservation on, which is all that a
deadline needs. `Files`: finished candidates are an initial segment, and a
promoted one among them is the champion, so that no later attempt can crown
another. `Decided(s, k, K, R)` is the verdict as a fact about records alone; no
step can undo it (`DecidedStands`), and there is only one for given limits
(`OneVerdict`, `NothingLeft`), which is `VerdictAlwaysRepeats`.
`RequestsMissNothing` needs in addition that records have no gap (`NoGap`), so
that what a process reads back by rank is in the order in which it was tried.

**EvaluationStagesProofs.** `WorkerInv` ties the outcome to the parent's place:
before the client is gone the status is still `infra_error`, a client that
returns 0 has passed on the exit code of a payload that ended by itself, and
`completed` needs that exit code and a monitor that saw no breach.
`CompletedIsEarned` follows. `OutcomesLeaveNothing` needs the invariant for what
may still happen after the return: an outcome other than `infra_error` has a client
that is gone, so that only the daemon is left to create the container again. Both
hold for every `Lapses`: nothing is assumed of docker. A container that is left
behind has been denied by the confirming inspect or was created late for a dead
client, and `misled` says which; without lapses there is none.

**ProcessWorkerProofs.** `CallInv` follows the parent: what each phase says of the
payload, the job, and the outcome so far. `OutcomeLeavesNothing` needs that
the last signal to the group is sent after the payload was reaped or in the same
call, and that no member is left to start another; `PayloadStaysInItsJob` that
on Windows the payload is suspended until attributed and that what is
in a job starts nothing outside it. Both hold for any number of descendants.

**PlanningProofs.** For the profile: `ProfileInv` adds to the properties that
evidence is whole from `billing` on and that a call that got past `Check` found
nothing collected, so that no later write of its own takes a promise back, and no
bill is entered while an earlier one is on record.

For the plan, four layers of lemmas about the operators of `MethodPlanner`, none
about a particular problem. `OrderedLists`: if a relation orders a finite set, `Ordered`
lists each element once, with what comes first first (counting predecessors is an
injection into as many numbers as there are elements, so every place is taken).
`Places`, `RulesSpeakOfMethods`, `Gains`, `Worth`: each method has its place in the catalog, the
rules speak of no other, and a method that has not failed and promises anything
scores at least 2,000,000 where one that failed twice has at most 1,560,000 with
its exploration bonus. `ChosenAreBest`: ranks of two methods are never level, so that the
plan is a list without repetition whose first element nothing outranks. `PlanPromises`: planned
and refused together are the catalog, apart only outside the baseline plan,
and a first actionable method that failed twice leaves nothing untried behind it.
`AttemptInv` carries these promises from `MakePlan` through the attempt and ties
the port's count to the ledger's, one call apart while an answer is parsed. The
theorems hold for every set `Inputs` of problems, whatever they contain; the only bounds are
those of `Prior` (`MaxFailures` at most 6) and of the attempts.

**EvidenceStoreProofs.** `StoreInv` says what each client knows at each of its
places: an object it has seen or published is whole or was damaged since; a
record it carries was validated against rows that are never changed.
`RecordedStatesStand` then needs no lock: the insert itself is the decision. For
`EventLogIsEarned` a client that is about to announce is the only one for its
experiment, because only one insert succeeded.

**WebConsoleProofs.** Every step of a process is shown to be an `Acts(p, d)`: it
touches one directory, takes or gives up its lock, puts its own name into files
only from `Declare` on, and never empties a journal or removes a report.
`DirInv` (who holds a lock is at work under it; who is before `Declare`, or was
refused, has written nothing; a report has a journal) follows from that alone,
and with it `RefusedWritesNothing`. `ViewInv` says what a snapshot knows after
each read; it survives what others write in between because files only gain and
a report is never the first thing in an empty directory.

`IdentityHolds` is a third invariant, again for any processes: the manifest of a
directory, and the one that a process has read, are by fresh runs of it; a resumed
process past the comparison has the identity of the one it read; and a line of
work in a journal is by a process that got there so, after a `revised` line of its
own if it has another allowance (the line is needed to survive: journals only gain
lines). It does not say that two fresh runs agree, and they need not: they may
both find the directory empty (`RefusesToMix`). `OneExperimentPerDirectory` and
`RevisionsAreDeclared` are therefore stated of states in which the fresh runs of a directory
have one configuration (`FreshRunsAgree`), which `console` arranges and
`run_mixed` does without; given that, every line of work is of the one identity and
what a resumed run changed is in the journal before its work.

`RunDirectoriesAreLedgers` maps every directory to `Ledger`: its journal is the log,
who holds its `run.lock` the owner. Each step `Passes` a directory on: it leaves
journal and lock as they are, takes a lock that is free, adds a line or two under
it, or gives it up. That only the holder adds a line needs the converse of what `DirInv`
says of holders: who is past `AcquireRunLock` and has not returned *has* the lock
(`WorkersHold`). It is kept because a lock leaves its holder only with the holder's
own step, or with the server and all its threads. `OneProcessPerDirectory` is this
invariant, with the exclusion that follows from it.

**Only model-checked.** Liveness (`RunReturns`, `RunReports`, `StageAnswers`,
`CallReturns`, `ProfilingReturns`, `GenerationReturns`, `JobSettles`), which with ENABLED is
outside what the prover can do. What the planner computes for one problem,
rather than promises for all, is seen only on the problems of `generation`.

## Not modelled

- Legacy journals (records without attempt ids) and `budget_released`, which
  nothing writes any more.
- Floating point: amounts are integers, so rounding in the budget is left out.
- Files that cannot be parsed are treated as the code treats them only where it
  goes on (a lost baseline record, torn evidence of a profile); otherwise the
  process ends.
- In `ContainerWorker`: a request whose environment has secret-shaped names (a
  ValueError, which leaves the call after the reclamation), the notes and the OOM
  state in them, the death of the parent while its container runs.
- In `ProcessWorker`: pid reuse, and a workdir outside the workspace (an
  exception before anything is started). A signal that reached any member of the
  group counts as a reclaimed tree, as in the code, so members that may not be
  signalled survive; `NothingIsLeft` does not speak of them.
- In `CandidateGeneration`: repair rounds (`OptimizationLoop` has them), and the
  filter for promoted methods inside the loop, which ends at the first promotion.
- In `WebConsole`: `job.json` and `error.txt` are written in place and could be
  read half-written; `health` iterates over the threads without the lock.
- The console's journal tail with the frontend's `useJournal`, which polls it
  without waiting for the last answer. A module with overlapping polls, a growing
  journal and a recovered tail was written and given up: lists per poll and per
  client multiply beyond what can be checked in minutes, and a smaller one could
  not show the case. The hazard is listed without a property.
- What runs inside containers, the numerical decisions, parsing of problems and
  model answers, benchmarks (loading and validating pinned files), probe and
  acceptance (one-shot checks of a machine that keep no state), the frontend, and
  presentation.

## Plan

1. The budget's totals as sums: what is reserved is the sum of what open attempts
   hold, and what is settled the sum of the bills in the journal.
2. A property over `OptimizationLoop` and `BaselineProfiler` together: which
   profile a plan was made from after a baseline was measured again.
3. The journal tail with one poll at a time, as a reader of `Journal`.
