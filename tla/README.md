# Verification of ghidra-reconstruct

TLA+ models, model-checking runs and machine-checked proofs about
`jaenster/ghidra-reconstruct`: a pipeline that turns a Ghidra program into a C++ source
tree, and a daemon (`packages/live`) that keeps such a tree up to date while people edit the
program. Paths below are relative to the repository's root.

Most of the repository's lines (a C++ parser with 219 rewriting passes, a code generator,
extraction scripts) are sequential transformations of data, tested by fixtures. What is hard
to test is the daemon and what it talks to: a change journal that may be lost, replayed or
rotated; a work queue fed by a stream, timers and operators; a model in memory, a snapshot, a
generated tree, a git branch and a state file that must agree after a crash at any moment.
That is what is modelled here.

## 1. Inventory

| Component | Source | State it keeps | Operations | What makes it correct |
|-|-|-|-|-|
| Work queue | `packages/live/src/queue.ts` | pending entries, the running one, drain guard, block reason | submit (fold, refuse, queue), drain, block, unblock | one task at a time; nothing stranded or overtaken; blocked means only recovery work; every caller answered |
| Change stream, SSE | `packages/live/src/events.ts` | queue, quiet timer, drain guard, paused, `appliedSeq` | connect, handleFrame, drain, pause, resume, markApplied, verifyResume | never skip a change; no lost wake-up |
| Change stream, polling | same | `appliedSeq`, paused | pollOnce, pause, resume, verifyResume | no version skipped; each batch read at the version its events describe |
| Live loop | `packages/live/src/main.ts` | phase, resync stop, operator pause, hash cache, build id | start, onBatch, applyBatch, rebuildAndPublish, applyStale, foreignRebuild, fullRegen, retryMerge, pause, resume | the tree committed is the model's, the model is Ghidra's up to the saved seq; stops are stops |
| Proposal boundary | `packages/live/src/proposal.ts` | hold, unattributed proposal | begin, commit, abort, expire | a proposal's changes land in one commit of its author, or in none |
| Model patching | `packages/live/src/model.ts`, `snapshot-model.ts` | the model and its indices, `model.seq` | applyEvents | an event's whole reach is re-read |
| Model verifier | `packages/live/src/verifier.ts`, `applyStale` in `main.ts` | sweep cursor | doStep, checkTypeOrder, endCycle, verifyNow, apply | what it counts is evidence about the model's version; what the change records miss is repaired |
| Dirty-unit selection | `packages/live/src/dirty-units.ts` | hash cache (an input) | selectDirtyUnits | no changed unit is left out |
| Snapshot and state files | `reconstruct/src/snapshot.ts`, `snapshot-model.ts` | a directory, a file beside it | writeSnapshot, saveLiveState, load | what is loaded is one moment |
| Generator | `reconstruct/src/codegen` | staging tree, identifier cache, buildinfo | writeProject | reuse gives what generating again would give |
| Worktrees | `packages/live/src/git.ts` | regen and modified trees | commitRegen, mergeIntoModified | never commit someone else's edits |
| Local worker client | `reconstruct/src/local-worker.ts` | pending requests | call, answer, exit | each answer reaches its request; every call returns |
| Local worker | `packages/local-worker` (Java) | open version, checkout, cached changes | getChanges, reader and worker threads | no read straddles a swap; answers are a function of the history; no page loses an event |
| Pool, caches | `reconstruct/src/extract` | fact cache, source cache | mapWindowed, check, put, load, save | every result in its place; a hit equals a fresh read |
| Batch pipeline, parser, transforms, analysis, lint, MCP surface | the rest | none across calls | | not modelled (section 7) |

How they interact. Ghidra records each edit in a journal. The stream reads it, waits for a
quiet window and hands the whole queue to `LiveLoop.onBatch`, which submits a task to the
work queue and awaits it; only when that returns does the stream move its resume point. The
task re-reads the symbols named from Ghidra, selects dirty units, saves the snapshot, spawns
the generator, syncs the regen worktree, commits it and saves `live-state.json`. The
verifier, the foreign-source watch and the operator submit tasks of their own. A proposal
pauses the stream, reads its window from the journal itself and moves the resume point past
it. A failed check, a rollback or a truncated journal stops the loop and blocks the queue
until the operator accepts the model.

With the local worker there is no session to stream from: the worker derives the journal from
the Ghidra Server's versions, and answering `get_changes` is what moves its program to the
newest one. Everything that reads through it (extraction, a batch, the verifier's sweep)
therefore reads a program that a poll may swap between two reads, though never during one.

## 2. Modules

| Module | Models | Checked by | Proved by |
|-|-|-|-|
| `WorkQueue` | `queue.ts` | `MCWorkQueue` | `FollowerQueueProofs` |
| `JournalConsumer` | abstract: what following a journal promises | as the refinement target of `ChangeStream` | `ChangeStreamProofs` |
| `ChangeStream` | `ChangeStream` and `verifyResume` of `events.ts`, with what the callbacks in `main.ts` do to the resume point | `ChangeStream` itself (its constants are numbers) | `ChangeStreamProofs` |
| `RegenPipeline` | from a batch to a committed tree, with crashes | `MCRegenPipeline` | `RegenPipelineProofs` |
| `LiveLoop` | the stops, publishing and operator's tools of `main.ts` | `LiveLoop` itself | `LiveLoopProofs` |
| `VersionFollower` | `VersionFollower.java` with `PollingChangeStream` and `verifyResume` of `events.ts` | `MCVersionFollower` | `FollowerQueueProofs` |
| `LocalWorker` | `local-worker.ts`, `StdioWorker.java`, `pool.ts` | `LocalWorker` itself | `LocalWorkerProofs` |
| `ModelVerifier` | `verifier.ts` and its host in `main.ts` | `MCModelVerifier` | `ModelVerifierProofs` |
| `FactCache` | `fact-cache.ts`, its fill in `function-facts.ts`, the stamps | `FactCache` itself | `FactCacheProofs` |
| `Attribution` | abstract: what the commits promise about authorship | as the refinement target of `ProposalBoundary` | `ProposalBoundaryProofs` |
| `ProposalBoundary` | `proposal.ts` with its host in `main.ts` | `MCProposalBoundary` | `ProposalBoundaryProofs` |

### WorkQueue

A task is a model value; `KindOf` gives its kind and `Foldable` the tasks submitted with both
`absorb` and `events`. A step is what JavaScript runs between two awaits. `SubmitRefused`,
`SubmitFolded` and `SubmitQueued` are the three ways through `submit()`; `Drain` is its call
of `drain()`, which either finds a loop active or takes a turn; `Finish` is a task returning
or throwing, and the loop's next turn, which follows without a yield; `Block` and `Unblock`
are themselves. `running` is a set so that two loops would show. `promise` is what the
caller of `submit()` holds. The task's own calls to `block()` are `Block` while it runs. Its
`QueueInit`, `QueueNext`, `QueueSpec` and `QueueTypeOK` are what other modules call `Init`,
`Next`, `Spec` and `TypeOK`: one module holds the proofs about it and about `VersionFollower`.

### ChangeStream

A change is its sequence number. `head` and `oldest` are the journal; `connected`, `cursor`
and `gapSince` the connection, with what the server has sent on it; `queue`, `timer`,
`draining`, `batch`, `paused`, `appliedSeq` are the fields of the class. The consumer is
reduced to `needsResync`, `modelSeq` and `savedSeq`. `applied`, `declared` and `kept` are
history: what is in the model, what an operator was told is missing, and what the saved model
accounts for. A drain is two steps, because `onBatch` is awaited: `QuietOver` takes the
queue, then one of `BatchApplied`, `BatchIgnored`, `BatchStopsLoop`, `BatchFails`, with the
`finally` and the rescheduling of `drain()` in `EndDrain`. `AcceptModel` is the operator's
way out of a stop as a whole: the queue unblocked, then the rebuild. `Restart` is a crash at
any moment followed by `start()`, whose `verifyResume` may fail when `CheckMayFail`.

`JournalConsumer` says what this amounts to: a resume point that moves only over changes that
are accounted for, in memory and on disk, and a restart that knows no more than was saved.

### RegenPipeline

A unit is one generated file and the one symbol it comes from; a content is a number and a
text is a content with the generator build that emitted it. The variables are grouped as in
the code: Ghidra, its journal and the installed generator; the daemon's memory; what is on
disk (snapshot directory, `live-state.json`, staging tree, regen branch). `phase` is where a
task is between two awaits: `applying` (`Reread`, one symbol at a time, each reading Ghidra
as it is at that moment), `selected` (after `guardBuild` and the selection), `generating`
(the child writes one file at a time, `Emit`), `generated`, `committed`, `idle`. A task is a
batch of the stream, a repair of the verifier, a rebuild by the watch or by the operator.
Failures: a re-read that keeps the previous record, an exception while applying, a
generation that breaks off, a commit that throws; a crash may come between any two steps,
and inside the two remove-then-rename swaps (`CrashSavingState`, `CrashSavingSnapshot`).

A re-read that failed marks the unit `missed`: the code keeps the previous record, logs, and
leaves it to the verifier's sweep, whose repairs are `TakeStale` here and whose own search is
`ModelVerifier`. The properties except those units. The watch does not retry a rebuild that
failed; after a failed generation nothing is scheduled (`failed`), so liveness excepts that
state too. A crash between removing the snapshot directory and renaming the new one is
`"snapshot" \in missed` (`Lost`): the next start seeds the batch regen's snapshot under the
newer seq, and every property but `MixedTreeIsNotTrusted` excepts it (section 6).

### LiveLoop

What stops the daemon and what starts it again, over a local worker. A change is a version; a
model and a tree are the last version in them. `tasks` and `blocked` are the work queue, with
one task of each kind; `step` is where the running task is. `setup` is one of three ways to
run: only committing, merging into a modified tree, or handing the synced tree to
`LIVE_PUBLISH_CMD`, which is external and modelled by its exit code and by what it leaves in
the two worktrees (`PublishCommand`). A batch ends in a commit, in a failure after which the
stream asks again, in a resync stop (`ApplyStops`) or in `StopOnFacts`; `Merge` and `Publish`
block the queue or not by their outcome. `AskRebuild`, `AskMerge`, `Pause`, `Resume`,
`CommitModified` and the restarts are what a person can do about it. `spoiled` names four
things the code does not survive (section 6). Left out: proposals, `full_regen`, and the
fact-script refresh at a start.

### ProposalBoundary

The journal is a sequence of edits and check-ins, each by the owner or by a proposal; the
writer stands for the transaction, and a proposal's edits lie between its `proposal_begin`
and the next check-in. `calls` are the tool calls in flight, each at one of its awaits
(`Places`): `CallBegin` is `begin` up to its read of the journal, `BeginAnswers` the rest;
`CallCommit`, `ExistingFound` / `ExistingNone`, `CheckinFound` / `WaitTimesOut` are `commit`
up to the queue; `AlreadyBatched`, `PublishBefore`, `TreeDirty`, `PublishWindow` its exclusive
section, `RetryFails` and `RetrySucceeds` that of a retry, `Finishes` the `finally`, which
runs only after the queue has started its next task. `tasks` is the work queue with its
running head; the stream's batch and the operator's rebuild compete in it. The stream is its
pause flag and its position (`ChangeStream` models the rest). Applying, generating and
committing one segment is one step: the queue excludes every other task meanwhile, and what
may still happen (journal entries, a timer, an abort, a new call) commutes with it. `credit`
and `commitsOf` are the git log, `windowed` and `abandoned` history.

`Attribution` is the promise: each edit is credited once, and a proposal's commit credits all
of its edits at once. It does not hold of the code without conditions on its surroundings, so
`Circumstances` names them one by one: a passing run leaves out what would break its property,
and section 6 says what each one breaks. With `Circumstances = {}` faults are still failed
journal reads and failed generations of a window.

### VersionFollower

The server's history is a sequence of check-ins: the functions each touched, those whose call
signature it changed, and whether it changed something no event describes. The worker keeps
three versions apart, because the code can let them differ: the one it believes it is at
(`openVersion`), the one its program is at, and the one of its checkout file. A step is
computed over several calls to the server (`StartCompute`, `ReadChangeSet`, `CheckLatest`,
`OpenAndTranslate`), and check-ins or a rollback may land between any two. Requests wait in
the worker's input, also those whose caller gave up. The consumer is the version each
function was last read at, in memory and on disk. A batch reads at the program's version at
that moment, callers included unless the event says they are unaffected.

`spoiled` is history: circumstances the code does not survive, each named, each excepted only
by the properties it breaks, and each with its counterexample in section 6.

### LocalWorker

One client process, one worker, a pipe each way. Calls are identified by the ids the code
gives them; results carry what they read and at which version. `LaneContinues` is a lane of
`mapWindowed` between two awaits, `LanesThrow` its end. On the worker's side reads start in
the order of the input and end in any, while `get_changes` waits for idle on the reader
thread. Timeouts, failed reads, an exit with everything in the pipes lost, and a second run
of `mapWindowed` while calls of the first are still in flight.

### ModelVerifier

A record is the version that last changed it. A check-in names some symbols in its events and
misses others; those are what the sweep is for. The poller (`GetChanges` moves the program
before the batch arrives), the work queue's tasks (batch, repair, rebuild) and the sweep's
steps interleave: `StepStarts` reads `isIdle` and `versionMoved`, `ReadKey` is one read,
`Interrupted` and `ThrownAway` the two checks after them, `StepCounts` the saved cursor,
`Update` the hand-over of what was found. `sweep.overtaken` is history: a whole task ran
inside the step.

### FactCache

The program is a value for each of its parts: a function's code, the layout and names of a
shared type, the memory map. A run reads texts, stamps, and then, for the functions its cache
cannot vouch for, self stamp, decompile, type stamps (one per script, whoever asks first),
labels and the program's stamp, each at its own moment; edits come between any two. A stamp
is the part's value, a text the parts it shows, and the facts everything the decompile saw.

## 3. Runs

| Run | Bounds | Shows |
|-|-|-|
| `queue` | 5 tasks: 2 foldable batches, a rebuild, 2 merges | the six properties of the queue, with `QueueFairSpec` |
| `stream` | 3 changes, 3 faults | `NeverSkip`, arrival, refinement of `JournalConsumer` |
| `stream_unreadable` | 3 changes, 3 faults, the check may fail | types and `NoLostWakeup`, ignored batches included |
| `pipeline` | 2 units, 2 changes, 3 contents, 2 builds, 2 faults | `MixedTreeIsNotTrusted`, `SavedTreeIsCurrent`, `ReuseIsSound`, `SeqFoldedIntoSnapshot`, `CommitsNeverRegress`, `EverythingReachesTheTree` |
| `boundary` | 2 proposals, 2 calls, 4 entries, 1 fault, no circumstance | refinement of `Attribution`, `OwnerCommitsNoWindow`, `HeldMeansPaused` |
| `boundary_faulty` | 1 proposal, 1 call, 3 entries, 2 faults, every failure | `EveryEditIsCommitted` |
| `loop` | 3 setups, 2 versions, 3 faults | `ReachedIsCommitted`, `OnlyTrustedIsGenerated`, `EveryStopIsLeft` |
| `follower` | 2 functions, one calling the other, 3 versions, pages of 2, 2 faults, remote and checkout | `NothingSkipped`, `CallersReread`, `OtherChangesStop`, `BatchReadsItsVersion`, `AnswersAreTheHistory`, `CatchesUp` |
| `follower_paging` | the same, 2 versions, pages of 1 | finding: `NothingSkipped` broken |
| `worker` | window 2, runs of up to 3 items, 2 runs, 2 polls, 2 versions, 2 faults | `ResultsAreRight`, `NoReadStraddles`, `ReadsFollowTheChanges`, `EveryCallReturns` |
| `verifier` | 2 functions, a global, the type order, 3 versions, 2 faults | `CommitIsOfItsVersion`, `CountedIsEvidence`, `StaleIsRepaired` |
| `facts` | 2 functions, 2 values of each part, 3 edits, 2 extractions, 2 script versions | `CurrentMeansRight`, `StampNeverNewer`, `QuietRunIsRight` |

Why the bounds are enough. The queue's two merges and two batches let every kind meet itself and
every other, one task more than can be folded. In the stream, three changes are one applied, one
in the batch and one in the queue, and three faults allow a failed batch, a lost connection and
a restart in one behaviour. In the pipeline, two units are one that changes and one that does
not, two changes let the second fall into any step of the first one's task, and two faults are a
failure followed by a crash. Bounds are conjuncts of the guards (`MaxSeq`, `MaxContent`,
`MaxBuild`, `MaxFaults`). `MayRevert = FALSE` keeps a symbol, and the generator, from returning
to an earlier content; with it true the reuse is unsound (section 6). In the boundary, four
entries are two proposals with an edit and a check-in each, or one proposal with the owner's
edits before, inside and after its window; two calls are a begin or commit repeated, or of the
other proposal. The liveness run has one proposal, its edit and its check-in, an edit of the
owner, and two faults for a failed window and a failed retry.

In the follower, three versions are a step of one, a step of two folded into one, and a
check-in during either; two functions are a callee and its caller, and two events fill
`MaxEvents` and a page. In the worker, three items in a window of two make a lane take a
second item, and two runs are a run and its retry. In the verifier, a batch size of two puts
two reads into a step, and three lists are every transition of the cursor. In the fact cache,
two functions share a type's stamp, three edits are one before, one during and one between two
extractions, and the second extraction meets what the first one left.

In the live loop, two versions are one committed and one stopped on, and three faults are a
stop, an edit of the modified tree or a failed retry, and a restart.

`CHECK_DEADLOCK FALSE` is set for the stream, the live loop, the follower, the worker, the
verifier and the fact cache: once the bounded journal, calls, edits and faults are spent nothing
is left to do. Every module but the two abstract specifications has a `TypeOK`; the
configurations of `queue` and `stream_unreadable` list it, and it is a theorem for all of them
(section 5).

## 4. Fairness

`WorkQueue`: a started task finishes, because the rebuild child, git and the worker's commands
carry timeouts. `ChangeStream`: the reconnect loop, the reader and timers keep running and a
handler returns; pausing, resuming, accepting a model and proposing are the operator's and are
not fair. `RegenPipeline`: the steps of a task follow each other, a stopped daemon is started
again, the watch polls (an interval timer), and a batch that is waiting is eventually taken
although other tasks compete for the queue (strong fairness: the stream redelivers after every
failure and the queue is first in, first out). `ProposalBoundary`: calls and tasks go on and the
hold's timer fires; nobody is obliged to call, abort, pause or resume. The stream's release is
strongly fair: clients who began a new hold within every quiet period, for ever, would starve
it, and no code prevents that. `LiveLoop`: the stream and the queue go on, and the operator does
what the messages ask: resolves and commits, calls `retry_merge` and `rebuild` while something
is behind, resumes, and restarts after missing facts. `EveryStopIsLeft` is about there being a
way out, not about anybody's diligence. `VersionFollower`: the worker's reader thread goes on,
the poll timer fires, a handler returns. `LocalWorker`: the worker's threads run and the client
reads its lines; no timer is assumed, so `EveryCallReturns` does not lean on the timeouts.
`ModelVerifier`: the poll timer, the queue, the expiry of a hold and the sweep's own timer. Weak
fairness of one disjunction per process: each is a thread or an event loop that takes some step
when it can.

## 5. Proofs

Every module's constants carry one named assumption, and each theorem holds for all values it
admits: any number of changes, units, calls, items, faults. Four hypotheses are stated where a
theorem needs them, `~CheckMayFail`, `MayRevert = FALSE`, a bound on `Circumstances` (`{}` or
`\subseteq {"abandons"}`) and `StepsFit`. They hold in the runs, and section 6 has
counterexamples without them. Exceptions that a property itself names
(`missed`, `Lost`, tags of `spoiled`, `overtaken`) are in the theorem as they are in the run.

Every safety theorem has the same shape: the properties follow from an invariant (`IInv`, or
the name given below) that holds initially and is kept by each action of `Next`, a case or a lemma for each. `SpecInv` states
it, and the following says what it adds and why the properties are not inductive without it.

`FollowerQueueProofs`, the queue. `QueueInv` adds to the types and `OneAtATime` that the drain guard is up
exactly while a task runs (`LoopActive`), that nothing is pending without a running task
(`LoopWillCome`) and `BlockedHoldsOnlyRecovery`. The last one is what makes it inductive: it
implies that every pending entry may run, so a turn of the loop always takes the first one
(`TurnTakesFirst`), which also gives `StartsInOrder`.

`FollowerQueueProofs`, the follower. The invariants build on each other, each proved with the
ones before it. `Inv`: a request that waits at the worker was asked from the position the stream
is still at (`RequestsKnown`), and the last answer and a batch handed over are of the version
opened (`CacheKnown`, `BatchKnown`). `OpenKnown`: that is the version the program is at, which
gives `BatchReadsItsVersion`. `Fresh`: nobody is ahead of the server (`Behind`), and a step that
opens has read everything its range touched (`WorkFresh`), because `checkLatest()` sent it back
whenever the server had moved. `Telling`: the events kept, and those of a batch, tell everything
to be heard between the two versions they connect (`CacheTells`, `BatchTells`), which is
preserved by a history that grows behind them. What a position covers then follows batch by
batch: `OthersKnown` gives `OtherChangesStop`; `ReadKnown` gives `NothingSkipped` and, with the
callers, `CallersReread`. `CacheIs` is `AnswersAreTheHistory` without the latest version in it.

The last but two assume `StepsFit`, that no step has more events than the page the stream asks
for: `MaxEvents <= Limit`, or fewer functions than `Limit`. With the numbers of the code
(200,000 events a step, pages of 10,000) the first is false, so there the theorems speak of
programs with fewer than 10,000 functions; of larger steps `NothingSkipped` is false, and that
is the finding of `follower_paging`. `OtherChangesStop` needs no such hypothesis: the event that
stops the consumer is the first of its step.

`Translate` puts what a step touched in the order of addresses. That every finite set of numbers
has its enumeration in order (`InOrderIs`) is proved from a counterexample with the fewest
members (`Least`), without an induction theorem.
The sequence is chosen (`CHOOSE`) instead of computed by a recursive operator of the community
modules, and a page is cut by counting, so that both can be reasoned about.

`ChangeStreamProofs`. `SpecTypeOK` and `SpecNoLostWakeup` need no more than
`StreamAssumption`. `SpecNeverSkip` and the refinement `SpecConsumesTheJournal` assume
`~CheckMayFail`, without which they are false (section 6). `NeverSkip` is far from
inductive: `SInv` states that below any queued change everything is accounted for or in hand
(`QueueClosed`), below any change of the batch everything is accounted for or in the batch
(`BatchClosed`), that what the server has sent was dropped as accounted for or is in hand
(`CursorClosed`), and that a stopped loop has a paused stream, or a connection whose first
frame will pause it (`StoppedOrTold`). The redelivery of changes already in the queue is why
these speak of sets and not of an order. The refinement is then step by step, the history
variables giving the abstract ones.

`RegenPipelineProofs`. The five properties are five views of one chain: the contents of a unit
are ordered from the committed tree over the staging tree, the snapshot and the model to Ghidra
(`ContentsInOrder`), and each saved or running position stands for changes that are in what it
was saved with (`CoverInv`), a unit whose re-read failed excepted. A text equal at both ends of
the chain is equal all along it, which is why reuse is sound after any generation that broke
off. The batch being applied is where the order alone says too little: what it has not reached
yet is in `toRead` (`BatchIsReadOrDue`). The builds of the texts are kept apart (`BuildInv`): a
hash, and a text not to be written again, are of the build they are recorded under or of a later
one. That does not depend on contents, so `SpecMixedTreeIsNotTrusted` holds with a lost snapshot
too. All but the types assume `MayRevert = FALSE`: an order is no order when contents return.

`LiveLoopProofs`. Two arguments that do not meet. The trees are in one order, from the modified
tree over the branch, the synced worktree and the snapshot to the model and the server
(`TreesInOrder`), and every position reported or saved lies in them (`Reached`), which gives
`ReachedIsCommitted`. And a blocked queue holds nothing but a retried merge
(`BlockedMergesOnly`), so while a stop keeps it blocked nothing that generates can start
(`StopsBlock`), which gives `OnlyTrustedIsGenerated`.

`ProposalBoundaryProofs`. Calls of different proposals interleave at every await, so the
invariant is about each call in flight (`Flight`): it is the holder's and its window is still to
come, or there is nothing left for it to publish (`Settled`), because the model is past where
its proposal began or because the window found there is not the proposal's. `QueueInv` keeps
batches out of the way of a window (a batch queued under a hold stands behind no call),
`ReadingInv` isolates the one await at which `begin` has not recorded its hold, `WindowInv` and
`ModelInv` say that an edit in the model and in no commit belongs to the window left behind or
to a proposal given up. `HeldMeansPaused`, `OwnerCommitsNoWindow` and the right credit follow, and `SpecAttribution`
maps each step to one of `Attribution` or a stutter: a commit of the window credits all of a
proposal's edits at once since its edits have no check-in between them (`ProposalInv`).
`SpecTypeOK` holds whatever the circumstances. `SpecInv`, `SpecHeldMeansPaused` and
`SpecOwnerCommitsNoWindow` allow `"abandons"`, a window given up by `proposal_abort` after it was
applied, so the exception of `OwnerCommitsNoWindow` does occur in its theorem; `SpecAttribution`
allows none, since a window given up lands in another's commit. Failed journal reads and failed
generations of a window are included in all of them. Section 6 says which circumstances break
which property. TLC with two faults finds `HeldMeansPaused` unbroken by `"shared-symbol"` or
`"unnamed-transaction"`; that is not proved.

`LocalWorkerProofs`. An id ties a result to its item: nothing on its way has the id of a call not
made yet (`IdsMade`), and what has the id of a call still awaited is for its item, read no
earlier than the call was made (`AnswersServe`); an id given up after a timeout is never made
again. A run resolves when its last lane ends, and it is complete then because its lanes are
exactly its calls awaited (`LanesCounted`), and an item is read, awaited or not yet taken
(`LanesAwait`). The types need more than a step at a time shows: that an awaited id is one call's
(`CallsTyped`) and that one run goes on at a time (`OneRuns`).

`ModelVerifierProofs`. Committed tree, model, label, worker and server are in this order
(`VersionsInv`), so a worker found at the model's version fixes the label between them; the batch
being applied is of the version the worker is at, since the stream asks for no other meanwhile
(`TasksInv`, `StreamInv`). A sweep's reads are at versions that only grow, and ending at the
model's version they were all made there, unless a task has changed the model under them
(`SweepInv`). The types rest on that order: no version held anywhere is later than the server's.
`OneTask` is the part about the queue: the update of a step is in it exactly while the step waits
for it, and one task for the batch in hand. That the last key of a step is one (`LastKey`) needs
its list to be finite, and that finitely many numbers have a bound (`Bounded`) is proved from the
shortest numbering without one.

`FactCacheProofs`. A stamp may be older than the facts beside it: the stamps of the types are one
per script, and labels are read after a function's stamp. The invariant says why that is harmless
(`Passed`): the part it is older in was edited during the extraction, so the program has moved
past the stamp, and stays past it unless that part is taken back to an earlier value, which is
the tag `"reverted"`. `QuietInv` is the same row by row with nobody editing.

What is only model-checked. Liveness under fairness is out of the prover's reach:
`EveryCallerHears`, `EveryChangeArrives`, `EverythingReachesTheTree`, `EveryEditIsCommitted`,
`EveryStopIsLeft`, `CatchesUp`, `EveryCallReturns`, `StaleIsRepaired`. Every safety invariant and
action property of a passing run, and both refinements, are stated by a theorem, and so is the
`TypeOK` of each module that has theorems.

## 6. Findings

One is a run that violates its property, quoted in `PROJECT.json`: an answer longer than a page
loses the rest of its events (`follower_paging`).

The models show more of the kind; each line names a configuration to change and the
property TLC then finds violated.

- `ChangeStream.cfg`, `CheckMayFail = TRUE`, `NeverSkip`: a start whose journal check fails
  stops the loop but not the stream, and later saves pass the ignored changes
  (`main.ts:650`).
- `RegenPipeline.cfg`, `MayRevert = TRUE`, `ReuseIsSound`: a generation that failed leaves text
  that a reverted edit makes reusable (`main.ts:886`, against its comment at 891).
- `RegenPipeline.cfg`, without `~Lost` in `SeqFoldedIntoSnapshot`: a crash inside
  `writeSnapshot`'s swap loses the directory, and the next start reseeds an old one under a
  newer seq (`snapshot.ts:197`).
- `ProposalBoundary.cfg`, `Circumstances = {"ordinary-fails"}`, `CreditIsRight`: an ordinary
  batch is applied and its generation fails; `committedSeq()` answers `model.seq`
  (`main.ts:1436`, against "Highest seq whose effect is in the committed tree",
  `proposal.ts:348`), and the proposal's commit that follows carries the owner's edits.
- `LiveLoop.cfg`, with one tag of `spoiled` no longer excepted: `"placed"`,
  `ReachedIsCommitted` (a crash in the first generation of a daemon that has saved no state:
  the snapshot already names the batch's version, the next start takes its position from it
  (`main.ts:338`), and the batch is neither applied nor generated again, against "a crash
  between generation and commit therefore replays the batch", 814); `"label"`, the same (a
  batch that failed has already moved `programVersion`, `main.ts:775`, and a rebuild of the
  watch or the operator publishes the older tree under it); `"retry"`, the same
  (`retry_merge` publishes the tree as it is and then saves `model.seq`, `main.ts:1013`, although
  no tree of that model was generated); `"unblocked"`, `OnlyTrustedIsGenerated`
  (`retry_merge` lifts a block whatever it was for, `main.ts:1345` and 1361).
- `LiveLoop.cfg`, `EveryStopIsLeft` without its exception: `rebuildNow` is "the operator's way
  out of a full-resync stop" (`main.ts:1200`) and is refused while that stop blocks the queue
  (`queue.ts:80`); with a modified tree or a publish command `retry_merge` opens the way, a
  daemon that only commits has none but a restart.
- `ProposalBoundary.cfg` with one call in flight and `Circumstances = {"abandons"}`,
  `CreditIsRight`: a proposal given up after it was applied puts its edits into the next one's
  commit (`proposal.ts:501`).
- `VersionFollower.cfg`, with one tag of `spoiled` no longer excepted: `"start"`,
  `NothingSkipped` (a check-in between opening the program and asking its version,
  `StdioWorker.java:117`); `"update"`, `CallersReread` or `OtherChangesStop` (a step that fails
  after the checkout was updated: the old program it should be compared with is gone,
  `VersionFollower.java:178`); `"number"` and `"rollback"`, `NothingSkipped` (a version rolled
  back and given out again keeps its number).
- `LocalWorker.cfg`, `INVARIANT OneWindow`: the lanes of a rejected run go on beside the lanes
  of its retry, more than `limit` requests in all (`pool.ts:34`).
- `ModelVerifier.cfg`, `PROPERTY AheadForAMoment`: a version that recorded no event moves the
  worker and the stream's position and never `model.seq`, so the worker counts as ahead
  until some later version records one, the sweep stands still, and `verify_now`'s updates are
  not published (`main.ts:493`, against the "for a moment" of 486). The same state is the
  `Passed` of `StaleIsRepaired`.
- the same, without `Free({"rebuild"})`, `CommitIsOfItsVersion`: an operator's rebuild asked
  for in the moment the worker is ahead publishes newer records under the older version
  (`main.ts:1213`; `applyStale` checks, `rebuildNow` does not).
- the same, without `Free({"unpublished"})`, `StaleIsRepaired`: a generation that fails after the
  verifier's update is repeated by nothing, and the sweep finds nothing to repair.
- the same, without `~sweep.overtaken`, `CountedIsEvidence`: a task that began and ended inside
  a step leaves no trace the step looks at (`verifier.ts:578`).
- `FactCache.cfg`, without the tag `"program"`, `StampNeverNewer`: the program's stamp is read at
  the end of the script, after every function's check that nothing moved
  (`function-facts.ts:483`, against "a stored stamp is never newer than the facts beside it",
  33-34).
- the same, without the tag `"reverted"`, `CurrentMeansRight`: an edit undone while the labels
  are read restores every stamp and leaves the facts of the state in between.
- `MCWorkQueue.cfg`, `INVARIANT ResolvedMeansRan`: a submission folded into a pending batch
  resolves at once, because `submit()` returns the queue entry (`queue.ts:90`). Latent: one
  stream submits one batch at a time.
- `ChangeStream.cfg`, `INVARIANT EachChangeOnce`: a reconnect queues waiting changes again
  (`events.ts:232`). Harmless, repeated work.
- `ProposalBoundary.cfg`, `Circumstances = {"begin-races"}`, `HeldMeansPaused`: an operator's
  resume, or the repeated commit of an earlier proposal, during `begin`'s await sets the
  stream going under the hold that follows (`proposal.ts:474`). Here, and with `{"no-hold"}`,
  `CreditIsRight` breaks as well.
- the same, `{"no-hold"}`: a hold that expires or is aborted under its commit, or a commit by
  `sinceSeq` alone, leaves the stream running over a window whose generation then fails
  (`proposal.ts:616`). So does a second commit in flight, with
  `{"ordinary-fails"}` or `{"commit-throws"}` and `MaxFaults = 2`.
- the same, `{"commit-throws"}`, `OwnerCommitsNoWindow`: when `git commit` fails nothing
  remembers the window, and the next ordinary commit takes it (`proposal.ts:614`).
- the same, `{"unnamed-transaction"}`, `CreditIsRight`: an edit and a check-in by the owner
  inside the hold pass for the proposal when the caller does not name its transaction
  (`proposal.ts:683`).
- the same, `{"shared-symbol"}`, `CreditIsRight`: a later edit of the same symbol is in the
  re-read (`model.ts:960`).

## 7. What is not modelled

The batch pipeline, C++ parser, transform plugins, analysis, code generation, lint and
censuses are one-pass functions over large inputs: a model of them would repeat the code and
TLC could only check inputs the fixtures already cover. They are the bulk of the repository's
lines, which is why the share of lines modelled is small. The MCP surface forwards calls.
Frame parsing, the reconnect back-off, logs and status texts are left out. Git and the Ghidra
server are external, modelled from how the daemon uses them.

`extract/incremental.ts` is exported, called nowhere, and talks to commands nothing in the
repository serves. The source cache and `cache.ts` are maps keyed by content. The checkout
guard is a fixed list of commands. The worker's `localCopy` mode differs from the remote one
in where the old program is read from and is not in the run's `Modes`.

## 8. Plan

1. Proofs: the circumstances under which `HeldMeansPaused` and `OwnerCommitsNoWindow` survive,
   taken out of their hypotheses one by one.
2. `DirtyUnits`: the selection as a closure, against a reference definition of what a
   generation reads, over all small programs.
