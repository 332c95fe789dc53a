-------------------------------- MODULE LiveLoop --------------------------------
(***************************************************************************)
(* The control side of the daemon, LiveLoop of packages/live/src/main.ts   *)
(* over a local worker: what stops it and what starts it again.  A batch is applied, generated, *)
(* committed and merged into the hand-patched tree, or published by the    *)
(* target's own command; a resync stop, facts that could not be read, a    *)
(* conflict or a failed publish block the queue; and the operator's tools  *)
(* (rebuild, retry_merge, pause, resume, a restart) are the ways out.      *)
(*                                                                         *)
(* A change is a number, one to a version of the program.  A model and a   *)
(* tree are the last change in them; a model read from disk may hold more  *)
(* than its seq says.                                                      *)
(*                                                                         *)
(* `spoiled` is history: what has happened that some property does not     *)
(* survive.                                                                *)
(*   "unblocked"  retry_merge unblocked the queue while the model was not  *)
(*                to be trusted                                            *)
(*   "retry"      retry_merge published a tree older than the model        *)
(*   "label"      a tree was published under the version of a batch that   *)
(*                had failed                                               *)
(*   "placed"     a daemon that had saved no state took its position from  *)
(*                the snapshot's label                                     *)
(*   "accepted"   a rebuild accepted a model whose seq a stopped batch had *)
(*                moved past what it holds                                 *)
(***************************************************************************)
EXTENDS Integers, Sequences

CONSTANTS
    Setups,         \* of "commit", "merge" (D2_MODIFIED_DIR), "publish" (LIVE_PUBLISH_CMD)
    MaxSeq,         \* bound: changes
    MaxFaults       \* bound: failures, stops, restarts, pauses, edits of the modified tree

ASSUME LoopAssumption ==
    /\ Setups \subseteq {"commit", "merge", "publish"} /\ Setups # {}
    /\ {MaxSeq, MaxFaults} \subseteq Nat

VARIABLES
    setup,
    head,           \* changes on the server
    \* The stream.
    position, paused,
    \* The queue.
    tasks,          \* the running task and those waiting: [kind, upTo]
    step,           \* of the running task: "start", "applied", "generated", "committed"
    blocked,
    \* The loop.
    needsFullResync,
    model, seq,     \* the last change it holds, and model.seq
    lacking,        \* the model holds functions without their facts
    label,          \* manifest.provenance.programVersion
    committedVersion, gateRed,
    \* Disk and git.
    saved,          \* live-state.json's seq
    snapshot,       \* [model, label, lacking]
    synced,         \* the regen worktree
    committed,      \* its HEAD
    merged,         \* what of it the modified tree has
    modified,       \* that worktree: "clean", "edited" (uncommitted), "markers"
    spoiled, faults

streamVars == <<position, paused>>
queueVars == <<tasks, step, blocked>>
modelVars == <<needsFullResync, model, seq, lacking, label>>
reportVars == <<committedVersion, gateRed>>
treeVars == <<synced, committed, merged, modified>>
vars == <<setup, head, streamVars, queueVars, modelVars, reportVars, saved, snapshot, treeVars,
          spoiled, faults>>

Seqs == 0..MaxSeq
Kinds == {"apply", "rebuild", "watch", "merge"}

TypeOK ==
    /\ setup \in Setups /\ head \in Seqs
    /\ position \in Seqs /\ paused \in BOOLEAN
    /\ tasks \in Seq([kind : Kinds, upTo : Seqs])
    /\ \A i, j \in 1..Len(tasks) : tasks[i].kind = tasks[j].kind => i = j
    /\ step \in {"start", "applied", "generated", "committed"} /\ (tasks = <<>> => step = "start")
    /\ blocked \in BOOLEAN
    /\ blocked => \A i \in 2..Len(tasks) : tasks[i].kind = "merge"
    /\ needsFullResync \in BOOLEAN /\ lacking \in BOOLEAN
    /\ model \in Seqs /\ seq \in Seqs /\ label \in Seqs /\ position <= head
    /\ committedVersion \in Seqs /\ gateRed \in Seqs
    /\ saved \in Seqs /\ snapshot \in [model : Seqs, label : Seqs, lacking : BOOLEAN]
    /\ synced \in Seqs /\ committed \in Seqs /\ merged \in Seqs /\ merged <= committed
    /\ modified \in {"clean", "edited", "markers"}
    /\ spoiled \subseteq {"unblocked", "retry", "label", "placed", "accepted"} /\ faults \in 0..MaxFaults

Init ==
    /\ setup \in Setups /\ head = 0
    /\ position = 0 /\ paused = FALSE
    /\ tasks = <<>> /\ step = "start" /\ blocked = FALSE
    /\ needsFullResync = FALSE /\ model = 0 /\ seq = 0 /\ lacking = FALSE /\ label = 0
    /\ committedVersion = 0 /\ gateRed = 0
    /\ saved = 0 /\ snapshot = [model |-> 0, label |-> 0, lacking |-> FALSE]
    /\ synced = 0 /\ committed = 0 /\ merged = 0 /\ modified = "clean"
    /\ spoiled = {} /\ faults = 0

Fault == faults < MaxFaults /\ faults' = faults + 1

Later(s, t) == IF s < t THEN t ELSE s

-----------------------------------------------------------------------------
(* The queue (WorkQueue has it in full).                                   *)

Submitted(kind) == \E i \in 1..Len(tasks) : tasks[i].kind = kind
Running(kind) == tasks # <<>> /\ Head(tasks).kind = kind

\* At most one of each kind waits or runs.
Submit(kind, upTo) ==
    /\ ~Submitted(kind)
    /\ tasks' = Append(tasks, [kind |-> kind, upTo |-> upTo])

\* The running task ends; what waits goes on.  Only an apply task has a stream awaiting it.
Ends == tasks' = Tail(tasks) /\ step' = "start" /\ UNCHANGED blocked

\* It ends having blocked the queue, which rejects what waits.
EndsBlocking == tasks' = <<>> /\ step' = "start" /\ blocked' = TRUE

\* onBatch returned: the stream moves past the batch, whatever came of it.
BatchReturns == position' = IF Running("apply") THEN Later(position, Head(tasks).upTo) ELSE position

-----------------------------------------------------------------------------
(* Changes, and what is done with a batch of them.                         *)

Change ==
    /\ head < MaxSeq
    /\ head' = head + 1
    /\ UNCHANGED <<setup, streamVars, queueVars, modelVars, reportVars, saved, snapshot, treeVars,
                   spoiled, faults>>

\* A blocked queue refuses the batch, and the stream asks for it again.
Polled == ~paused /\ position < head /\ ~Submitted("apply")

BatchIgnored ==
    /\ Polled /\ needsFullResync
    /\ position' = head
    /\ UNCHANGED <<setup, head, paused, queueVars, modelVars, reportVars, saved, snapshot, treeVars,
                   spoiled, faults>>

BatchSubmitted ==
    /\ Polled /\ ~needsFullResync /\ ~blocked
    /\ Submit("apply", head)
    /\ UNCHANGED <<setup, head, streamVars, step, blocked, modelVars, reportVars, saved, snapshot,
                   treeVars, spoiled, faults>>

Applying == Running("apply") /\ step = "start"

\* The label is the batch's before its first symbol is read.
Labelled == label' = Later(label, Head(tasks).upTo)

Apply ==
    /\ Applying
    /\ Labelled
    /\ model' = Later(model, Head(tasks).upTo) /\ seq' = Later(seq, Head(tasks).upTo)
    /\ lacking' = FALSE
    /\ step' = "applied"
    /\ UNCHANGED <<setup, head, streamVars, tasks, blocked, needsFullResync, reportVars, saved,
                   snapshot, treeVars, spoiled, faults>>

ApplyThrows ==
    /\ Applying
    /\ Fault
    /\ Labelled
    /\ Ends
    /\ UNCHANGED <<setup, head, streamVars, needsFullResync, model, seq, lacking, reportVars, saved,
                   snapshot, treeVars, spoiled>>

\* A rollback or an event for the whole program: applyEvents() moves the model's seq over the
\* batch and reads none of it; onTruncated(), and the batch returns.
ApplyStops ==
    /\ Applying
    /\ Fault
    /\ Labelled
    /\ seq' = Later(seq, Head(tasks).upTo)
    /\ needsFullResync' = TRUE /\ paused' = TRUE
    /\ BatchReturns
    /\ EndsBlocking
    /\ UNCHANGED <<setup, head, model, lacking, reportVars, saved, snapshot, treeVars, spoiled>>

\* Variant: the stream alone is stopped.
StopOnFactsPausing ==
    /\ Applying
    /\ Fault
    /\ Labelled
    /\ lacking' = TRUE
    /\ paused' = TRUE
    /\ Ends
    /\ UNCHANGED <<setup, head, position, needsFullResync, model, seq, reportVars, saved, snapshot,
                   treeVars, spoiled>>

StopOnFacts ==
    /\ Applying
    /\ Fault
    /\ Labelled
    /\ lacking' = TRUE
    /\ paused' = TRUE
    /\ EndsBlocking
    /\ UNCHANGED <<setup, head, position, needsFullResync, model, seq, reportVars, saved, snapshot,
                   treeVars, spoiled>>

-----------------------------------------------------------------------------
(* rebuildAndPublish().                                                    *)

\* A batch is applied first, a rebuild is not.
MayGenerate == (Running("apply") /\ step = "applied") \/ ((Running("rebuild") \/ Running("watch")) /\ step = "start")

\* doRebuildNow(): accepting the model in hand clears a resync stop.
Accepts == Running("rebuild") /\ needsFullResync

Accepted ==
    /\ needsFullResync' = IF Accepts THEN FALSE ELSE needsFullResync
    /\ paused' = IF Accepts THEN FALSE ELSE paused
    /\ snapshot' = [model |-> model, label |-> label, lacking |-> lacking]
    /\ spoiled' = IF Accepts /\ seq > model THEN spoiled \cup {"accepted"} ELSE spoiled
    /\ UNCHANGED <<model, seq, lacking, label>>

\* The child generates and the regen worktree is synced.
Generate ==
    /\ MayGenerate
    /\ Accepted
    /\ synced' = model
    /\ step' = "generated"
    /\ UNCHANGED <<setup, head, position, tasks, blocked, reportVars, saved, committed, merged,
                   modified, faults>>

\* Nothing is synced, and the task has succeeded all the same.
GenerationFails ==
    /\ MayGenerate
    /\ Fault
    /\ Accepted
    /\ BatchReturns
    /\ Ends
    /\ UNCHANGED <<setup, head, reportVars, saved, treeVars>>

\* commitRegen(), saveLiveState(), and in a daemon without a modified tree the end.
Commit ==
    /\ setup # "publish" /\ step = "generated"
    /\ committed' = synced
    /\ saved' = seq /\ committedVersion' = seq
    /\ IF setup = "merge" THEN step' = "committed" /\ UNCHANGED <<tasks, blocked, position>>
       ELSE Ends /\ BatchReturns
    /\ UNCHANGED <<setup, head, paused, modelVars, gateRed, snapshot, synced, merged, modified,
                   spoiled, faults>>

\* `git commit` throws, or the sync before it.
CommitThrows ==
    /\ setup # "publish" /\ step = "generated"
    /\ Fault
    /\ Ends
    /\ UNCHANGED <<setup, head, streamVars, modelVars, reportVars, saved, snapshot, treeVars, spoiled>>

\* mergeIntoModified(): what comes of it, and the trees after it.
MergeOutcome(outcome) ==
    CASE outcome = "dirty"    -> modified # "clean" /\ UNCHANGED <<merged, modified, faults>>
      [] outcome = "clean"    -> modified = "clean" /\ merged' = committed /\ UNCHANGED <<modified, faults>>
      [] outcome = "conflict" -> modified = "clean" /\ merged # committed /\ modified' = "markers" /\ Fault
                                    /\ UNCHANGED merged
      [] outcome = "error"    -> modified = "clean" /\ Fault /\ UNCHANGED <<merged, modified>>

Merge ==
    /\ step = "committed"
    /\ \E outcome \in {"dirty", "clean", "conflict", "error"} :
          /\ MergeOutcome(outcome)
          /\ IF outcome \in {"conflict", "error"} THEN EndsBlocking ELSE Ends
    /\ BatchReturns
    /\ UNCHANGED <<setup, head, paused, modelVars, reportVars, saved, snapshot, synced, committed,
                   spoiled>>

-----------------------------------------------------------------------------
(* publish().                                                              *)

\* The target's command: it commits the regen worktree, merges, and builds.
PublishCommand(code) ==
    CASE code = 0 -> /\ modified = "clean" /\ committed' = synced /\ merged' = synced
                     /\ UNCHANGED <<modified, faults>>
      [] code = 3 -> /\ modified = "clean" /\ committed' = synced /\ merged # synced
                     /\ modified' = "markers" /\ Fault /\ UNCHANGED merged
      [] code = 4 -> /\ modified = "clean" /\ committed' = synced /\ merged' = synced
                     /\ Fault /\ UNCHANGED modified
      [] code = 5 -> /\ modified # "clean" /\ committed' = synced
                     /\ UNCHANGED <<merged, modified, faults>>
      [] OTHER    -> committed' \in {committed, synced} /\ Fault /\ UNCHANGED <<merged, modified>>

\* publishBlockReason()
Blocks(code) == code \in {1, 3}

\* Variant: the state is saved whatever came of it.
RecordsAlways(code) ==
    /\ saved' = seq /\ committedVersion' = label
    /\ gateRed' = IF code = 0 THEN 0 ELSE IF code = 4 /\ gateRed = 0 THEN label ELSE gateRed

\* The state is saved when a commit landed or there was nothing to do.
Records(code) ==
    /\ IF committed' # committed \/ code = 0
       THEN saved' = seq /\ committedVersion' = label
       ELSE UNCHANGED <<saved, committedVersion>>
    /\ gateRed' = IF code = 0 THEN 0 ELSE IF code = 4 /\ gateRed = 0 THEN label ELSE gateRed

Publish ==
    /\ setup = "publish" /\ step = "generated"
    /\ \E code \in {0, 1, 3, 4, 5} :
          /\ PublishCommand(code)
          /\ Records(code)
          /\ IF Blocks(code) THEN EndsBlocking ELSE Ends
    /\ BatchReturns
    /\ spoiled' = IF label > model THEN spoiled \cup {"label"} ELSE spoiled
    /\ UNCHANGED <<setup, head, paused, modelVars, snapshot, synced>>

-----------------------------------------------------------------------------
(* The operator's tools, and the watch.                                    *)

\* isIdle()
Idle == tasks = <<>> /\ ~blocked /\ ~needsFullResync /\ ~paused

\* A foreign source or the generator changed.
WatchRebuilds ==
    /\ Idle
    /\ Fault
    /\ Submit("watch", 0)
    /\ UNCHANGED <<setup, head, streamVars, step, blocked, modelVars, reportVars, saved, snapshot,
                   treeVars, spoiled>>

\* rebuildNow(): refused while the queue is blocked.
AskRebuild ==
    /\ ~blocked
    /\ needsFullResync \/ synced # model \/ committed # synced \/ faults < MaxFaults
    /\ Submit("rebuild", 0)
    /\ UNCHANGED <<setup, head, streamVars, step, blocked, modelVars, reportVars, saved, snapshot,
                   treeVars, spoiled, faults>>

AskMerge ==
    /\ blocked \/ (setup # "commit" /\ merged # committed) \/ faults < MaxFaults
    /\ Submit("merge", 0)
    /\ UNCHANGED <<setup, head, streamVars, step, blocked, modelVars, reportVars, saved, snapshot,
                   treeVars, spoiled, faults>>

\* Variant: the queue stays blocked.
UnblocksNever(good) == Ends /\ UNCHANGED spoiled

\* retry_merge unblocks after a good outcome, whatever the queue was blocked for.
Unblocks(good) ==
    /\ tasks' = Tail(tasks) /\ step' = "start"
    /\ blocked' = (blocked /\ ~good)
    /\ spoiled' = spoiled \cup (IF blocked /\ good /\ (needsFullResync \/ lacking) THEN {"unblocked"} ELSE {})

\* doRetryMerge() with a modified tree, and without one.
RetryMerge ==
    /\ setup # "publish" /\ Running("merge")
    /\ \/ /\ setup = "commit"
          /\ Ends
          /\ UNCHANGED <<merged, modified, spoiled, faults>>
       \/ /\ setup = "merge"
          /\ \E outcome \in {"dirty", "clean", "conflict", "error"} :
                MergeOutcome(outcome) /\ Unblocks(outcome = "clean")
    /\ UNCHANGED <<setup, head, streamVars, modelVars, reportVars, saved, snapshot, synced, committed>>

\* doRetryMerge() with a publish command: the whole command again, over the tree as it is.
RetryPublish ==
    /\ setup = "publish" /\ Running("merge")
    /\ \E code \in {0, 1, 3, 4, 5} :
          /\ PublishCommand(code)
          /\ Records(code)
          /\ IF Blocks(code)
             THEN /\ EndsBlocking
                  /\ spoiled' = IF synced # model \/ label > model THEN spoiled \cup {"retry"} ELSE spoiled
             ELSE /\ tasks' = Tail(tasks) /\ step' = "start" /\ blocked' = FALSE
                  /\ spoiled' = spoiled
                        \cup (IF synced # model \/ label > model THEN {"retry"} ELSE {})
                        \cup (IF blocked /\ (needsFullResync \/ lacking) THEN {"unblocked"} ELSE {})
    /\ UNCHANGED <<setup, head, streamVars, modelVars, snapshot, synced>>

Pause ==
    /\ ~paused
    /\ Fault
    /\ paused' = TRUE
    /\ UNCHANGED <<setup, head, position, queueVars, modelVars, reportVars, saved, snapshot, treeVars, spoiled>>

Resume ==
    /\ paused /\ ~needsFullResync
    /\ paused' = FALSE
    /\ UNCHANGED <<setup, head, position, queueVars, modelVars, reportVars, saved, snapshot, treeVars,
                   spoiled, faults>>

\* Somebody works in the modified tree, resolving what is there, and commits.
EditModified ==
    /\ setup # "commit" /\ modified = "clean"
    /\ Fault
    /\ modified' = "edited"
    /\ UNCHANGED <<setup, head, streamVars, queueVars, modelVars, reportVars, saved, snapshot, synced,
                   committed, merged, spoiled>>

\* A resolved conflict is the merge that left it, of a commit since the last one.
CommitModified ==
    /\ modified # "clean"
    /\ modified' = "clean"
    /\ merged' \in IF modified = "markers" THEN (merged + 1)..committed ELSE {merged}
    /\ UNCHANGED <<setup, head, streamVars, queueVars, modelVars, reportVars, saved, snapshot, synced,
                   committed, spoiled, faults>>

\* The seq a daemon starts at: with no state saved, the version of its snapshot.
Placed == IF saved = 0 THEN snapshot.label ELSE saved

\* start(): the block and the stops are forgotten, but a journal that cannot be resumed
\* stops the new daemon before it has a stream to pause.
Starts(resumable) ==
    /\ tasks' = <<>> /\ step' = "start"
    /\ position' = Placed /\ seq' = Placed /\ committedVersion' = Placed
    /\ model' = snapshot.model /\ label' = snapshot.label /\ lacking' = snapshot.lacking
    /\ paused' = FALSE /\ gateRed' = 0
    /\ needsFullResync' = ~resumable /\ blocked' = ~resumable
    /\ spoiled' = IF Placed > saved THEN spoiled \cup {"placed"} ELSE spoiled
    /\ UNCHANGED <<setup, head, saved, snapshot, treeVars>>

Crash == Fault /\ \E resumable \in BOOLEAN : Starts(resumable)

\* "Fix the cause, then restart the daemon to apply the batch again."
RestartForFacts ==
    /\ lacking /\ ~snapshot.lacking
    /\ Starts(TRUE)
    /\ UNCHANGED faults

-----------------------------------------------------------------------------

Task ==
    \/ Apply \/ ApplyThrows \/ ApplyStops \/ StopOnFacts
    \/ Generate \/ GenerationFails \/ Commit \/ CommitThrows \/ Merge \/ Publish
    \/ RetryMerge \/ RetryPublish

Next ==
    \/ Change \/ BatchIgnored \/ BatchSubmitted
    \/ Task
    \/ WatchRebuilds \/ AskRebuild \/ AskMerge \/ Pause \/ Resume
    \/ EditModified \/ CommitModified \/ Crash \/ RestartForFacts

Spec == Init /\ [][Next]_vars

\* The stream and the queue go on.  The operator does what the daemon asks for: resolves and
\* commits, calls retry_merge and rebuild while something is behind, resumes, and restarts
\* after missing facts.
Fairness ==
    /\ WF_vars(BatchIgnored \/ BatchSubmitted) /\ WF_vars(Task)
    /\ WF_vars(CommitModified)
    /\ WF_vars(AskMerge) /\ WF_vars(AskRebuild) /\ WF_vars(Resume) /\ WF_vars(RestartForFacts)

FairSpec == Spec /\ Fairness

-----------------------------------------------------------------------------
(* Properties.                                                             *)

\* A model that lacks facts, or that a resync stop says is not to be trusted, is never
\* generated from ("nothing more is generated or published from it: the stream stops and the
\* queue refuses work"; "refuses to compute anything from a model whose relationship to the
\* program is unknown"), unless the operator accepts it with a rebuild, or retry_merge has
\* lifted the block.
OnlyTrustedIsGenerated ==
    [][step # "generated" /\ step' = "generated" /\ "unblocked" \notin spoiled
          => ~lacking /\ (needsFullResync => Running("rebuild"))]_vars

\* What waitForVersion answers, and what is saved to start from, has been committed ("resolve
\* once a tree at or past it is committed", "the seq is persisted only after the commit
\* lands"), whatever the publish command returned and however often it is run again.  A
\* rebuild by which the operator accepts a model that a stopped batch had left behind its
\* seq is excepted: what it saves names changes that no tree holds.
ReachedIsCommitted ==
    spoiled \cap {"retry", "label", "placed", "accepted"} = {} => committedVersion <= committed /\ saved <= committed

Settled ==
    /\ ~blocked /\ ~needsFullResync /\ position = head
    /\ committed = synced
    /\ setup # "commit" => merged = committed /\ modified = "clean"

\* No block is for ever.  When the operator resolves, retries, rebuilds and resumes as the
\* daemon's messages ask, the queue takes work again and every tree generated is committed
\* and merged.  The exception is a resync stop in a daemon that only commits: rebuild is
\* refused, and there is nothing to merge.
EveryStopIsLeft == []<>(Settled \/ (setup = "commit" /\ needsFullResync))

==============================================================================
