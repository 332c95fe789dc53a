----------------------------- MODULE ModelVerifier -----------------------------
(***************************************************************************)
(* The rolling verifier, packages/live/src/verifier.ts, with its host in   *)
(* main.ts (isIdle, workerVersionMoved, applyStale): a sweep that reads    *)
(* every symbol again from the local worker and sends those the model      *)
(* holds stale through the ordinary update.                                *)
(*                                                                         *)
(* A symbol's record is the version that last changed it, or Gone.  A      *)
(* check-in changes more symbols than its events name: the ones it misses  *)
(* are what the sweep is for.  It may add and remove symbols, a function   *)
(* unnamed only: the event for one stops the loop, which is not modelled   *)
(* here.  Three parties interleave: the poller, whose                      *)
(* get_changes moves the worker's program before its batch arrives; the    *)
(* work queue; and the sweep, between its awaits.                          *)
(*                                                                         *)
(* `spoiled` is history: what has happened that some property does not     *)
(* survive.                                                                *)
(*   "rebuild"      a rebuild was asked for while the worker was not at    *)
(*                  the model's version                                    *)
(*   "unpublished"  the model was updated and the generation, or a read    *)
(*                  after it, failed: until the next commit                *)
(***************************************************************************)
EXTENDS Integers, FiniteSets, Sequences, FiniteSetsExt, Functions

CONSTANTS
    Lists,          \* <<functions, data types, globals>>: finite sets of positive numbers, ordered as the keys are
    Order,          \* the type list's order, a record of its own
    BatchSize,      \* batchSize, typeBatchSize and globalBatchSize
    CheckIns,       \* [named, missed, gone]: what a check-in changes, by whether its events name it, and what it removes
    MaxVersion,     \* bound: versions on the server
    MaxFaults       \* bound: failures, restarts, holds and operator's calls

Symbols == (UNION Range(Lists)) \cup {Order}

ASSUME VerifierAssumption ==
    /\ Len(Lists) = 3 /\ \A p \in 1..3 : Lists[p] \subseteq Nat \ {0} /\ IsFiniteSet(Lists[p])
    /\ \A p, q \in 1..3 : p # q => Lists[p] \cap Lists[q] = {}
    /\ \A p \in 1..3 : Order \notin Lists[p]
    /\ BatchSize \in Nat \ {0}
    /\ \A c \in CheckIns : /\ c.named \subseteq Symbols /\ c.missed \subseteq Symbols
                           /\ c.gone \subseteq (c.named \cup c.missed) \ {Order}
                           /\ c.gone \cap c.named \cap Lists[1] = {}
    /\ MaxVersion \in Nat \ {0} /\ MaxFaults \in Nat

VARIABLES
    history,        \* the server: one record per version
    version,        \* the version the worker's program is at
    \* PollingChangeStream.
    stream,         \* "idle", "answered" (get_changes done, its answer not yet here), "batch"
    batch,          \* [upTo, keys]
    position,       \* the version of appliedSeq
    \* The daemon.
    model,          \* [Symbols -> version of the record held]
    modelVersion,   \* the version of model.seq
    label,          \* manifest.provenance.programVersion
    tasks,          \* the work queue, its head the running task
    held,           \* a proposal holds the stream
    snapshot,       \* the model on disk and its label, saved before each generation
    committed,      \* the last commit: the tree, the version of its seq, and its label
    \* ModelVerifier.
    cursor,         \* its persisted state: which list, and the last key done there
    sweep,          \* the step in progress
    spoiled, faults

streamVars == <<stream, batch, position>>
modelVars == <<model, modelVersion, label>>
daemonVars == <<modelVars, tasks, held, snapshot, committed>>
vars == <<history, version, streamVars, daemonVars, cursor, sweep, spoiled, faults>>

Versions == 1..MaxVersion
Latest == Len(history)

\* The record of a symbol in a version of the program: Gone if it is not there.
Gone == 0
LastChange(s, v) == Max({1} \cup {u \in 2..v : s \in history[u].named \cup history[u].missed})
Record(s, v) == IF s \in history[LastChange(s, v)].gone THEN Gone ELSE LastChange(s, v)
Contents(v) == [s \in Symbols |-> Record(s, v)]

NoChange == [named |-> {}, missed |-> {}, gone |-> {}]
NoBatch == [upTo |-> 0, keys |-> {}]
\* What a key of a step may hold besides the record it read.
Waiting == -1
Unread == -2

\* A function or a type the program no longer has reads like one that cannot be read, and one
\* the model lacks has nothing to be compared with.  A global is read with all the labels
\* at its address, which may be none.
Told(s, read, had) == s \in Lists[1] \cup Lists[2] => Gone \notin {read, had}

IsStale(s, read, had) == read # Unread /\ read # had /\ Told(s, read, had)

\* A step over some keys, about to read.
StepOver(keys) ==
    [pc |-> "reading", base |-> model, got |-> [k \in keys |-> Waiting],
     found |-> {}, stale |-> {}, overtaken |-> FALSE]
NoStep == [pc |-> "idle", base |-> <<>>, got |-> <<>>, found |-> {}, stale |-> {}, overtaken |-> FALSE]
Keys == DOMAIN sweep.got

\* `sweeps`: a step of the sweep waits for it.
Task == [kind : {"apply", "verify", "rebuild"}, asked : SUBSET Symbols, todo : SUBSET Symbols, sweeps : BOOLEAN]

NewTask(kind, keys, sweeps) == [kind |-> kind, asked |-> keys, todo |-> keys, sweeps |-> sweeps]

TypeOK ==
    /\ history \in Seq(CheckIns \cup {NoChange})
    /\ Latest \in Versions /\ version \in 1..Latest
    /\ stream \in {"idle", "answered", "batch"}
    /\ batch \in [upTo : {0} \cup Versions, keys : SUBSET Symbols] /\ position \in Versions
    /\ model \in [Symbols -> {Gone} \cup Versions] /\ modelVersion \in Versions /\ label \in Versions
    /\ tasks \in Seq(Task) /\ held \in BOOLEAN
    /\ snapshot \in [tree : [Symbols -> {Gone} \cup Versions], label : Versions]
    /\ committed \in [tree : [Symbols -> {Gone} \cup Versions], version : Versions, label : Versions]
    /\ cursor \in [phase : 1..3, key : Nat]
    /\ sweep.pc \in {"idle", "ordering", "reading", "compared", "counted", "updating"}
    /\ Keys \subseteq Symbols
    /\ sweep.found \subseteq Symbols
    \* One step or verify_now at a time, and its update is the queue's to finish.
    /\ Cardinality({i \in 1..Len(tasks) : tasks[i].sweeps}) = (IF sweep.pc = "updating" THEN 1 ELSE 0)
    /\ Cardinality({i \in 1..Len(tasks) : tasks[i].kind = "apply"}) = (IF stream = "batch" THEN 1 ELSE 0)
    /\ spoiled \subseteq {"rebuild", "unpublished"} /\ faults \in 0..MaxFaults

Init ==
    /\ history = <<NoChange>> /\ version = 1
    /\ stream = "idle" /\ batch = NoBatch /\ position = 1
    /\ model = Contents(1) /\ modelVersion = 1 /\ label = 1
    /\ tasks = <<>> /\ held = FALSE
    /\ snapshot = [tree |-> model, label |-> 1]
    /\ committed = [tree |-> model, version |-> 1, label |-> 1]
    /\ cursor = [phase |-> 1, key |-> 0] /\ sweep = NoStep
    /\ spoiled = {} /\ faults = 0

Fault == faults < MaxFaults /\ faults' = faults + 1

-----------------------------------------------------------------------------
(* The server and the poller.                                              *)

CheckIn ==
    /\ Latest < MaxVersion
    /\ \E c \in CheckIns :
          /\ \A s \in c.gone \cup (c.named \cap Lists[1]) : Record(s, Latest) # Gone
          /\ history' = Append(history, c)
    /\ UNCHANGED <<version, streamVars, daemonVars, cursor, sweep, spoiled, faults>>

\* get_changes at the worker: the program is at the new version before the answer is sent.
GetChanges ==
    /\ stream = "idle" /\ ~held
    /\ Latest # position \/ Latest # version
    /\ version' = Latest
    /\ stream' = "answered"
    /\ batch' = [upTo |-> Latest, keys |-> UNION {history[v].named : v \in (position + 1)..Latest}]
    /\ UNCHANGED <<history, position, daemonVars, cursor, sweep, spoiled, faults>>

AnswerLost ==
    /\ stream = "answered"
    /\ Fault
    /\ stream' = "idle" /\ batch' = NoBatch
    /\ UNCHANGED <<history, version, position, daemonVars, cursor, sweep, spoiled>>

\* A version that recorded nothing moves the position of the stream only.
NothingRecorded ==
    /\ stream = "answered" /\ batch.keys = {}
    /\ position' = batch.upTo
    /\ stream' = "idle" /\ batch' = NoBatch
    /\ UNCHANGED <<history, version, daemonVars, cursor, sweep, spoiled, faults>>

BatchArrives ==
    /\ stream = "answered" /\ batch.keys # {}
    /\ stream' = "batch"
    /\ tasks' = Append(tasks, NewTask("apply", batch.keys, FALSE))
    /\ UNCHANGED <<history, version, batch, position, modelVars, held, snapshot, committed, cursor, sweep, spoiled, faults>>

-----------------------------------------------------------------------------
(* The host: applyBatch, applyStale, rebuildAndPublish on the work queue.  *)

Busy == tasks # <<>>
Running(kind) == Busy /\ Head(tasks).kind = kind

\* isIdle()
Idle == ~Busy /\ ~held /\ stream # "batch"

\* workerVersionMoved()
Moved == version # modelVersion

\* The batch's version is the tree's before its first record is read.
Labelled == IF Running("apply") THEN Max({label, batch.upTo}) ELSE label

\* applyStale, once it has read a record.
Started == Head(tasks).todo # Head(tasks).asked

\* The event of a batch is that of a type's removal, for which nothing is read.
Removed(s) == Running("apply") /\ s \in Lists[2] /\ Record(s, batch.upTo) = Gone

\* What a symbol's record becomes, read at whatever version the worker is at: a function or a
\* type that is not there to be read keeps the one it has.
Reread(s) ==
    IF Removed(s) THEN Gone
    ELSE IF s \in Lists[1] \cup Lists[2] /\ Record(s, version) = Gone THEN model[s]
    ELSE Record(s, version)

\* One record is read again, or cannot be and is kept.  A hold keeps an update from starting,
\* not from going on.
Refresh ==
    /\ Running("apply") \/ (Running("verify") /\ (held => Started))
    /\ \E s \in Head(tasks).todo :
          /\ \/ model' = [model EXCEPT ![s] = Reread(s)] /\ UNCHANGED faults
             \/ ~Removed(s) /\ UNCHANGED model /\ Fault
          /\ tasks' = [tasks EXCEPT ![1].todo = @ \ {s}]
    /\ label' = Labelled
    /\ UNCHANGED <<history, version, streamVars, modelVersion, held, snapshot, committed, cursor, sweep, spoiled>>

\* A step whose reads the model's version moves under, or a whole task runs inside of.
Overtaken == IF sweep.pc \in {"reading", "compared"} THEN [sweep EXCEPT !.overtaken = TRUE] ELSE sweep

\* applyEvents is done: the model is at the batch's version before anything is generated.
EventsApplied ==
    /\ Running("apply") /\ Head(tasks).todo = {} /\ modelVersion < batch.upTo
    /\ modelVersion' = batch.upTo
    /\ label' = Labelled
    /\ sweep' = Overtaken
    /\ UNCHANGED <<history, version, streamVars, model, tasks, held, snapshot, committed, cursor, spoiled, faults>>

\* The task at the head is over: the daemon may be idle again with a step still reading.
Finished(wasApplied) ==
    LET task == Head(tasks)
    IN  /\ tasks' = Tail(tasks)
        /\ IF task.kind = "apply"
           THEN /\ stream' = "idle" /\ batch' = NoBatch
                /\ position' = IF wasApplied THEN batch.upTo ELSE position
           ELSE UNCHANGED streamVars
        /\ sweep' = IF task.sweeps THEN NoStep ELSE Overtaken
        \* checkTypeOrder waits for its update, then the step moves on to the types.
        /\ cursor' = IF task.sweeps /\ sweep.found = {Order} THEN [phase |-> 2, key |-> 0] ELSE cursor

\* rebuild() saves the model before the child process generates from it.
Save == snapshot' = [tree |-> model, label |-> label']

\* What failed before is in this commit too.
Publish(v) ==
    /\ Save
    /\ committed' = [tree |-> model, version |-> v, label |-> label']
    /\ spoiled' = spoiled \ {"unpublished"}

\* All is read, and the task goes on to rebuildAndPublish.
Publishing ==
    /\ Busy /\ Head(tasks).todo = {}
    /\ Running("apply") => modelVersion >= batch.upTo
    /\ Running("verify") => ~Moved

ApplyEnds ==
    /\ Running("apply") /\ Publishing
    /\ label' = Labelled
    /\ Publish(modelVersion)
    /\ Finished(TRUE)
    /\ UNCHANGED <<history, version, model, modelVersion, held, faults>>

\* Variant: what was read is published, whatever version it was read at.
VerifyEndsPublishing ==
    /\ Running("verify") /\ Head(tasks).todo = {}
    /\ UNCHANGED label /\ Publish(modelVersion)
    /\ Finished(TRUE)
    /\ UNCHANGED <<history, version, model, modelVersion, held, faults>>

\* Published only if what was read belongs to the model's version.
VerifyEnds ==
    /\ Running("verify") /\ Head(tasks).todo = {}
    /\ UNCHANGED label
    /\ IF Moved THEN UNCHANGED <<snapshot, committed, spoiled>> ELSE Publish(modelVersion)
    /\ Finished(TRUE)
    /\ UNCHANGED <<history, version, model, modelVersion, held, faults>>

\* rebuildNow, and the rebuilds its watches ask for.
AskRebuild ==
    /\ Fault
    /\ tasks' = Append(tasks, NewTask("rebuild", {}, FALSE))
    /\ UNCHANGED <<history, version, streamVars, modelVars, held, snapshot, committed, cursor, sweep, spoiled>>

RebuildEnds ==
    /\ Running("rebuild")
    /\ UNCHANGED label
    /\ Save
    /\ committed' = [tree |-> model, version |-> modelVersion, label |-> label]
    /\ spoiled' = (spoiled \ {"unpublished"}) \cup (IF Moved THEN {"rebuild"} ELSE {})
    /\ Finished(TRUE)
    /\ UNCHANGED <<history, version, model, modelVersion, held, faults>>

\* Nothing is committed, and the task has succeeded all the same.
GenerationFails ==
    /\ Publishing
    /\ Fault
    /\ label' = Labelled
    /\ Save
    /\ Finished(TRUE)
    /\ spoiled' = spoiled \cup {"unpublished"}
    /\ UNCHANGED <<history, version, model, modelVersion, held, committed>>

\* applyStale refuses during a hold.
Refused ==
    /\ Running("verify") /\ held /\ ~Started
    /\ Finished(FALSE)
    /\ UNCHANGED <<history, version, modelVars, held, snapshot, committed, spoiled, faults>>

\* A task throws, in its reads or, with the model saved, in its commit: what was read so far
\* stays in the model, and the version it has reached.
TaskFails ==
    /\ Busy
    /\ Fault
    /\ label' = Labelled
    /\ (Publishing /\ Save) \/ UNCHANGED snapshot
    /\ Finished(FALSE)
    /\ spoiled' = IF Running("verify") /\ Started THEN spoiled \cup {"unpublished"} ELSE spoiled
    /\ UNCHANGED <<history, version, model, modelVersion, held, committed>>

Hold ==
    /\ ~held
    /\ Fault
    /\ held' = TRUE
    /\ UNCHANGED <<history, version, streamVars, modelVars, tasks, snapshot, committed, cursor, sweep, spoiled>>

Release ==
    /\ held
    /\ held' = FALSE
    /\ UNCHANGED <<history, version, streamVars, modelVars, tasks, snapshot, committed, cursor, sweep, spoiled, faults>>

\* The daemon starts again, and its worker with it: the model is the one last generated
\* from, the position the last commit's, the sweep where its cursor was saved.
Restart ==
    /\ Fault
    /\ version' = Latest
    /\ stream' = "idle" /\ batch' = NoBatch /\ position' = committed.version
    /\ model' = snapshot.tree /\ modelVersion' = committed.version /\ label' = snapshot.label
    /\ tasks' = <<>> /\ held' = FALSE /\ sweep' = NoStep
    /\ spoiled' = IF snapshot.tree = committed.tree THEN spoiled \ {"unpublished"} ELSE spoiled
    /\ UNCHANGED <<history, snapshot, committed, cursor>>

-----------------------------------------------------------------------------
(* The sweep.                                                              *)

\* Only what the model holds is ever asked about.
After(p, k) == {j \in Lists[p] : j > k /\ model[j] # Gone}

\* nextKeys(): the first BatchSize keys after the cursor.
NextKeys ==
    LET rest == After(cursor.phase, cursor.key)
    IN  {k \in rest : Cardinality({j \in rest : j < k}) < BatchSize}

\* doStep() up to its reads.  A step that finds the version moved has no effect.
StepStarts ==
    /\ sweep.pc = "idle" /\ Idle /\ ~Moved
    /\ NextKeys # {}
    /\ sweep' = StepOver(NextKeys)
    /\ UNCHANGED <<history, version, streamVars, daemonVars, cursor, spoiled, faults>>

\* A lane reads one more key, unless something else wants the worker.  Globals are read by
\* one call for the whole step, which nothing interrupts.
ReadKey ==
    /\ sweep.pc = "reading"
    /\ Idle \/ cursor.phase = 3
    /\ \E k \in Keys :
          /\ sweep.got[k] = Waiting
          /\ \/ sweep' = [sweep EXCEPT !.got[k] = Record(k, version)] /\ UNCHANGED faults
             \/ sweep' = [sweep EXCEPT !.got[k] = Unread] /\ Fault
    /\ UNCHANGED <<history, version, streamVars, daemonVars, cursor, spoiled>>

\* A function is compared with its record in the model now, a type or a global with the one
\* the step began with.
Held(k) == IF cursor.phase = 1 THEN model[k] ELSE sweep.base[k]

Differs(k) == IsStale(k, sweep.got[k], Held(k))

\* Not idle: everything the step read is thrown away.
Interrupted ==
    /\ sweep.pc = "reading" /\ ~Idle
    /\ sweep' = NoStep
    /\ UNCHANGED <<history, version, streamVars, daemonVars, cursor, spoiled, faults>>

Compare ==
    /\ sweep.pc = "reading" /\ Idle
    /\ \A k \in Keys : sweep.got[k] # Waiting
    /\ sweep' = [sweep EXCEPT !.pc = "compared",
                              !.found = {k \in Keys : Differs(k)},
                              !.stale = {k \in Keys : model[k] # Record(k, modelVersion)}]
    /\ UNCHANGED <<history, version, streamVars, daemonVars, cursor, spoiled, faults>>

\* The version is asked again; a call that fails counts as moved.
ThrownAway ==
    /\ sweep.pc = "compared"
    /\ (Moved /\ UNCHANGED faults) \/ Fault
    /\ sweep' = NoStep
    /\ UNCHANGED <<history, version, streamVars, daemonVars, cursor, spoiled>>

Counted == IF sweep.found = {} THEN NoStep ELSE [sweep EXCEPT !.pc = "counted"]

\* Variant: the version is not asked after the reads.
StepCountsUnasked ==
    /\ sweep.pc = "compared"
    /\ cursor' = [cursor EXCEPT !.key = Max(Keys)]
    /\ sweep' = Counted
    /\ UNCHANGED <<history, version, streamVars, daemonVars, spoiled, faults>>

\* The keys are done, and saved as done, before the update of those found stale is asked for.
StepCounts ==
    /\ sweep.pc = "compared" /\ ~Moved
    /\ cursor' = [cursor EXCEPT !.key = Max(Keys)]
    /\ sweep' = Counted
    /\ UNCHANGED <<history, version, streamVars, daemonVars, spoiled, faults>>

AskUpdate(found) ==
    /\ tasks' = Append(tasks, NewTask("verify", found, TRUE))
    /\ UNCHANGED <<history, version, streamVars, modelVars, held, snapshot, committed, spoiled, faults>>

Update ==
    /\ sweep.pc = "counted"
    /\ AskUpdate(sweep.found)
    /\ sweep' = [sweep EXCEPT !.pc = "updating"]
    /\ UNCHANGED cursor

-----------------------------------------------------------------------------
(* The ends of the three lists.                                            *)

\* checkTypeOrder(), once a cycle: the listing is read ...
ReadOrder ==
    /\ sweep.pc = "idle" /\ Idle /\ ~Moved
    /\ cursor.phase = 1 /\ NextKeys = {}
    /\ sweep' = [StepOver({Order}) EXCEPT !.pc = "ordering", !.got[Order] = Record(Order, version)]
    /\ UNCHANGED <<history, version, streamVars, daemonVars, cursor, spoiled, faults>>

\* ... and, unless something came up, the step goes on to the types, once a drift is updated.
OrderRead ==
    /\ sweep.pc = "ordering"
    /\ \/ /\ ~Idle \/ Moved
          /\ sweep' = NoStep
          /\ UNCHANGED <<history, version, streamVars, daemonVars, cursor, spoiled, faults>>
       \/ /\ Idle /\ ~Moved
          /\ sweep.got[Order] = model[Order]
          /\ sweep' = NoStep /\ cursor' = [phase |-> 2, key |-> 0]
          /\ UNCHANGED <<history, version, streamVars, daemonVars, spoiled, faults>>
       \/ /\ Idle /\ ~Moved
          /\ sweep.got[Order] # model[Order]
          /\ AskUpdate({Order})
          /\ sweep' = [sweep EXCEPT !.pc = "updating", !.found = {Order}]
          /\ UNCHANGED cursor

OrderUnread ==
    /\ sweep.pc = "ordering"
    /\ Fault
    /\ sweep' = NoStep /\ cursor' = [phase |-> 2, key |-> 0]
    /\ UNCHANGED <<history, version, streamVars, daemonVars, spoiled>>

\* Variant: the cycle ends where it is.
ListEndsForGood ==
    /\ sweep.pc = "idle" /\ Idle
    /\ cursor.phase = 2 /\ NextKeys = {}
    /\ cursor' = [phase |-> 3, key |-> 0]
    /\ UNCHANGED <<history, version, streamVars, daemonVars, sweep, spoiled, faults>>

\* From the types to the globals, and from the globals to a new cycle.
ListEnds ==
    /\ sweep.pc = "idle" /\ Idle
    /\ cursor.phase \in {2, 3} /\ NextKeys = {}
    /\ cursor' = [phase |-> IF cursor.phase = 2 THEN 3 ELSE 1, key |-> 0]
    /\ UNCHANGED <<history, version, streamVars, daemonVars, sweep, spoiled, faults>>

\* verify_now of one symbol that reads otherwise than the model holds it, between two steps
\* and whatever the daemon is doing: its update is not waited for.
VerifyNow ==
    /\ sweep.pc = "idle"
    /\ Fault
    /\ \E s \in Symbols \ {Order} :
          /\ IsStale(s, Record(s, version), model[s])
          /\ tasks' = Append(tasks, NewTask("verify", {s}, FALSE))
    /\ UNCHANGED <<history, version, streamVars, modelVars, held, snapshot, committed, cursor, sweep, spoiled>>

-----------------------------------------------------------------------------

Host == Refused \/ Refresh \/ EventsApplied \/ ApplyEnds \/ VerifyEnds \/ RebuildEnds

Sweep ==
    \/ StepStarts \/ ReadKey \/ Interrupted \/ Compare \/ ThrownAway \/ StepCounts \/ Update
    \/ ReadOrder \/ OrderRead \/ OrderUnread \/ ListEnds

Next ==
    \/ CheckIn \/ GetChanges \/ AnswerLost \/ NothingRecorded \/ BatchArrives
    \/ Host \/ TaskFails \/ GenerationFails \/ AskRebuild \/ Hold \/ Release \/ Restart
    \/ Sweep \/ VerifyNow

Spec == Init /\ [][Next]_vars

\* The poll timer, the queue, the expiry of a hold and the sweep's timer.
Fairness ==
    /\ WF_vars(GetChanges) /\ WF_vars(NothingRecorded \/ BatchArrives)
    /\ WF_vars(Host) /\ WF_vars(Release) /\ WF_vars(Sweep)

FairSpec == Spec /\ Fairness

-----------------------------------------------------------------------------
(* Properties.                                                             *)

Free(what) == spoiled \cap what = {}

\* What a step counts is evidence about the version the model is at: of the keys it could read,
\* it finds those that are stale there and no other, whatever the worker and the daemon did
\* between its reads.  A step a whole task ran inside of is not covered, nothing tells it
\* that the daemon was busy and is idle again (doStep, versionMoved); nor are the functions
\* and types the program no longer has, which are counted as unread.
CountedIsEvidence ==
    [][StepCounts /\ ~sweep.overtaken =>
          sweep.found = {k \in sweep.stale : /\ sweep.got[k] # Unread
                                             /\ k \in Lists[1] \cup Lists[2] => sweep.got[k] # Gone}]_vars

\* A commit holds no record of a later version than the one it is labelled with, and the
\* label is that of the position saved with it, while no rebuild is asked for in the moment
\* the worker is ahead of the model (applyStale's "publishing now would label it with this one").
CommitIsOfItsVersion ==
    Free({"rebuild"}) =>
        /\ committed.label = committed.version
        /\ \A s \in Symbols : committed.tree[s] <= committed.label

\* The stream has passed a version the model is not at: one that recorded nothing.
Passed == position > modelVersion

\* What no event said and the sweep cannot find: the model does not hold the symbol, so that it
\* is never among the next keys, or the program no longer has it and no event named its removal,
\* which is counted as unverified.
NeverFound(s) ==
    \/ model[s] = Gone /\ committed.tree[s] = Gone
    \/ /\ s \in Lists[1] \cup Lists[2]
       /\ Record(s, Latest) = Gone /\ s \notin history[LastChange(s, Latest)].named

\* Once the server is quiet, what the change records missed is found and committed, through
\* failures, restarts, holds and updates that were never asked for: the tree becomes that of
\* the latest version.  Three things stop it: a last version that recorded nothing (Passed), a
\* generation that failed and that nothing since has asked for again, and, for the symbol
\* alone, an addition or the removal of a function or type that no event named (NeverFound).
StaleIsRepaired ==
    []<>(\/ Passed \/ ~Free({"unpublished"})
         \/ \A s \in Symbols : committed.tree[s] = Record(s, Latest) \/ NeverFound(s))

\* The worker is ahead of the model only for a moment, until the batch of that version has
\* been applied (workerVersionMoved).
AheadForAMoment == []<>~Moved
===============================================================================
