------------------------------ MODULE WorkQueue ------------------------------
(***************************************************************************)
(* The live daemon's single work queue, packages/live/src/queue.ts.        *)
(*                                                                         *)
(* A task is a model value of its own: submitting the same kind of work    *)
(* twice is two tasks.  `promise` is what the caller of submit() holds,    *)
(* `carries` the work an entry does once a later task was folded into it,  *)
(* and `done` the work that has run to completion.                         *)
(*                                                                         *)
(* A step is what JavaScript runs between two awaits.  submit() is         *)
(* synchronous up to the first await of the task it starts, and the drain  *)
(* loop goes from settling one task to starting the next without yielding. *)
(*                                                                         *)
(* QueueInit, QueueNext and QueueSpec carry the queue's name so that a     *)
(* module can extend this one together with another component's.           *)
(***************************************************************************)
EXTENDS Integers, FiniteSets, Sequences, SequencesExt

CONSTANTS
    Tasks,      \* everything that will ever be submitted
    KindOf,     \* the kind of each task
    Foldable    \* the tasks submitted with `absorb` and with `events`

Kinds == {"apply", "rebuild", "merge", "full-regen", "measure", "proposal", "verify"}

\* WorkQueue.runsWhileBlocked: the recovery path.
RunsWhileBlocked == {"merge", "measure"}

ASSUME TasksAssumption ==
    /\ KindOf \in [Tasks -> Kinds]
    /\ Foldable \subseteq Tasks

VARIABLES
    pending,    \* accepted and not started, in submission order
    running,    \* the tasks whose run() has been called and not returned
    draining,   \* the guard of the drain loop
    blocked,    \* a block reason is set
    promise,    \* [Tasks -> PromiseStates]
    carries,    \* [Tasks -> SUBSET Tasks], the entry itself and what it absorbed
    done        \* tasks whose work has run to completion

queueVars == <<pending, running, draining, blocked, promise, carries, done>>

PromiseStates == {"none", "waiting", "resolved", "rejected"}

QueueTypeOK ==
    /\ pending \in Seq(Tasks)
    /\ running \subseteq Tasks
    /\ draining \in BOOLEAN
    /\ blocked \in BOOLEAN
    /\ promise \in [Tasks -> PromiseStates]
    /\ carries \in [Tasks -> SUBSET Tasks]
    /\ done \subseteq Tasks

QueueInit ==
    /\ pending = <<>>
    /\ running = {}
    /\ draining = FALSE
    /\ blocked = FALSE
    /\ promise = [t \in Tasks |-> "none"]
    /\ carries = [t \in Tasks |-> {t}]
    /\ done = {}

-----------------------------------------------------------------------------

MayRun(t, isBlocked) == isBlocked => KindOf[t] \in RunsWhileBlocked

\* findIndex: the positions the drain loop may take an entry from, and the first of them.
RunnableIn(queue, isBlocked) == {i \in 1..Len(queue) : MayRun(queue[i], isBlocked)}

IsFirst(i, S) == i \in S /\ \A j \in S : i <= j

\* Variant: the loop condition as it once was, `pending.length && !this.blocked`.
DrainTurnOnce(queue, isBlocked, others) ==
    IF isBlocked \/ queue = <<>>
    THEN pending' = queue /\ running' = others /\ draining' = FALSE
    ELSE pending' = Tail(queue) /\ running' = others \cup {Head(queue)} /\ draining' = TRUE

\* One turn of the drain loop over `queue`, after which the tasks of `others` are the
\* ones still running: start the first entry that may run, or leave the loop.
DrainTurn(queue, isBlocked, others) ==
    LET candidates == RunnableIn(queue, isBlocked)
    IN  \/ /\ candidates = {}
           /\ pending' = queue
           /\ running' = others
           /\ draining' = FALSE
        \/ \E i \in candidates :
              /\ IsFirst(i, candidates)
              /\ pending' = RemoveAt(queue, i)
              /\ running' = others \cup {queue[i]}
              /\ draining' = TRUE

\* Variant: no `draining` guard.
DrainUnguarded(queue, isBlocked) == DrainTurn(queue, isBlocked, running)

\* drain(): a loop that is already active sees the new entry by itself.
Drain(queue, isBlocked) ==
    IF draining
    THEN pending' = queue /\ UNCHANGED <<running, draining>>
    ELSE DrainTurn(queue, isBlocked, running)

\* entry.task.kind === task.kind && entry.task.absorb?.(task)
Absorbs(entry, t) ==
    /\ KindOf[entry] = KindOf[t]
    /\ {entry, t} \subseteq Foldable

Absorbers(t) == {i \in 1..Len(pending) : Absorbs(pending[i], t)}

\* Variant: a blocked queue that holds work back instead of refusing it.
RefusedNever(t) == FALSE

Refused(t) == blocked /\ KindOf[t] \notin RunsWhileBlocked

SubmitRefused(t) ==
    /\ promise[t] = "none"
    /\ Refused(t)
    /\ promise' = [promise EXCEPT ![t] = "rejected"]
    /\ UNCHANGED <<pending, running, draining, blocked, carries, done>>

\* The pending ENTRY is returned where a promise is expected.  It has no `then`, so an
\* `await` on it completes at once.
SubmitFolded(t) ==
    /\ promise[t] = "none"
    /\ ~Refused(t)
    /\ \E i \in Absorbers(t) :
          /\ IsFirst(i, Absorbers(t))
          /\ carries' = [carries EXCEPT ![pending[i]] = @ \cup {t}]
    /\ promise' = [promise EXCEPT ![t] = "resolved"]
    /\ UNCHANGED <<pending, running, draining, blocked, done>>

SubmitQueued(t) ==
    /\ promise[t] = "none"
    /\ ~Refused(t)
    /\ Absorbers(t) = {}
    /\ promise' = [promise EXCEPT ![t] = "waiting"]
    /\ Drain(Append(pending, t), blocked)
    /\ UNCHANGED <<blocked, carries, done>>

\* Variants: block() leaves the entries queued, forgets their callers, or hands them the
\* reason itself.
BlockKeepingPending ==
    /\ blocked' = TRUE
    /\ UNCHANGED <<pending, running, draining, promise, carries, done>>

BlockForgettingCallers ==
    /\ blocked' = TRUE
    /\ pending' = <<>>
    /\ UNCHANGED <<running, draining, promise, carries, done>>

BlockHandingReason ==
    /\ blocked' = TRUE
    /\ promise' = [t \in Tasks |-> IF t \in Range(pending) THEN "blocked" ELSE promise[t]]
    /\ pending' = <<>>
    /\ UNCHANGED <<running, draining, carries, done>>

\* block(): by the running task, by the change stream's callback, by a failed resume.  A
\* second block() finds only recovery work pending, and rejects that too.
Block ==
    /\ blocked' = TRUE
    /\ promise' = [t \in Tasks |-> IF t \in Range(pending) THEN "rejected" ELSE promise[t]]
    /\ pending' = <<>>
    /\ UNCHANGED <<running, draining, carries, done>>

Unblock ==
    /\ blocked
    /\ blocked' = FALSE
    /\ Drain(pending, FALSE)
    /\ UNCHANGED <<promise, carries, done>>

Finish(t) ==
    /\ t \in running
    /\ \/ /\ promise' = [promise EXCEPT ![t] = "resolved"]
          /\ done' = done \cup carries[t]
       \/ /\ promise' = [promise EXCEPT ![t] = "rejected"]
          /\ UNCHANGED done
    /\ DrainTurn(pending, blocked, running \ {t})
    /\ UNCHANGED <<blocked, carries>>

QueueNext ==
    \/ \E t \in Tasks : SubmitRefused(t) \/ SubmitFolded(t) \/ SubmitQueued(t)
    \/ \E t \in Tasks : Finish(t)
    \/ Block
    \/ Unblock

QueueSpec == QueueInit /\ [][QueueNext]_queueVars

-----------------------------------------------------------------------------
(* Properties.                                                             *)

\* Two rebuilds share the scratch output, the reuse directory and the identifier cache,
\* a merge needs a tree nobody writes: at most one task is between start and return.
OneAtATime == \A a, b \in running : a = b

\* An entry that may run is never left in `pending` with no loop to start it.  The loop
\* that stopped at the first entry not allowed to run stranded retry_merge this way.
NothingStranded == RunnableIn(pending, blocked) # {} => running # {}

\* While blocked nothing waits that would run later, silently, on a state nobody
\* confirmed: whatever is pending is on the recovery path.
BlockedHoldsOnlyRecovery ==
    blocked => \A t \in Range(pending) : KindOf[t] \in RunsWhileBlocked

\* Although the loop may pick any runnable entry, no task overtakes one that was
\* submitted before it: blocking never leaves an entry to be jumped over.
StartsInOrder ==
    [][\A t \in running' \ running : pending # <<>> => t = Head(pending)]_queueVars

\* Every caller hears back: its task ran, failed, was refused or was dropped by a block.
\* Only a task that never returns keeps callers waiting: git, the rebuild child and the
\* publish command carry no timeout, so nothing here assumes that a started task ends, or
\* that an operator submits, blocks or unblocks.
EveryCallerHears ==
    \/ \A t \in Tasks : (promise[t] = "waiting") ~> (promise[t] # "waiting")
    \/ \E t \in Tasks : <>[](t \in running)

\* "Resolves with the task's result once it has run."
ResolvedMeansRan == \A t \in Tasks : promise[t] = "resolved" => t \in done

=============================================================================
