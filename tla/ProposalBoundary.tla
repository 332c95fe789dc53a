--------------------------- MODULE ProposalBoundary ---------------------------
(***************************************************************************)
(* ProposalBoundary of packages/live/src/proposal.ts with its host in      *)
(* main.ts (boundaryHost, publishSegment): one contributor's edits, and    *)
(* nothing else, in one commit of their name.                              *)
(*                                                                         *)
(* The journal is a sequence of edits and check-ins by the owner or by a   *)
(* proposal, each of which is one transaction.  `calls` are the tool calls *)
(* being answered, each between two of its awaits; proposal_abort and      *)
(* operator_pause / resume do not await.  `tasks` is the work queue, its   *)
(* head the running task: the stream's batch, the operator's rebuild or a  *)
(* commit call's exclusive section.                                        *)
(*                                                                         *)
(* Circumstances names what may happen besides; each is a way for the      *)
(* attribution or the hold to be lost.                                     *)
(***************************************************************************)
EXTENDS Integers, Sequences

CONSTANTS
    Proposals,
    Owner,
    None,
    Slots,          \* tool calls that may be in flight at once
    MaxSeq,         \* bound: entries of the journal
    MaxFaults,      \* bound: failed reads, generations and commits
    Circumstances

Known == {
    "ordinary-fails",       \* the generation of an ordinary commit may fail
    "commit-throws",        \* git may fail
    "abandons",             \* a window that was applied and not committed may be given up
    "no-hold",              \* a commit's hold may end under it, or be missing
    "unnamed-transaction",  \* the caller does not pass expectTxDescription
    "shared-symbol",        \* every edit is to one symbol
    "begin-races"           \* other tool calls arrive while proposal_begin awaits the journal
}

ASSUME BoundaryAssumption ==
    /\ MaxSeq \in Nat /\ MaxFaults \in Nat
    /\ Owner \notin Proposals /\ None \notin Proposals /\ Owner # None
    /\ {"batch", "rebuild"} \cap Slots = {}
    /\ Circumstances \subseteq Known

VARIABLES
    journal,
    \* The stream.
    paused,             \* ChangeStream.paused
    delivered,          \* entries up to here were handed to the loop
    batchEnd,           \* the last entry of the batch in hand
    \* The loop.
    operatorPaused,
    tasks,
    inModel,            \* the edits the model holds
    modelSeq,           \* model.seq, which committedSeq() answers
    consumedThrough,
    dirty,              \* the regen worktree holds changes of no commit
    \* The boundary.
    hold, unattributed,
    calls,
    \* What the callers were told, and history.
    granted,            \* [Proposals -> the head proposal_begin answered, or NotYet]
    windowed,           \* [Proposals -> the edits applied as its window]
    abandoned,          \* proposals given up after their edits were applied
    credit,             \* [1..MaxSeq -> the author whose commit holds the edit, or None]
    commitsOf,          \* [Proposals -> commits with its trailer]
    faults

streamVars == <<paused, delivered, batchEnd>>
modelVars == <<inModel, modelSeq, windowed>>
gitVars == <<dirty, credit, commitsOf>>
boundaryVars == <<hold, unattributed>>
vars == <<journal, streamVars, operatorPaused, tasks, modelVars, consumedThrough, gitVars,
          boundaryVars, calls, granted, abandoned, faults>>

Writers == Proposals \cup {Owner}
Seqs == 1..MaxSeq
NotYet == -1

Entry == [by : Writers, kind : {"edit", "checkin"}]

NoHold == [proposal |-> None, since |-> 0]
NoWindow == [proposal |-> None, since |-> 0, until |-> 0]
NoCall == [pc |-> "idle", proposal |-> None, since |-> 0, until |-> 0]

Holds == [proposal : Proposals \cup {None}, since : 0..MaxSeq]
Windows == [proposal : Proposals \cup {None}, since : 0..MaxSeq, until : 0..MaxSeq]

\* Where a call awaits: the journal of begin; then, of commit, git log, the check-in, its
\* turn on the queue or that of its retry, and, its task over, the caller's turn.
Places == {"idle", "reading", "asking", "waiting", "queued", "retrying", "finishing"}
Calls == [pc : Places, proposal : Proposals \cup {None}, since : 0..MaxSeq, until : 0..MaxSeq]

TypeOK ==
    /\ journal \in Seq(Entry) /\ Len(journal) <= MaxSeq
    /\ paused \in BOOLEAN /\ operatorPaused \in BOOLEAN
    /\ delivered \in 0..MaxSeq /\ batchEnd \in 0..MaxSeq
    /\ tasks \in Seq(Slots \cup {"batch", "rebuild"})
    /\ inModel \subseteq Seqs /\ modelSeq \in 0..MaxSeq /\ consumedThrough \in 0..MaxSeq
    /\ dirty \in BOOLEAN
    /\ hold \in Holds /\ unattributed \in Windows
    /\ calls \in [Slots -> Calls]
    /\ granted \in [Proposals -> {NotYet} \cup (0..MaxSeq)]
    /\ windowed \in [Proposals -> SUBSET Seqs]
    /\ abandoned \subseteq Proposals
    /\ credit \in [Seqs -> Writers \cup {None}]
    /\ commitsOf \in [Proposals -> Nat]
    /\ faults \in 0..MaxFaults

Init ==
    /\ journal = <<>>
    /\ paused = FALSE /\ operatorPaused = FALSE /\ delivered = 0 /\ batchEnd = 0
    /\ tasks = <<>>
    /\ inModel = {} /\ modelSeq = 0 /\ consumedThrough = 0 /\ dirty = FALSE
    /\ hold = NoHold /\ unattributed = NoWindow
    /\ calls = [s \in Slots |-> NoCall]
    /\ granted = [p \in Proposals |-> NotYet]
    /\ windowed = [p \in Proposals |-> {}] /\ abandoned = {}
    /\ credit = [e \in Seqs |-> None] /\ commitsOf = [p \in Proposals |-> 0]
    /\ faults = 0

Fault == faults < MaxFaults /\ faults' = faults + 1

Larger(a, b) == IF a > b THEN a ELSE b

Edits(S) == {e \in S : journal[e].kind = "edit"}

-----------------------------------------------------------------------------
(* Ghidra: the owner at any time, a proposal between its begin's answer and *)
(* its check-in.                                                            *)

EntriesOf(w, kind) == {e \in 1..Len(journal) : journal[e] = [by |-> w, kind |-> kind]}

Reading == {s \in Slots : calls[s].pc = "reading"}

\* One transaction: begun after begin's answer, over before the next check-in.
MayApply(p) ==
    /\ granted[p] # NotYet
    /\ \A s \in Reading : calls[s].proposal # p
    /\ \A e \in EntriesOf(p, "edit") : \A c \in e..Len(journal) : journal[c].kind = "edit"

MayCheckIn(p) == EntriesOf(p, "edit") # {} /\ EntriesOf(p, "checkin") = {}

Write(w, kind) ==
    /\ Len(journal) < MaxSeq
    /\ w \in Proposals => IF kind = "edit" THEN MayApply(w) ELSE MayCheckIn(w)
    /\ journal' = Append(journal, [by |-> w, kind |-> kind])
    /\ UNCHANGED <<streamVars, operatorPaused, tasks, modelVars, consumedThrough, gitVars,
                   boundaryVars, calls, granted, abandoned, faults>>

-----------------------------------------------------------------------------
(* The boundary's hold on the stream.                                       *)

Holding(h, u) == h # NoHold \/ u # NoWindow

\* this.hold?.proposal ?? this.unattributed?.identity.proposal
Busy(p) ==
    LET other == IF hold # NoHold THEN hold.proposal ELSE unattributed.proposal
    IN  other \notin {None, p}

\* releaseStream: an operator's own pause stays.
Release == paused' = (paused /\ operatorPaused)

ReleaseUnless(held) == IF held THEN UNCHANGED paused ELSE Release

\* Variant: forgets the hold and leaves the stream as it is.
FinishHolding(p, u) ==
    /\ hold' = IF hold.proposal = p THEN NoHold ELSE hold
    /\ UNCHANGED paused

\* finish(), with `u` the unattributed window by then.
Finish(p, u) ==
    /\ hold' = IF hold.proposal = p THEN NoHold ELSE hold
    /\ ReleaseUnless(Holding(hold', u))

CommitInFlight(p) ==
    \E s \in Slots : calls[s].proposal = p /\ calls[s].pc \notin {"idle", "reading"}

\* begin, up to its read of the journal.  It comes before the proposal's first edit.
CallBegin(s, p) ==
    /\ calls[s] = NoCall
    /\ EntriesOf(p, "edit") = {}
    /\ ~Busy(p)
    /\ hold = NoHold
    /\ "begin-races" \in Circumstances \/ \A t \in Slots : calls[t] = NoCall
    /\ paused' = TRUE
    /\ calls' = [calls EXCEPT ![s] = [NoCall EXCEPT !.pc = "reading", !.proposal = p]]
    /\ UNCHANGED <<journal, delivered, batchEnd, operatorPaused, tasks, modelVars,
                   consumedThrough, gitVars, boundaryVars, granted, abandoned, faults>>

BeginAnswers(s) ==
    /\ calls[s].pc = "reading"
    /\ hold' = [proposal |-> calls[s].proposal, since |-> Len(journal)]
    /\ granted' = [granted EXCEPT ![calls[s].proposal] = Len(journal)]
    /\ calls' = [calls EXCEPT ![s] = NoCall]
    /\ UNCHANGED <<journal, streamVars, operatorPaused, tasks, modelVars, consumedThrough,
                   gitVars, unattributed, abandoned, faults>>

BeginFails(s) ==
    /\ calls[s].pc = "reading"
    /\ Fault
    /\ ReleaseUnless(unattributed # NoWindow)
    /\ calls' = [calls EXCEPT ![s] = NoCall]
    /\ UNCHANGED <<journal, delivered, batchEnd, operatorPaused, tasks, modelVars,
                   consumedThrough, gitVars, boundaryVars, granted, abandoned>>

Abort(p) ==
    /\ p \in {hold.proposal, unattributed.proposal}
    /\ "no-hold" \in Circumstances \/ ~CommitInFlight(p)
    /\ "abandons" \in Circumstances \/ unattributed.proposal # p
    /\ hold' = IF hold.proposal = p THEN NoHold ELSE hold
    /\ IF unattributed.proposal = p
       THEN unattributed' = NoWindow /\ abandoned' = abandoned \cup {p}
       ELSE UNCHANGED <<unattributed, abandoned>>
    /\ ReleaseUnless(Holding(hold', unattributed'))
    /\ UNCHANGED <<journal, delivered, batchEnd, operatorPaused, tasks, modelVars,
                   consumedThrough, gitVars, calls, granted, faults>>

\* The hold's timer.
Expire ==
    /\ hold # NoHold
    /\ "no-hold" \in Circumstances \/ ~CommitInFlight(hold.proposal)
    /\ hold' = NoHold
    /\ ReleaseUnless(unattributed # NoWindow)
    /\ UNCHANGED <<journal, delivered, batchEnd, operatorPaused, tasks, modelVars,
                   consumedThrough, gitVars, unattributed, calls, granted, abandoned, faults>>

-----------------------------------------------------------------------------
(* proposal_commit, up to the queue.                                        *)

\* Between begin's call and its answer no other tool call arrives.
Quiet == "begin-races" \in Circumstances \/ Reading = {}

Move(s, pc) == calls' = [calls EXCEPT ![s].pc = pc]

Idle(s) == calls' = [calls EXCEPT ![s] = NoCall]

CallCommit(s, p) ==
    /\ calls[s] = NoCall
    /\ Quiet
    /\ granted[p] # NotYet
    /\ ~Busy(p)
    /\ \/ "no-hold" \in Circumstances
       \/ p \in {hold.proposal, unattributed.proposal}
       \/ commitsOf[p] > 0
    /\ calls' = [calls EXCEPT ![s] = [NoCall EXCEPT !.pc = "asking", !.proposal = p]]
    /\ UNCHANGED <<journal, streamVars, operatorPaused, tasks, modelVars, consumedThrough,
                   gitVars, boundaryVars, granted, abandoned, faults>>

ExistingFound(s) ==
    /\ calls[s].pc = "asking"
    /\ commitsOf[calls[s].proposal] > 0
    /\ Finish(calls[s].proposal, unattributed)
    /\ Idle(s)
    /\ UNCHANGED <<journal, delivered, batchEnd, operatorPaused, tasks, modelVars,
                   consumedThrough, gitVars, unattributed, granted, abandoned, faults>>

\* sinceSeq, the head the caller was told, or the hold's start, whoever holds by now.
Starts(p) == {granted[p]} \cup (IF hold = NoHold THEN {} ELSE {hold.since})

ExistingNone(s) ==
    /\ calls[s].pc = "asking"
    /\ commitsOf[calls[s].proposal] = 0
    /\ IF unattributed = NoWindow
       THEN /\ \E since \in Starts(calls[s].proposal) :
                   calls' = [calls EXCEPT ![s].pc = "waiting", ![s].since = since]
            /\ UNCHANGED tasks
       ELSE /\ calls' = [calls EXCEPT ![s] = [pc |-> "retrying",
                                             proposal |-> unattributed.proposal,
                                             since |-> unattributed.since,
                                             until |-> unattributed.until]]
            /\ tasks' = Append(tasks, s)
    /\ UNCHANGED <<journal, streamVars, operatorPaused, modelVars, consumedThrough, gitVars,
                   boundaryVars, granted, abandoned, faults>>

CheckinsAfter(since) == {e \in since + 1..Len(journal) : journal[e].kind = "checkin"}

\* Variant: one transaction, whoever wrote it.
IsolatedAnyWriter(S, p) == \E w \in Writers : S # {} /\ \A e \in S : journal[e].by = w

\* checkIsolation: one transaction, of the description expected.
Isolated(S, p) ==
    \E w \in IF "unnamed-transaction" \in Circumstances THEN Writers ELSE {p} :
        S # {} /\ \A e \in S : journal[e].by = w

CheckinFound(s) ==
    LET call == calls[s]
        found == CheckinsAfter(call.since)
    IN  /\ call.pc = "waiting"
        /\ \E until \in found :
            /\ \A c \in found : until <= c
            /\ IF Isolated(Edits(call.since + 1..until), call.proposal)
               THEN /\ calls' = [calls EXCEPT ![s].pc = "queued", ![s].until = until]
                    /\ tasks' = Append(tasks, s)
                    /\ UNCHANGED <<paused, hold>>
               ELSE /\ Finish(call.proposal, unattributed)
                    /\ Idle(s)
                    /\ UNCHANGED tasks
        /\ UNCHANGED <<journal, delivered, batchEnd, operatorPaused, modelVars, consumedThrough,
                       gitVars, unattributed, granted, abandoned, faults>>

WaitTimesOut(s) ==
    /\ calls[s].pc = "waiting"
    /\ CheckinsAfter(calls[s].since) = {}
    /\ Idle(s)
    /\ UNCHANGED <<journal, streamVars, operatorPaused, tasks, modelVars, consumedThrough,
                   gitVars, boundaryVars, granted, abandoned, faults>>

-----------------------------------------------------------------------------
(* Applying, generating and committing.                                     *)

\* applyEvents asks Ghidra for each symbol it touches, as the symbol is by then.
Reread(S) ==
    IF "shared-symbol" \in Circumstances /\ S # {} THEN Edits(1..Len(journal)) ELSE S

With(first, last) == inModel \cup Reread(Edits(first..last))

Uncommitted(M) == {e \in M : credit[e] = None}

\* The tree of the model `M`, staged whole and committed; nothing if it is the last one.
Committed(M, author) ==
    /\ credit' = [e \in Seqs |-> IF e \in Uncommitted(M) THEN author ELSE credit[e]]
    /\ commitsOf' = [p \in Proposals |->
                        commitsOf[p] + IF p = author /\ Uncommitted(M) # {} THEN 1 ELSE 0]
    /\ dirty' = FALSE
    /\ UNCHANGED faults

NotGenerated == Fault /\ UNCHANGED gitVars

\* git fails after the sync.
NotCommitted(M) ==
    /\ "commit-throws" \in Circumstances
    /\ Uncommitted(M) # {}
    /\ Fault
    /\ dirty' = TRUE
    /\ UNCHANGED <<credit, commitsOf>>

OrdinaryNotGenerated == "ordinary-fails" \in Circumstances /\ NotGenerated

Turn(s, place) == calls[s].pc = place /\ tasks # <<>> /\ Head(tasks) = s

EndTask == tasks' = Tail(tasks)

AlreadyBatched(s) ==
    /\ Turn(s, "queued")
    /\ modelSeq > calls[s].since
    /\ Move(s, "finishing")
    /\ EndTask
    /\ UNCHANGED <<journal, streamVars, operatorPaused, modelVars, consumedThrough, gitVars,
                   boundaryVars, granted, abandoned, faults>>

PublishBefore(s) ==
    LET M == With(modelSeq + 1, calls[s].since)
    IN  /\ Turn(s, "queued")
        /\ modelSeq < calls[s].since
        /\ inModel' = M
        /\ modelSeq' = calls[s].since
        /\ \/ Committed(M, Owner) /\ UNCHANGED <<calls, tasks>>
           \/ (OrdinaryNotGenerated \/ NotCommitted(M)) /\ Move(s, "finishing") /\ EndTask
        /\ UNCHANGED <<journal, streamVars, operatorPaused, windowed, consumedThrough,
                       boundaryVars, granted, abandoned>>

TreeDirty(s) ==
    /\ Turn(s, "queued")
    /\ modelSeq = calls[s].since
    /\ dirty
    /\ Move(s, "finishing")
    /\ EndTask
    /\ UNCHANGED <<journal, streamVars, operatorPaused, modelVars, consumedThrough, gitVars,
                   boundaryVars, granted, abandoned, faults>>

PublishWindow(s) ==
    LET call == calls[s]
        M == With(call.since + 1, call.until)
    IN  /\ Turn(s, "queued")
        /\ modelSeq = call.since
        /\ ~dirty
        /\ inModel' = M
        /\ modelSeq' = call.until
        /\ windowed' = [windowed EXCEPT ![call.proposal] = Edits(call.since + 1..call.until)]
        /\ \/ /\ Committed(M, call.proposal)
              /\ consumedThrough' = Larger(consumedThrough, call.until)
              /\ UNCHANGED unattributed
           \/ /\ NotGenerated
              /\ unattributed' = [proposal |-> call.proposal, since |-> call.since,
                                  until |-> call.until]
              /\ UNCHANGED consumedThrough
           \/ NotCommitted(M) /\ UNCHANGED <<consumedThrough, unattributed>>
        /\ Move(s, "finishing")
        /\ EndTask
        /\ UNCHANGED <<journal, streamVars, operatorPaused, hold, granted, abandoned>>

\* The task's end settles its promise; the queue takes its next task before the caller runs.
Finishes(s) ==
    /\ calls[s].pc = "finishing"
    /\ Finish(calls[s].proposal, unattributed)
    /\ Idle(s)
    /\ UNCHANGED <<journal, delivered, batchEnd, operatorPaused, tasks, modelVars,
                   consumedThrough, gitVars, unattributed, granted, abandoned, faults>>

RetryFails(s) ==
    /\ Turn(s, "retrying")
    /\ \/ dirty /\ UNCHANGED <<gitVars, faults>>
       \/ ~dirty /\ (NotGenerated \/ NotCommitted(inModel))
    /\ Idle(s)
    /\ EndTask
    /\ UNCHANGED <<journal, streamVars, operatorPaused, modelVars, consumedThrough,
                   boundaryVars, granted, abandoned>>

RetrySucceeds(s) ==
    /\ Turn(s, "retrying")
    /\ ~dirty
    /\ Committed(inModel, calls[s].proposal)
    /\ unattributed' = NoWindow
    /\ consumedThrough' = Larger(consumedThrough, calls[s].until)
    /\ Finish(calls[s].proposal, NoWindow)
    /\ Idle(s)
    /\ EndTask
    /\ UNCHANGED <<journal, delivered, batchEnd, operatorPaused, modelVars, granted, abandoned>>

-----------------------------------------------------------------------------
(* The rest of the loop: the stream's batches, the operator.                *)

Queued(task) == \E i \in 1..Len(tasks) : tasks[i] = task

Drain ==
    /\ ~paused
    /\ ~Queued("batch")
    /\ delivered < Len(journal)
    /\ batchEnd' = Len(journal)
    /\ tasks' = Append(tasks, "batch")
    /\ UNCHANGED <<journal, paused, delivered, operatorPaused, modelVars, consumedThrough,
                   gitVars, boundaryVars, calls, granted, abandoned, faults>>

\* A batch whose handler threw stays undelivered.
RunBatch ==
    LET first == Larger(delivered, consumedThrough) + 1
        M == With(first, batchEnd)
    IN  /\ tasks # <<>> /\ Head(tasks) = "batch"
        /\ EndTask
        /\ IF first > batchEnd
           THEN /\ delivered' = batchEnd
                /\ UNCHANGED <<inModel, modelSeq, gitVars, faults>>
           ELSE /\ inModel' = M
                /\ modelSeq' = Larger(modelSeq, batchEnd)
                /\ \/ (Committed(M, Owner) \/ OrdinaryNotGenerated) /\ delivered' = batchEnd
                   \/ NotCommitted(M) /\ UNCHANGED delivered
        /\ UNCHANGED <<journal, paused, batchEnd, operatorPaused, windowed, consumedThrough,
                       boundaryVars, calls, granted, abandoned>>

CallRebuild ==
    /\ ~Queued("rebuild")
    /\ tasks' = Append(tasks, "rebuild")
    /\ UNCHANGED <<journal, streamVars, operatorPaused, modelVars, consumedThrough, gitVars,
                   boundaryVars, calls, granted, abandoned, faults>>

\* Variant: an applied window does not stop it.
RunRebuildUnguarded ==
    /\ tasks # <<>> /\ Head(tasks) = "rebuild"
    /\ EndTask
    /\ Committed(inModel, Owner)
    /\ UNCHANGED <<journal, streamVars, operatorPaused, modelVars, consumedThrough,
                   boundaryVars, calls, granted, abandoned>>

RunRebuild ==
    /\ tasks # <<>> /\ Head(tasks) = "rebuild"
    /\ EndTask
    /\ IF unattributed # NoWindow
       THEN UNCHANGED <<gitVars, faults>>
       ELSE Committed(inModel, Owner) \/ OrdinaryNotGenerated \/ NotCommitted(inModel)
    /\ UNCHANGED <<journal, streamVars, operatorPaused, modelVars, consumedThrough,
                   boundaryVars, calls, granted, abandoned>>

OperatorPause ==
    /\ ~operatorPaused
    /\ operatorPaused' = TRUE /\ paused' = TRUE
    /\ UNCHANGED <<journal, delivered, batchEnd, tasks, modelVars, consumedThrough, gitVars,
                   boundaryVars, calls, granted, abandoned, faults>>

\* Variant: resumes a held stream.
OperatorResumeAnyway ==
    /\ operatorPaused
    /\ Quiet
    /\ operatorPaused' = FALSE /\ paused' = FALSE
    /\ UNCHANGED <<journal, delivered, batchEnd, tasks, modelVars, consumedThrough, gitVars,
                   boundaryVars, calls, granted, abandoned, faults>>

OperatorResume ==
    /\ operatorPaused
    /\ Quiet
    /\ operatorPaused' = FALSE
    /\ IF Holding(hold, unattributed) THEN UNCHANGED paused ELSE paused' = FALSE
    /\ UNCHANGED <<journal, delivered, batchEnd, tasks, modelVars, consumedThrough, gitVars,
                   boundaryVars, calls, granted, abandoned, faults>>

-----------------------------------------------------------------------------
CallSteps(s) ==
    \/ BeginAnswers(s) \/ BeginFails(s)
    \/ ExistingFound(s) \/ ExistingNone(s) \/ CheckinFound(s) \/ WaitTimesOut(s)
    \/ AlreadyBatched(s) \/ PublishBefore(s) \/ TreeDirty(s) \/ PublishWindow(s)
    \/ RetryFails(s) \/ RetrySucceeds(s) \/ Finishes(s)

Next ==
    \/ \E w \in Writers, kind \in {"edit", "checkin"} : Write(w, kind)
    \/ \E s \in Slots, p \in Proposals : CallBegin(s, p) \/ CallCommit(s, p)
    \/ \E s \in Slots : CallSteps(s)
    \/ \E p \in Proposals : Abort(p)
    \/ Expire
    \/ Drain \/ RunBatch \/ CallRebuild \/ RunRebuild
    \/ OperatorPause \/ OperatorResume

Spec == Init /\ [][Next]_vars

\* Calls and tasks go on; the timer fires.  The quiet period of the stream is outlasted by
\* some gap between the holds and pauses of its clients.
Fairness ==
    /\ \A s \in Slots : WF_vars(CallSteps(s))
    /\ WF_vars(RunBatch) /\ WF_vars(RunRebuild)
    /\ WF_vars(Expire)
    /\ SF_vars(Drain)

FairSpec == Spec /\ Fairness

-----------------------------------------------------------------------------
(* Properties.                                                              *)

\* Every edit is in one author's commit at most, and a proposal's commit takes all the
\* proposal's edits and no other: what checkIsolation, the ordinary commit before the window
\* and the hold are there for (proposal.ts, the head of the file).
Abstract == INSTANCE Attribution

Attribution == Abstract!Spec

\* What a proposal's commit holds was written by it: no edit of the owner, or of another
\* proposal, is credited to a contributor.
CreditIsRight ==
    \A e \in 1..Len(journal) : credit[e] \in Proposals => credit[e] = journal[e].by

\* An ordinary commit never takes a window that was applied as a proposal's, unless the
\* proposal was given up: a window whose commit failed keeps the stream held and refuses the
\* operator's rebuild until the retry (proposal.ts, `unattributed`; main.ts, doRebuildNow).
OwnerCommitsNoWindow ==
    \A p \in Proposals : \A e \in windowed[p] : credit[e] = Owner => p \in abandoned

\* While the boundary is held, by proposal_begin or by an uncommitted window, the stream is
\* paused, whatever the operator, the timer and other calls did meanwhile.
HeldMeansPaused == Holding(hold, unattributed) => paused

\* Every edit is committed in the end, or applied where a generation or git failed: no hold
\* outlives its timer, and each end of one sets the stream going again, except under an
\* operator's pause and an uncommitted window.
EveryEditIsCommitted ==
    \A e \in Seqs :
        (e <= Len(journal) /\ journal[e].kind = "edit")
            ~> \/ credit[e] # None
               \/ faults > 0 /\ e \in inModel
               \/ operatorPaused \/ unattributed # NoWindow

=============================================================================
