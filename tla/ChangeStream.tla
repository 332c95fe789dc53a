----------------------------- MODULE ChangeStream -----------------------------
(***************************************************************************)
(* ChangeStream of packages/live/src/events.ts: the SSE subscription to    *)
(* the session's change journal, with the consumer its callbacks reach     *)
(* (LiveLoop of main.ts) reduced to what it does to the resume point.      *)
(*                                                                         *)
(* A change is its sequence number.  The journal numbers them 1, 2, ...,   *)
(* may rotate the oldest ones away, and answers a connection with the      *)
(* backlog after `since` followed by live changes; one it cannot serve in  *)
(* full starts with a `truncated` frame.  A lost connection loses the      *)
(* frames not yet read.                                                    *)
(*                                                                         *)
(* `applied`, `declared` and `kept` are history: what is in the model in   *)
(* memory, what an operator was told is missing, and what the saved model  *)
(* and position on disk account for.                                       *)
(***************************************************************************)
EXTENDS Integers, FiniteSets, Sequences, SequencesExt

CONSTANTS
    MaxSeq,             \* bound: changes recorded
    MaxFaults,          \* bound: lost connections, crashes, failed batches and pauses
    CheckMayFail        \* verifyResume may fail to read the journal at a start

ASSUME StreamAssumption ==
    /\ MaxSeq \in Nat
    /\ MaxFaults \in Nat
    /\ CheckMayFail \in BOOLEAN

VARIABLES
    \* The journal and the connection.
    head, oldest,       \* the journal serves oldest..head
    connected,
    cursor,             \* last change the server has sent on this connection
    gapSince,           \* the `since` of a truncated frame not read yet, or NoGap
    \* The stream.
    queue, timer, draining, batch, paused, appliedSeq,
    \* The consumer.
    needsResync,        \* LiveLoop.needsFullResync
    ignoring,           \* onBatch was entered with needsFullResync set
    modelSeq,           \* model.seq
    savedSeq,           \* seq of live-state.json
    applied, declared, kept,
    faults

journalVars == <<head, oldest>>
connVars == <<connected, cursor, gapSince>>
releaseVars == <<draining, batch, ignoring>>
modelVars == <<modelSeq, savedSeq, applied, kept>>
vars == <<journalVars, connVars, queue, timer, releaseVars, paused, appliedSeq,
          needsResync, modelVars, declared, faults>>

NoGap == -1

Seqs == 1..MaxSeq

TypeOK ==
    /\ head \in 0..MaxSeq /\ oldest \in 1..(MaxSeq + 1)
    /\ connected \in BOOLEAN
    /\ cursor \in 0..MaxSeq
    /\ gapSince \in {NoGap} \cup (0..MaxSeq)
    /\ queue \in Seq(Seqs) /\ batch \in Seq(Seqs)
    /\ timer \in BOOLEAN /\ draining \in BOOLEAN /\ paused \in BOOLEAN
    /\ appliedSeq \in 0..MaxSeq
    /\ needsResync \in BOOLEAN /\ ignoring \in BOOLEAN
    /\ modelSeq \in 0..MaxSeq /\ savedSeq \in 0..MaxSeq
    /\ applied \subseteq Seqs /\ declared \subseteq Seqs /\ kept \subseteq Seqs
    /\ faults \in 0..MaxFaults

Init ==
    /\ head = 0 /\ oldest = 1
    /\ connected = FALSE /\ cursor = 0 /\ gapSince = NoGap
    /\ queue = <<>> /\ batch = <<>>
    /\ timer = FALSE /\ draining = FALSE /\ paused = FALSE
    /\ appliedSeq = 0
    /\ needsResync = FALSE /\ ignoring = FALSE
    /\ modelSeq = 0 /\ savedSeq = 0
    /\ applied = {} /\ declared = {} /\ kept = {}
    /\ faults = 0

Fault == faults < MaxFaults /\ faults' = faults + 1

\* Math.max over a set of positions: the set of its one largest element.
Top(S) == {m \in S : \A k \in S : k <= m}

-----------------------------------------------------------------------------
(* The journal.                                                            *)

Record ==
    /\ head < MaxSeq
    /\ head' = head + 1
    /\ UNCHANGED <<oldest, connVars, queue, timer, releaseVars, paused, appliedSeq,
                   needsResync, modelVars, declared, faults>>

Rotate ==
    /\ oldest <= head
    /\ Fault
    /\ oldest' = oldest + 1
    /\ UNCHANGED <<head, connVars, queue, timer, releaseVars, paused, appliedSeq,
                   needsResync, modelVars, declared>>

-----------------------------------------------------------------------------
(* connectOnce, loop and handleFrame.                                      *)

\* Variant: a new connection takes up at the live edge.
ConnectAtLiveEdge ==
    /\ ~connected
    /\ connected' = TRUE
    /\ cursor' = head /\ gapSince' = NoGap
    /\ UNCHANGED <<journalVars, queue, timer, releaseVars, paused, appliedSeq,
                   needsResync, modelVars, declared, faults>>

Connect ==
    /\ ~connected
    /\ connected' = TRUE
    /\ IF appliedSeq + 1 < oldest
       THEN cursor' = oldest - 1 /\ gapSince' = appliedSeq
       ELSE cursor' = appliedSeq /\ gapSince' = NoGap
    /\ UNCHANGED <<journalVars, queue, timer, releaseVars, paused, appliedSeq,
                   needsResync, modelVars, declared, faults>>

Disconnect ==
    /\ connected
    /\ Fault
    /\ connected' = FALSE
    /\ gapSince' = NoGap
    /\ UNCHANGED <<journalVars, cursor, queue, timer, releaseVars, paused, appliedSeq,
                   needsResync, modelVars, declared>>

\* A `truncated` frame: LiveLoop.onTruncated pauses the stream and stops the loop.
ReadTruncated ==
    /\ connected
    /\ gapSince # NoGap
    /\ gapSince' = NoGap
    /\ declared' = declared \cup ((gapSince + 1)..cursor)
    /\ needsResync' = TRUE
    /\ paused' = TRUE
    /\ UNCHANGED <<journalVars, connected, cursor, queue, timer, releaseVars, appliedSeq,
                   modelVars, faults>>

\* A `change` frame: dropped when it is not after the resume point, else queued, and
\* the quiet window starts again.
ReadChange ==
    /\ connected
    /\ gapSince = NoGap
    /\ cursor < head
    /\ cursor' = cursor + 1
    /\ IF cursor + 1 <= appliedSeq
       THEN UNCHANGED <<queue, timer>>
       ELSE queue' = Append(queue, cursor + 1) /\ timer' = TRUE
    /\ UNCHANGED <<journalVars, connected, gapSince, releaseVars, paused, appliedSeq,
                   needsResync, modelVars, declared, faults>>

-----------------------------------------------------------------------------
(* drain and the consumer's onBatch.                                       *)

MayDrain == ~draining /\ ~paused /\ queue # <<>>

\* The quiet window is over: the whole queue is handed to the consumer.
QuietOver ==
    /\ timer
    /\ timer' = FALSE
    /\ IF MayDrain
       THEN /\ draining' = TRUE
            /\ batch' = queue
            /\ queue' = <<>>
            /\ ignoring' = needsResync
       ELSE UNCHANGED <<queue, releaseVars>>
    /\ UNCHANGED <<journalVars, connVars, paused, appliedSeq, needsResync, modelVars,
                   declared, faults>>

\* Variant: what is left waits for the next event to arrive.
EndDrainUnscheduled(rest) ==
    /\ draining' = FALSE
    /\ batch' = <<>>
    /\ ignoring' = FALSE
    /\ queue' = rest
    /\ timer' = timer

\* The end of drain(), with `rest` the queue it leaves: release it after another window.
EndDrain(rest) ==
    /\ draining' = FALSE
    /\ batch' = <<>>
    /\ ignoring' = FALSE
    /\ queue' = rest
    /\ timer' = (timer \/ rest # <<>>)

\* Save model and position together; what was declared missing stays declared.
Save(seq, contents) == savedSeq' = seq /\ kept' = contents

\* Applied, and the tree built from it committed (`saved`) or its generation failed.
BatchApplied ==
    /\ draining
    /\ ~ignoring
    /\ EndDrain(queue)
    /\ appliedSeq' \in Top({appliedSeq} \cup Range(batch))
    /\ applied' = applied \cup Range(batch)
    /\ modelSeq' \in Top({modelSeq} \cup Range(batch))
    /\ \/ Save(modelSeq', applied')
       \/ UNCHANGED <<savedSeq, kept>>
    /\ UNCHANGED <<journalVars, connVars, paused, needsResync, declared, faults>>

\* onBatch finds the loop waiting for a full resync and returns.
BatchIgnored ==
    /\ draining
    /\ ignoring
    /\ EndDrain(queue)
    /\ appliedSeq' \in Top({appliedSeq} \cup Range(batch))
    /\ UNCHANGED <<journalVars, connVars, paused, needsResync, modelVars, declared, faults>>

\* The batch holds a rollback: applyEvents moves model.seq past it and asks for a
\* resync, the loop stops and says so, and the batch counts as handled.
BatchStopsLoop ==
    /\ draining
    /\ ~ignoring
    /\ Fault
    /\ EndDrain(queue)
    /\ appliedSeq' \in Top({appliedSeq} \cup Range(batch))
    /\ modelSeq' \in Top({modelSeq} \cup Range(batch))
    /\ declared' = declared \cup Range(batch)
    /\ needsResync' = TRUE
    /\ paused' = TRUE
    /\ UNCHANGED <<journalVars, connVars, savedSeq, applied, kept>>

\* Variant: the failed batch is dropped.
BatchFailsDropped ==
    /\ draining
    /\ ~ignoring
    /\ Fault
    /\ EndDrain(queue)
    /\ UNCHANGED <<journalVars, connVars, paused, appliedSeq, needsResync, modelVars, declared>>

\* The handler threw: the queue refused the batch, or the worker failed under it.  The
\* batch goes back in front.
BatchFails ==
    /\ draining
    /\ ~ignoring
    /\ Fault
    /\ EndDrain(batch \o queue)
    /\ UNCHANGED <<journalVars, connVars, paused, appliedSeq, needsResync, modelVars, declared>>

-----------------------------------------------------------------------------
(* pause, resume, markApplied and a new process.                           *)

Pause ==
    /\ ~paused
    /\ Fault
    /\ paused' = TRUE
    /\ UNCHANGED <<journalVars, connVars, queue, timer, releaseVars, appliedSeq,
                   needsResync, modelVars, declared>>

\* Variant: the flag alone.
ResumeUnscheduled ==
    /\ paused
    /\ ~needsResync
    /\ paused' = FALSE
    /\ UNCHANGED <<journalVars, connVars, queue, timer, releaseVars, appliedSeq, needsResync,
                   modelVars, declared, faults>>

\* LiveLoop.resume refuses while a resync is due.
Resume ==
    /\ paused
    /\ ~needsResync
    /\ paused' = FALSE
    /\ timer' = TRUE
    /\ UNCHANGED <<journalVars, connVars, queue, releaseVars, appliedSeq, needsResync,
                   modelVars, declared, faults>>

\* The operator's rebuild, which the work queue runs after any batch: the stop is lifted,
\* the stream resumes, and the model in hand is generated and saved as it is, unless the
\* generation fails.
AcceptModel ==
    /\ needsResync
    /\ ~draining
    /\ needsResync' = FALSE
    /\ paused' = FALSE
    /\ timer' = TRUE
    /\ \/ Save(modelSeq, applied)
       \/ UNCHANGED <<savedSeq, kept>>
    /\ UNCHANGED <<journalVars, connVars, queue, releaseVars, appliedSeq, modelSeq,
                   applied, declared, faults>>

\* Variant: the resume point taken for the first event not applied yet.
MarkAppliedPast(n) ==
    /\ modelSeq < n
    /\ n <= head
    /\ oldest <= modelSeq + 1
    /\ ~needsResync
    /\ appliedSeq' = n + 1
    /\ modelSeq' = n
    /\ applied' = applied \cup ((modelSeq + 1)..n)
    /\ Save(n, applied')
    /\ UNCHANGED <<journalVars, connVars, queue, timer, releaseVars, paused, needsResync,
                   declared, faults>>

\* A proposal commit read modelSeq+1..n straight from the journal, published it and calls
\* markApplied(n).
MarkApplied(n) ==
    /\ modelSeq < n
    /\ n <= head
    /\ oldest <= modelSeq + 1
    /\ ~needsResync
    /\ appliedSeq' \in Top({appliedSeq, n})
    /\ modelSeq' = n
    /\ applied' = applied \cup ((modelSeq + 1)..n)
    /\ Save(n, applied')
    /\ UNCHANGED <<journalVars, connVars, queue, timer, releaseVars, paused, needsResync,
                   declared, faults>>

\* verifyResume: can the journal serve everything after `seq`?
Resumable(seq) ==
    \/ seq = 0
    \/ seq = head
    \/ seq < head /\ oldest <= seq + 1

\* A crash at any moment and the start that follows it.
Restart ==
    /\ Fault
    /\ connected' = FALSE /\ gapSince' = NoGap
    /\ queue' = <<>> /\ timer' = FALSE
    /\ draining' = FALSE /\ batch' = <<>> /\ ignoring' = FALSE
    /\ paused' = FALSE
    /\ appliedSeq' = savedSeq
    /\ modelSeq' = savedSeq
    /\ applied' = kept
    /\ \/ /\ Resumable(savedSeq)
          /\ needsResync' = FALSE
          /\ UNCHANGED declared
       \/ /\ ~Resumable(savedSeq)
          /\ needsResync' = TRUE
          /\ declared' = declared \cup ((savedSeq + 1)..(oldest - 1))
       \/ /\ CheckMayFail
          /\ needsResync' = TRUE
          /\ UNCHANGED declared
    /\ UNCHANGED <<journalVars, cursor, savedSeq, kept>>

Next ==
    \/ Record \/ Rotate
    \/ Connect \/ Disconnect \/ ReadTruncated \/ ReadChange
    \/ QuietOver
    \/ BatchApplied \/ BatchIgnored \/ BatchStopsLoop \/ BatchFails
    \/ Pause \/ Resume \/ AcceptModel
    \/ \E n \in Seqs : MarkApplied(n)
    \/ Restart

Spec == Init /\ [][Next]_vars

\* The reconnect loop and the reader keep running, timers fire, a handler returns.
\* Pausing, resuming, accepting and proposing are the operator's.
Fairness ==
    /\ WF_vars(Connect)
    /\ WF_vars(ReadTruncated)
    /\ WF_vars(ReadChange)
    /\ WF_vars(QuietOver)
    /\ WF_vars(BatchApplied)
    /\ WF_vars(BatchIgnored)

FairSpec == Spec /\ Fairness

-----------------------------------------------------------------------------
(* Properties.                                                             *)

Accounted == applied \cup declared

\* RESUME, NEVER SKIP: the number handed back on a reconnect, and the one a restart finds
\* on disk, never pass a change that is neither in the model nor declared missing, through
\* lost connections, redeliveries, failed batches, proposals and crashes mid-batch.
NeverSkip ==
    /\ 1..appliedSeq \subseteq Accounted
    /\ 1..savedSeq \subseteq kept \cup declared

\* The position committed with a tree covers every change up to it (part of the proof of
\* NeverSkip).
ModelCoversItsSeq == 1..modelSeq \subseteq Accounted

\* Events that may be released have something that will release them: a timer, or the end
\* of the batch in flight.
NoLostWakeup == queue # <<>> /\ ~paused => timer \/ draining

\* Every change the journal recorded is in the model or declared missing, unless the
\* loop is paused or stopped for the operator.
EveryChangeArrives ==
    \A s \in Seqs : (s <= head) ~> (s \in Accounted \/ paused \/ needsResync)

\* Following the journal over SSE keeps the promise of JournalConsumer.
Consumer == INSTANCE JournalConsumer WITH
    position <- appliedSeq,
    accounted <- Accounted,
    savedPosition <- savedSeq,
    savedAccounted <- kept \cup declared

ConsumesTheJournal == Consumer!Spec

\* "a reconnect is indistinguishable from never having disconnected": what is waiting or
\* being applied holds each change once.
EachChangeOnce ==
    \A i, j \in 1..Len(batch \o queue) : (batch \o queue)[i] = (batch \o queue)[j] => i = j

=============================================================================
