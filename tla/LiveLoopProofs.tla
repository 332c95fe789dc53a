----------------------------- MODULE LiveLoopProofs -----------------------------
(***************************************************************************)
(* For every setup and any number of changes, failures, stops and          *)
(* restarts: what the daemon reports as reached has been committed, and    *)
(* what is generated is generated from a model that is to be trusted.      *)
(*                                                                         *)
(* Two arguments that do not meet.  The trees are in one order, from the   *)
(* modified tree over the regen branch, its worktree and the snapshot to   *)
(* the model, whatever fails in between.  And a queue that is blocked has  *)
(* nothing but a retried merge in it, so while a stop keeps it blocked     *)
(* nothing is generated.                                                   *)
(***************************************************************************)
EXTENDS LiveLoop, SequenceTheorems, TLAPS

\* A tree never holds more than what it is made from, which never holds more than Ghidra.
TreesInOrder ==
    /\ merged <= committed /\ committed <= synced /\ synced <= snapshot.model
    /\ snapshot.model <= model /\ model <= head
    /\ step = "generated" => synced = model

PositionsKnown ==
    /\ position <= head /\ seq <= head /\ label <= head /\ saved <= head
    /\ snapshot.label <= head
    /\ \A i \in 1..Len(tasks) : tasks[i].upTo <= head

\* What is reported and saved is in the trees.
Reached ==
    spoiled \cap {"retry", "label", "placed", "accepted"} = {} =>
        /\ committedVersion <= committed /\ saved <= committed
        /\ seq <= model \/ (needsFullResync /\ label > model)
        /\ step = "generated" => seq <= model

BlockedMergesOnly == blocked => \A i \in 1..Len(tasks) : tasks[i].kind = "merge"

\* While a resync is due nothing applies or watches: what runs is the operator's.
StoppedIsOperators ==
    needsFullResync => \A i \in 1..Len(tasks) : tasks[i].kind \in {"rebuild", "merge"}

\* While retry_merge has lifted no block it should not have, a model not to be trusted
\* blocks the queue, and no such model was saved.
StopsBlock ==
    "unblocked" \notin spoiled => /\ lacking \/ needsFullResync => blocked
                                  /\ ~snapshot.lacking

IInv ==
    /\ TreesInOrder /\ PositionsKnown /\ Reached
    /\ BlockedMergesOnly /\ StoppedIsOperators /\ StopsBlock

-----------------------------------------------------------------------------
(* The queue.                                                                *)

Submission == [kind : Kinds, upTo : Seqs]

\* The tasks left when the running one ends are those behind it.
LEMMA Waiting ==
    ASSUME NEW S, NEW q \in Seq(S), q # <<>>
    PROVE  /\ Head(q) = q[1] /\ 1 \in 1..Len(q)
           /\ Tail(q) \in Seq(S) /\ Len(Tail(q)) = Len(q) - 1
           /\ \A i \in 1..Len(Tail(q)) : Tail(q)[i] = q[i + 1] /\ i + 1 \in 1..Len(q)
BY HeadTailProperties

\* A task submitted is behind the others.
LEMMA Queued ==
    ASSUME NEW S, NEW q \in Seq(S), NEW x \in S
    PROVE  /\ Append(q, x) \in Seq(S) /\ Len(Append(q, x)) = Len(q) + 1
           /\ \A i \in 1..Len(q) : Append(q, x)[i] = q[i]
           /\ Append(q, x)[Len(q) + 1] = x
OBVIOUS

\* What the queue holds is tasks of the kinds there are, for changes there are.
LEMMA TaskTypes ==
    ASSUME TypeOK, NEW i \in 1..Len(tasks)
    PROVE  tasks[i].kind \in Kinds /\ tasks[i].upTo \in Seqs
<1>1. tasks \in Seq(Submission)
  BY DEF TypeOK, Submission
<1>2. tasks[i] \in Submission
  BY <1>1
<1> QED
  BY <1>2 DEF Submission

\* The running task is the first one.
LEMMA RunningTask ==
    ASSUME TypeOK, tasks # <<>>
    PROVE  /\ Head(tasks) = tasks[1] /\ 1 \in 1..Len(tasks)
           /\ Head(tasks).kind \in Kinds /\ Head(tasks).upTo \in Seqs
<1>1. tasks \in Seq(Submission)
  BY DEF TypeOK, Submission
<1>2. Head(tasks) = tasks[1] /\ 1 \in 1..Len(tasks)
  BY <1>1, Waiting
<1> QED
  BY <1>2, TaskTypes

Emptied == tasks' = <<>>
KeptOrEnded == /\ tasks' = tasks \/ (tasks # <<>> /\ tasks' = Tail(tasks))
               /\ blocked' => blocked
               /\ needsFullResync' => needsFullResync
Joined == \E kind \in Kinds, upTo \in Seqs :
              /\ Submit(kind, upTo) /\ upTo <= head
              /\ UNCHANGED <<head, blocked, needsFullResync>> /\ (blocked => kind = "merge")
              /\ (needsFullResync => kind \in {"rebuild", "merge"})

\* A step empties the queue, ends the running task, or lets one in, and into a blocked queue
\* only a merge.
LEMMA QueueSteps == ASSUME TypeOK, [Next]_vars PROVE Emptied \/ KeptOrEnded \/ Joined
<1> USE DEF Emptied, KeptOrEnded, queueVars, modelVars
<1>1. step # "start" => tasks # <<>>
  BY DEF TypeOK
<1>2. CASE Change \/ BatchIgnored
  BY <1>2 DEF Change, BatchIgnored
<1>3. 0 \in Seqs /\ 0 <= head /\ head \in Seqs /\ head <= head /\ {"apply", "rebuild", "watch", "merge"} \subseteq Kinds
  BY LoopAssumption DEF TypeOK, Seqs, Kinds
<1>4. CASE BatchSubmitted
  BY <1>3, <1>4 DEF BatchSubmitted, Joined
<1>5. CASE Apply \/ ApplyThrows \/ ApplyStops \/ StopOnFacts
  BY <1>5 DEF Apply, ApplyThrows, ApplyStops, StopOnFacts, Applying, Running, Ends, EndsBlocking
<1>6. CASE Generate \/ GenerationFails
  BY <1>6 DEF Generate, GenerationFails, Accepted, MayGenerate, Running, Ends
<1>7. CASE Commit \/ CommitThrows
  BY <1>1, <1>7 DEF Commit, CommitThrows, Ends
<1>8. CASE Merge \/ Publish
  BY <1>1, <1>8 DEF Merge, Publish, Ends, EndsBlocking
<1>9. CASE RetryMerge
  BY <1>9 DEF RetryMerge, Running, Ends, Unblocks
<1>10. CASE RetryPublish
  BY <1>10 DEF RetryPublish, Running, EndsBlocking
<1>11. CASE WatchRebuilds
  BY <1>3, <1>11 DEF WatchRebuilds, Idle, Joined
<1>12. CASE AskRebuild
  BY <1>3, <1>12 DEF AskRebuild, Joined
<1>13. CASE AskMerge
  BY <1>3, <1>13 DEF AskMerge, Joined
<1>14. CASE Pause \/ Resume \/ EditModified \/ CommitModified
  BY <1>14 DEF Pause, Resume, EditModified, CommitModified
<1>15. CASE Crash \/ RestartForFacts
  BY <1>15 DEF Crash, RestartForFacts, Starts
<1>16. CASE UNCHANGED vars
  BY <1>16 DEF vars
<1> QED
  BY <1>2, <1>4, <1>5, <1>6, <1>7, <1>8, <1>9, <1>10, <1>11, <1>12, <1>13, <1>14, <1>15, <1>16
     DEF Next, Task

QueueTyped ==
    /\ tasks \in Seq(Submission)
    /\ \A i, j \in 1..Len(tasks) : tasks[i].kind = tasks[j].kind => i = j

\* The queue stays one of tasks, with one of a kind, and those of a blocked queue are merges.
LEMMA NextQueue ==
    ASSUME TypeOK, BlockedMergesOnly, StoppedIsOperators, [Next]_vars
    PROVE  QueueTyped' /\ BlockedMergesOnly' /\ StoppedIsOperators'
<1>1. QueueTyped
  BY DEF QueueTyped, TypeOK, Submission
<1>2. CASE Emptied
  <2>1. tasks' \in Seq(Submission) /\ Len(tasks') = 0
    BY <1>2, EmptySeq DEF Emptied
  <2> QED
    BY <2>1 DEF QueueTyped, BlockedMergesOnly, StoppedIsOperators
<1>3. CASE KeptOrEnded
  <2>1. CASE tasks' = tasks
    BY <1>1, <1>3, <2>1 DEF KeptOrEnded, QueueTyped, BlockedMergesOnly, StoppedIsOperators
  <2>2. CASE tasks # <<>> /\ tasks' = Tail(tasks)
    <3>1. /\ tasks' \in Seq(Submission)
          /\ \A i \in 1..Len(tasks') : tasks'[i] = tasks[i + 1] /\ i + 1 \in 1..Len(tasks)
      BY <1>1, <2>2, Waiting DEF QueueTyped
    <3>2. ASSUME NEW i \in 1..Len(tasks'), NEW j \in 1..Len(tasks'),
                 tasks'[i].kind = tasks'[j].kind
          PROVE  i = j
      <4>1. i + 1 = j + 1
        BY <1>1, <3>1, <3>2 DEF QueueTyped
      <4> QED
        BY <4>1
    <3> QED
      BY <1>3, <3>1, <3>2 DEF KeptOrEnded, QueueTyped, BlockedMergesOnly, StoppedIsOperators
  <2> QED
    BY <1>3, <2>1, <2>2 DEF KeptOrEnded
<1>4. CASE Joined
  <2>1. PICK kind \in Kinds, upTo \in Seqs :
            /\ Submit(kind, upTo) /\ blocked' = blocked /\ (blocked => kind = "merge")
            /\ needsFullResync' = needsFullResync /\ (needsFullResync => kind \in {"rebuild", "merge"})
    BY <1>4 DEF Joined
  <2> DEFINE t == [kind |-> kind, upTo |-> upTo]
  <2>2. t \in Submission /\ tasks' = Append(tasks, t) /\ ~Submitted(kind)
    BY <2>1 DEF Submission, Submit
  <2>3. /\ tasks' \in Seq(Submission) /\ Len(tasks') = Len(tasks) + 1
        /\ \A i \in 1..Len(tasks) : tasks'[i] = tasks[i]
        /\ tasks'[Len(tasks) + 1] = t
    BY <1>1, <2>2, Queued DEF QueueTyped
  <2>4. ASSUME NEW i \in 1..Len(tasks')
        PROVE  \/ i \in 1..Len(tasks) /\ tasks'[i] = tasks[i] /\ tasks[i].kind # kind
               \/ i = Len(tasks) + 1 /\ tasks'[i].kind = kind
    BY <1>1, <2>2, <2>3 DEF Submitted, QueueTyped
  <2>5. \A i, j \in 1..Len(tasks') : tasks'[i].kind = tasks'[j].kind => i = j
    BY <1>1, <2>4 DEF QueueTyped
  <2>6. BlockedMergesOnly' /\ StoppedIsOperators'
    BY <2>1, <2>4 DEF BlockedMergesOnly, StoppedIsOperators
  <2> QED
    BY <2>3, <2>5, <2>6 DEF QueueTyped
<1> QED
  BY <1>2, <1>3, <1>4, QueueSteps

-----------------------------------------------------------------------------
(* The trees and the positions.                                              *)

\* What the steps need to know of the types.
LEMMA Numbers ==
    ASSUME TypeOK
    PROVE  /\ head \in Nat /\ position \in Nat /\ model \in Nat /\ seq \in Nat /\ label \in Nat
           /\ committedVersion \in Nat /\ saved \in Nat
           /\ snapshot.model \in Nat /\ snapshot.label \in Nat
           /\ synced \in Nat /\ committed \in Nat /\ merged \in Nat
           /\ tasks # <<>> => Head(tasks).upTo \in Nat
<1>1. Seqs \subseteq Nat
  BY DEF Seqs
<1>2. snapshot.model \in Seqs /\ snapshot.label \in Seqs
  BY DEF TypeOK
<1> QED
  BY <1>1, <1>2, RunningTask DEF TypeOK

\* The running task is for changes that have happened.
LEMMA RunningKnown == ASSUME TypeOK, PositionsKnown, tasks # <<>> PROVE Head(tasks).upTo <= head
BY RunningTask DEF PositionsKnown

\* The trees stay in order, whatever fails between them.
LEMMA NextTrees ==
    ASSUME TypeOK, TreesInOrder, PositionsKnown, [Next]_vars PROVE TreesInOrder'
<1> USE Numbers DEF TreesInOrder, streamVars, queueVars, modelVars, reportVars, treeVars
<1>1. CASE Change
  BY <1>1 DEF Change
<1>2. CASE BatchIgnored \/ BatchSubmitted \/ WatchRebuilds \/ AskRebuild \/ AskMerge \/ Pause
           \/ Resume \/ EditModified
  BY <1>2 DEF BatchIgnored, BatchSubmitted, WatchRebuilds, AskRebuild, AskMerge, Pause, Resume,
     EditModified
<1>3. CASE Apply
  <2>1. tasks # <<>> /\ step = "start"
    BY <1>3 DEF Apply, Applying, Running
  <2>2. model' \in Nat /\ model <= model' /\ model' <= head
    BY <1>3, <2>1, RunningKnown DEF Apply, Later
  <2> QED
    BY <1>3, <2>2 DEF Apply
<1>4. CASE ApplyThrows \/ ApplyStops \/ StopOnFacts
  BY <1>4 DEF ApplyThrows, ApplyStops, StopOnFacts, Ends, EndsBlocking
<1>5. CASE Generate
  BY <1>5 DEF Generate, Accepted
<1>6. CASE GenerationFails
  BY <1>6 DEF GenerationFails, Accepted, Ends
<1>7. CASE Commit
  BY <1>7 DEF Commit, Ends
<1>8. CASE CommitThrows
  BY <1>8 DEF CommitThrows, Ends
<1>9. ASSUME NEW outcome \in {"dirty", "clean", "conflict", "error"}, MergeOutcome(outcome)
      PROVE  merged' \in {merged, committed}
  BY <1>9 DEF MergeOutcome
<1>10. CASE Merge
  <2>1. merged' \in {merged, committed}
    BY <1>9, <1>10 DEF Merge
  <2>2. /\ UNCHANGED <<committed, synced, snapshot, model, head>> /\ step' = "start"
    BY <1>10 DEF Merge, Ends, EndsBlocking
  <2> QED
    BY <2>1, <2>2
<1>11. ASSUME NEW code \in {0, 1, 3, 4, 5}, PublishCommand(code)
       PROVE  /\ committed' \in {committed, synced}
              /\ merged' = merged \/ (merged' = synced /\ committed' = synced)
  BY <1>11 DEF PublishCommand
<1>12. CASE Publish
  <2>1. /\ committed' \in {committed, synced}
        /\ merged' = merged \/ (merged' = synced /\ committed' = synced)
    BY <1>11, <1>12 DEF Publish
  <2>2. UNCHANGED <<synced, snapshot, model, head>> /\ step' = "start"
    BY <1>12 DEF Publish, Ends, EndsBlocking
  <2> QED
    BY <2>1, <2>2
<1>13. CASE RetryMerge
  <2>1. merged' \in {merged, committed}
    BY <1>9, <1>13 DEF RetryMerge
  <2>2. UNCHANGED <<committed, synced, snapshot, model, head>> /\ step' = "start"
    BY <1>13 DEF RetryMerge, Ends, Unblocks
  <2> QED
    BY <2>1, <2>2
<1>14. CASE RetryPublish
  <2>1. /\ committed' \in {committed, synced}
        /\ merged' = merged \/ (merged' = synced /\ committed' = synced)
    BY <1>11, <1>14 DEF RetryPublish
  <2>2. UNCHANGED <<synced, snapshot, model, head>> /\ step' = "start"
    BY <1>14 DEF RetryPublish, EndsBlocking
  <2> QED
    BY <2>1, <2>2
<1>15. CASE CommitModified
  <2>1. merged' = merged \/ merged' \in (merged + 1)..committed
    BY <1>15 DEF CommitModified
  <2> QED
    BY <1>15, <2>1 DEF CommitModified
<1>16. CASE Crash \/ RestartForFacts
  BY <1>16 DEF Crash, RestartForFacts, Starts
<1>17. CASE UNCHANGED vars
  BY <1>17 DEF vars
<1> QED
  BY <1>1, <1>2, <1>3, <1>4, <1>5, <1>6, <1>7, <1>8, <1>10, <1>12, <1>13, <1>14, <1>15, <1>16,
     <1>17 DEF Next, Task

\* No task is for a change that has not happened.
LEMMA NextUpTo ==
    ASSUME TypeOK, PositionsKnown, [Next]_vars, head' \in Nat, head <= head'
    PROVE  \A i \in 1..Len(tasks') : tasks'[i].upTo <= head'
<1>1. tasks \in Seq(Submission) /\ head \in Nat
  BY Numbers DEF TypeOK, Submission
<1>2. \A i \in 1..Len(tasks) : tasks[i].upTo <= head /\ tasks[i].upTo \in Nat
  BY TaskTypes DEF PositionsKnown, Seqs
<1>3. CASE Emptied
  <2>1. 1..Len(tasks') = {}
    BY <1>3, EmptySeq DEF Emptied
  <2> QED
    BY <2>1
<1>4. CASE tasks' = tasks
  BY <1>1, <1>2, <1>4
<1>5. CASE tasks # <<>> /\ tasks' = Tail(tasks)
  <2>1. \A i \in 1..Len(tasks') : tasks'[i] = tasks[i + 1] /\ i + 1 \in 1..Len(tasks)
    BY <1>1, <1>5, Waiting
  <2> QED
    BY <1>1, <1>2, <2>1
<1>6. CASE Joined
  <2>1. PICK kind \in Kinds, upTo \in Seqs : Submit(kind, upTo) /\ upTo <= head /\ head' = head
    BY <1>6 DEF Joined
  <2> DEFINE t == [kind |-> kind, upTo |-> upTo]
  <2>2. t \in Submission /\ tasks' = Append(tasks, t)
    BY <2>1 DEF Submission, Submit
  <2>3. /\ Len(tasks') = Len(tasks) + 1
        /\ \A i \in 1..Len(tasks) : tasks'[i] = tasks[i]
        /\ tasks'[Len(tasks) + 1] = t
    BY <1>1, <2>2, Queued
  <2>4. ASSUME NEW i \in 1..Len(tasks') PROVE tasks'[i].upTo <= head
    BY <1>1, <1>2, <2>1, <2>3
  <2> QED
    BY <2>1, <2>4
<1> QED
  BY <1>3, <1>4, <1>5, <1>6, QueueSteps DEF KeptOrEnded

\* What a generation saves is the model in hand, with its label.
LEMMA SavedWhole ==
    ASSUME TypeOK, Accepted
    PROVE  /\ snapshot'.model = model /\ snapshot'.label = label
           /\ snapshot'.lacking = lacking
           /\ UNCHANGED <<model, seq, lacking, label>>
BY DEF Accepted

\* No position is past the last change.
LEMMA NextPositions == ASSUME TypeOK, PositionsKnown, [Next]_vars PROVE PositionsKnown'
<1> DEFINE Scalars == /\ head \in Nat /\ position <= head /\ seq <= head /\ label <= head
                      /\ saved <= head /\ snapshot.label <= head
<1> HIDE DEF Scalars
<1> SUFFICES Scalars' /\ head <= head'
  BY NextUpTo DEF PositionsKnown, Scalars
<1>0. Scalars
  BY Numbers DEF PositionsKnown, Scalars
<1>a. tasks # <<>> => Head(tasks).upTo <= head
  BY RunningKnown
<1> USE Numbers, <1>0 DEF Scalars, streamVars, queueVars, modelVars, reportVars, treeVars
<1>b. ASSUME BatchReturns PROVE position' <= head
  BY <1>a, <1>b DEF BatchReturns, Running, Later
<1>1. CASE Change
  <2>1. /\ head' = head + 1 /\ position' = position /\ seq' = seq /\ label' = label
        /\ saved' = saved /\ snapshot' = snapshot
    BY <1>1 DEF Change
  <2>2. /\ head \in Nat /\ position \in Nat /\ seq \in Nat /\ label \in Nat /\ saved \in Nat
        /\ snapshot.label \in Nat
    OBVIOUS
  <2> QED
    BY <2>1, <2>2
<1>2. CASE BatchIgnored \/ BatchSubmitted \/ WatchRebuilds \/ AskRebuild \/ AskMerge \/ Pause
           \/ Resume \/ EditModified \/ CommitModified
  BY <1>2 DEF BatchIgnored, BatchSubmitted, WatchRebuilds, AskRebuild, AskMerge, Pause, Resume,
     EditModified, CommitModified
<1>3. ASSUME Labelled, tasks # <<>> PROVE label' <= head
  BY <1>a, <1>3 DEF Labelled, Later
<1>4. CASE Apply
  <2>1. tasks # <<>> /\ Labelled
    BY <1>4 DEF Apply, Applying, Running
  <2>2. seq' <= head
    BY <1>a, <1>4, <2>1 DEF Apply, Later
  <2> QED
    BY <1>3, <1>4, <2>1, <2>2 DEF Apply
<1>5. CASE ApplyThrows \/ ApplyStops \/ StopOnFacts
  <2>1. tasks # <<>> /\ Labelled
    BY <1>5 DEF ApplyThrows, ApplyStops, StopOnFacts, Applying, Running
  <2>2. UNCHANGED <<head, saved, snapshot>> /\ seq' <= head
    BY <1>5, <1>a, <2>1 DEF ApplyThrows, ApplyStops, StopOnFacts, Later
  <2>3. position' <= head
    BY <1>b, <1>5 DEF ApplyThrows, ApplyStops, StopOnFacts
  <2> QED
    BY <1>3, <2>1, <2>2, <2>3
<1>6. CASE Generate \/ GenerationFails
  <2>1. snapshot'.label = label /\ UNCHANGED <<head, seq, label, saved>>
    BY <1>6, SavedWhole DEF Generate, GenerationFails
  <2>2. position' <= head
    BY <1>b, <1>6 DEF Generate, GenerationFails
  <2> QED
    BY <2>1, <2>2
<1>7. CASE Commit \/ CommitThrows
  BY <1>b, <1>7 DEF Commit, CommitThrows
<1>8. CASE Merge
  BY <1>b, <1>8 DEF Merge
<1>9. CASE Publish
  BY <1>b, <1>9 DEF Publish, Records
<1>10. CASE RetryMerge
  BY <1>10 DEF RetryMerge
<1>11. CASE RetryPublish
  BY <1>11 DEF RetryPublish, Records
<1>12. CASE Crash \/ RestartForFacts
  BY <1>12 DEF Crash, RestartForFacts, Starts, Placed
<1>13. CASE UNCHANGED vars
  BY <1>13 DEF vars
<1> QED
  BY <1>1, <1>2, <1>4, <1>5, <1>6, <1>7, <1>8, <1>9, <1>10, <1>11, <1>12, <1>13 DEF Next, Task

-----------------------------------------------------------------------------
(* What is reported, and what is trusted.                                    *)

\* What has been spoiled is not forgotten.
LEMMA SpoiledGrows == ASSUME [Next]_vars PROVE spoiled \subseteq spoiled'
<1>1. CASE Change \/ BatchIgnored \/ BatchSubmitted \/ WatchRebuilds \/ AskRebuild \/ AskMerge
           \/ Pause \/ Resume \/ EditModified \/ CommitModified
  BY <1>1 DEF Change, BatchIgnored, BatchSubmitted, WatchRebuilds, AskRebuild, AskMerge, Pause,
     Resume, EditModified, CommitModified
<1>2. CASE Apply \/ ApplyThrows \/ ApplyStops \/ StopOnFacts \/ Generate \/ GenerationFails
           \/ Commit \/ CommitThrows \/ Merge
  BY <1>2 DEF Apply, ApplyThrows, ApplyStops, StopOnFacts, Generate, GenerationFails, Accepted,
     Commit, CommitThrows, Merge
<1>3. CASE Publish \/ RetryMerge \/ RetryPublish
  BY <1>3 DEF Publish, RetryMerge, RetryPublish, Unblocks
<1>4. CASE Crash \/ RestartForFacts
  BY <1>4 DEF Crash, RestartForFacts, Starts
<1>5. CASE UNCHANGED vars
  BY <1>5 DEF vars
<1> QED
  BY <1>1, <1>2, <1>3, <1>4, <1>5 DEF Next, Task

\* What is reported and saved stays in the trees.
LEMMA NextReached ==
    ASSUME TypeOK, TreesInOrder, Reached, StoppedIsOperators, [Next]_vars PROVE Reached'
<1> DEFINE Told == committedVersion <= committed /\ saved <= committed
           Behind == seq <= model \/ (needsFullResync /\ label > model)
           R == Told /\ Behind /\ (step = "generated" => seq <= model)
<1> SUFFICES ASSUME spoiled' \cap {"retry", "label", "placed", "accepted"} = {} PROVE R'
  BY DEF Reached
<1>0. R
  <2>1. spoiled \subseteq spoiled'
    BY SpoiledGrows
  <2> QED
    BY <2>1 DEF Reached
<1> USE Numbers, <1>0 DEF streamVars, queueVars, modelVars, reportVars, treeVars
<1>1. CASE Change \/ BatchIgnored \/ BatchSubmitted \/ WatchRebuilds \/ AskRebuild \/ AskMerge
           \/ Pause \/ Resume \/ EditModified \/ CommitModified
  BY <1>1 DEF Change, BatchIgnored, BatchSubmitted, WatchRebuilds, AskRebuild, AskMerge, Pause,
     Resume, EditModified, CommitModified
<1>a. ASSUME Running("apply") \/ Running("watch") PROVE ~needsFullResync
  <2>1. tasks # <<>> /\ Head(tasks).kind \in {"apply", "watch"}
    BY <1>a DEF Running
  <2>2. Head(tasks) = tasks[1] /\ 1 \in 1..Len(tasks)
    BY <2>1, RunningTask
  <2> QED
    BY <2>1, <2>2 DEF StoppedIsOperators
<1>b. ASSUME Applying PROVE seq <= model /\ tasks # <<>> /\ Head(tasks).upTo \in Nat
  <2>1. ~needsFullResync
    BY <1>a, <1>b DEF Applying
  <2> QED
    BY <1>b, <2>1 DEF Applying, Running
<1>2. CASE Apply
  BY <1>2, <1>b DEF Apply, Later
<1>3. CASE ApplyThrows \/ StopOnFacts
  <2>1. step' = "start" /\ UNCHANGED <<seq, model, committedVersion, committed, saved>>
    BY <1>3 DEF ApplyThrows, StopOnFacts, Ends, EndsBlocking
  <2>2. seq <= model
    BY <1>3, <1>b DEF ApplyThrows, StopOnFacts
  <2> QED
    BY <2>1, <2>2
<1>d. CASE ApplyStops
  <2>1. /\ step' = "start" /\ needsFullResync'
        /\ seq' = Later(seq, Head(tasks).upTo) /\ label' = Later(label, Head(tasks).upTo)
        /\ UNCHANGED <<model, committedVersion, committed, saved>>
    BY <1>d DEF ApplyStops, EndsBlocking, Labelled
  <2>2. seq <= model /\ Head(tasks).upTo \in Nat
    BY <1>b, <1>d DEF ApplyStops
  <2> QED
    BY <2>1, <2>2 DEF Later
<1>4. CASE Generate \/ GenerationFails
  <2>1. MayGenerate /\ Accepted /\ UNCHANGED <<committedVersion, committed, saved>>
    BY <1>4 DEF Generate, GenerationFails
  <2>2. Accepts => seq <= model
    BY <2>1 DEF Accepted
  <2>3. ~Accepts => ~needsFullResync
    BY <1>a, <2>1 DEF MayGenerate, Accepts
  <2>4. seq <= model /\ UNCHANGED <<seq, model>>
    BY <2>1, <2>2, <2>3 DEF Accepted
  <2> QED
    BY <2>1, <2>4
<1>5. CASE Commit
  <2>1. /\ step = "generated" /\ committed' = synced /\ saved' = seq /\ committedVersion' = seq
        /\ UNCHANGED <<seq, model, needsFullResync, label>>
        /\ step' \in {"start", "committed"}
    BY <1>5 DEF Commit, Ends
  <2> QED
    BY <2>1 DEF TreesInOrder
<1>6. CASE CommitThrows \/ Merge \/ RetryMerge
  <2>1. /\ step' = "start"
        /\ UNCHANGED <<seq, model, needsFullResync, label, committedVersion, committed, saved>>
    BY <1>6 DEF CommitThrows, Merge, RetryMerge, Ends, EndsBlocking, Unblocks
  <2> QED
    BY <2>1
<1>7. ASSUME NEW code \in {0, 1, 3, 4, 5}, PublishCommand(code), Records(code),
             synced = model, label <= model, seq <= model
      PROVE  Told'
  <2>1. committed' \in {committed, synced} /\ (code = 0 => committed' = synced)
    BY <1>7 DEF PublishCommand
  <2>2. \/ UNCHANGED <<saved, committedVersion>>
        \/ committed' = synced /\ saved' = seq /\ committedVersion' = label
    BY <1>7, <2>1 DEF Records
  <2>3. committed <= committed'
    BY <2>1 DEF TreesInOrder
  <2> QED
    BY <1>7, <2>1, <2>2, <2>3
<1>8. CASE Publish
  <2>1. synced = model /\ seq <= model /\ UNCHANGED <<seq, model>> /\ step' = "start"
    BY <1>8 DEF Publish, TreesInOrder, Ends, EndsBlocking
  <2>2. label <= model
    BY <1>8 DEF Publish
  <2>3. Told'
    BY <1>7, <1>8, <2>1, <2>2 DEF Publish
  <2> QED
    BY <2>1, <2>3
<1>9. CASE RetryPublish
  <2>1. PICK code \in {0, 1, 3, 4, 5} :
            /\ PublishCommand(code) /\ Records(code)
            /\ synced # model \/ label > model => "retry" \in spoiled'
    BY <1>9 DEF RetryPublish
  <2>2. synced = model /\ label <= model
    BY <2>1
  <2>3. UNCHANGED <<seq, model>> /\ step' = "start" /\ seq <= model
    BY <1>9, <2>2 DEF RetryPublish, EndsBlocking
  <2>4. Told'
    BY <1>7, <2>1, <2>2, <2>3
  <2> QED
    BY <2>3, <2>4
<1>10. CASE Crash \/ RestartForFacts
  <2>1. /\ committedVersion' = Placed /\ seq' = Placed /\ model' = snapshot.model
        /\ UNCHANGED <<saved, committed>> /\ step' = "start"
        /\ Placed > saved => "placed" \in spoiled'
    BY <1>10 DEF Crash, RestartForFacts, Starts
  <2>2. Placed \in Nat /\ Placed <= saved
    BY <2>1 DEF Placed
  <2> QED
    BY <2>1, <2>2 DEF TreesInOrder
<1>11. CASE UNCHANGED vars
  BY <1>11 DEF vars
<1> QED
  BY <1>1, <1>2, <1>3, <1>d, <1>4, <1>5, <1>6, <1>8, <1>9, <1>10, <1>11 DEF Next, Task

\* What is generated is the work of another task than a retried merge.
LEMMA GeneratesUnblocked ==
    ASSUME TypeOK, BlockedMergesOnly, MayGenerate PROVE ~blocked
<1>1. tasks # <<>> /\ Head(tasks).kind # "merge"
  BY DEF MayGenerate, Running
<1>2. Head(tasks) = tasks[1] /\ 1 \in 1..Len(tasks)
  BY <1>1, RunningTask
<1> QED
  BY <1>1, <1>2 DEF BlockedMergesOnly

\* Nothing comes to be generated but by a generation.
LEMMA OnlyGenerates ==
    ASSUME [Next]_vars, step # "generated", step' = "generated" PROVE MayGenerate
<1> USE DEF queueVars
<1>1. CASE Change \/ BatchIgnored \/ BatchSubmitted \/ WatchRebuilds \/ AskRebuild \/ AskMerge
           \/ Pause \/ Resume \/ EditModified \/ CommitModified
  BY <1>1 DEF Change, BatchIgnored, BatchSubmitted, WatchRebuilds, AskRebuild, AskMerge, Pause,
     Resume, EditModified, CommitModified
<1>2. CASE Apply \/ ApplyThrows \/ ApplyStops \/ StopOnFacts \/ GenerationFails
  BY <1>2 DEF Apply, ApplyThrows, ApplyStops, StopOnFacts, GenerationFails, Ends, EndsBlocking
<1>3. CASE Generate
  BY <1>3 DEF Generate
<1>4. CASE Commit \/ CommitThrows \/ Merge \/ Publish
  BY <1>4 DEF Commit, CommitThrows, Merge, Publish, Ends, EndsBlocking
<1>5. CASE RetryMerge \/ RetryPublish
  BY <1>5 DEF RetryMerge, RetryPublish, Ends, EndsBlocking, Unblocks
<1>6. CASE Crash \/ RestartForFacts
  BY <1>6 DEF Crash, RestartForFacts, Starts
<1>7. CASE UNCHANGED vars
  BY <1>7 DEF vars
<1> QED
  BY <1>1, <1>2, <1>3, <1>4, <1>5, <1>6, <1>7 DEF Next, Task

\* A model that is not to be trusted keeps the queue blocked.
LEMMA NextStops == ASSUME TypeOK, BlockedMergesOnly, StopsBlock, [Next]_vars PROVE StopsBlock'
<1> SUFFICES ASSUME "unblocked" \notin spoiled'
             PROVE  /\ lacking' \/ needsFullResync' => blocked'
                    /\ ~snapshot'.lacking
  BY DEF StopsBlock
<1>0. (lacking \/ needsFullResync => blocked) /\ ~snapshot.lacking
  <2>1. spoiled \subseteq spoiled'
    BY SpoiledGrows
  <2> QED
    BY <2>1 DEF StopsBlock
<1> USE <1>0 DEF streamVars, queueVars, modelVars
<1>1. CASE Change \/ BatchIgnored \/ BatchSubmitted \/ WatchRebuilds \/ AskRebuild \/ AskMerge
           \/ Pause \/ Resume \/ EditModified \/ CommitModified
  BY <1>1 DEF Change, BatchIgnored, BatchSubmitted, WatchRebuilds, AskRebuild, AskMerge, Pause,
     Resume, EditModified, CommitModified
<1>2. CASE Apply \/ ApplyThrows
  BY <1>2 DEF Apply, ApplyThrows, Ends
<1>3. CASE ApplyStops \/ StopOnFacts
  BY <1>3 DEF ApplyStops, StopOnFacts, EndsBlocking
<1>4. CASE Generate \/ GenerationFails
  <2>1. ~blocked
    BY <1>4, GeneratesUnblocked DEF Generate, GenerationFails
  <2>2. ~snapshot'.lacking /\ ~lacking' /\ ~needsFullResync'
    <3>1. Accepted
      BY <1>4 DEF Generate, GenerationFails
    <3>2. ~needsFullResync /\ ~lacking
      BY <2>1
    <3> QED
      BY <3>1, <3>2, SavedWhole DEF Accepted
  <2> QED
    BY <2>1, <2>2
<1>5. CASE Commit \/ CommitThrows
  BY <1>5 DEF Commit, CommitThrows, Ends
<1>6. CASE Merge \/ Publish
  BY <1>6 DEF Merge, Publish, Ends, EndsBlocking
<1>7. CASE RetryMerge
  <2>1. UNCHANGED <<lacking, needsFullResync, snapshot>>
    BY <1>7 DEF RetryMerge
  <2>2. CASE UNCHANGED blocked
    BY <2>1, <2>2
  <2>3. ASSUME NEW good \in BOOLEAN, Unblocks(good) PROVE lacking \/ needsFullResync => blocked'
    <3>1. SUFFICES ASSUME lacking \/ needsFullResync PROVE blocked'
      OBVIOUS
    <3>2. blocked
      BY <3>1
    <3>3. ~good
      BY <2>3, <3>1, <3>2 DEF Unblocks
    <3> QED
      BY <2>3, <3>2, <3>3 DEF Unblocks
  <2>4. (UNCHANGED blocked) \/ \E good \in BOOLEAN : Unblocks(good)
    BY <1>7 DEF RetryMerge, Ends
  <2> QED
    BY <2>1, <2>2, <2>3, <2>4
<1>8. CASE RetryPublish
  BY <1>8 DEF RetryPublish, EndsBlocking
<1>9. CASE Crash \/ RestartForFacts
  BY <1>9 DEF Crash, RestartForFacts, Starts
<1>10. CASE UNCHANGED vars
  BY <1>10 DEF vars
<1> QED
  BY <1>1, <1>2, <1>3, <1>4, <1>5, <1>6, <1>7, <1>8, <1>9, <1>10 DEF Next, Task

-----------------------------------------------------------------------------
(* Types.                                                                    *)

\* The queue is idle between its tasks.
StepTyped ==
    /\ step \in {"start", "applied", "generated", "committed"}
    /\ tasks = <<>> => step = "start"

LoopTyped ==
    /\ setup \in Setups /\ head \in Seqs /\ position \in Seqs /\ paused \in BOOLEAN
    /\ blocked \in BOOLEAN
    /\ needsFullResync \in BOOLEAN /\ lacking \in BOOLEAN
    /\ model \in Seqs /\ seq \in Seqs /\ label \in Seqs
    /\ committedVersion \in Seqs /\ gateRed \in Seqs

DiskTyped ==
    /\ saved \in Seqs /\ snapshot \in [model : Seqs, label : Seqs, lacking : BOOLEAN]
    /\ synced \in Seqs /\ committed \in Seqs /\ merged \in Seqs
    /\ modified \in {"clean", "edited", "markers"}
    /\ spoiled \subseteq {"unblocked", "retry", "label", "placed", "accepted"} /\ faults \in 0..MaxFaults

\* No task is left half done.
LEMMA NextStep == ASSUME TypeOK, [Next]_vars PROVE StepTyped'
<1> USE DEF StepTyped, queueVars
<1>0. StepTyped /\ tasks \in Seq(Submission)
  BY DEF TypeOK, Submission
<1>1. ASSUME NEW kind \in Kinds, NEW upTo \in Seqs, Submit(kind, upTo) PROVE tasks' # <<>>
  <2>1. tasks' = Append(tasks, [kind |-> kind, upTo |-> upTo])
    BY <1>1 DEF Submit
  <2>2. [kind |-> kind, upTo |-> upTo] \in Submission
    BY DEF Submission
  <2>3. Len(tasks') = Len(tasks) + 1 /\ Len(tasks) \in Nat
    BY <1>0, <2>1, <2>2, Queued
  <2> QED
    BY <2>3, EmptySeq
<1>2. CASE Change \/ BatchIgnored \/ Pause \/ Resume \/ EditModified \/ CommitModified
  BY <1>0, <1>2 DEF Change, BatchIgnored, Pause, Resume, EditModified, CommitModified
<1>3. CASE BatchSubmitted
  <2>1. head \in Seqs /\ "apply" \in Kinds
    BY DEF TypeOK, Kinds
  <2> QED
    BY <1>0, <1>1, <1>3, <2>1 DEF BatchSubmitted
<1>4. CASE WatchRebuilds \/ AskRebuild \/ AskMerge
  <2>1. 0 \in Seqs /\ {"rebuild", "watch", "merge"} \subseteq Kinds
    BY LoopAssumption DEF Seqs, Kinds
  <2> QED
    BY <1>0, <1>1, <1>4, <2>1 DEF WatchRebuilds, AskRebuild, AskMerge
<1>5. CASE Apply \/ Generate
  BY <1>5 DEF Apply, Generate, Applying, MayGenerate, Running
<1>6. CASE ApplyThrows \/ ApplyStops \/ StopOnFacts \/ GenerationFails \/ CommitThrows
  BY <1>6 DEF ApplyThrows, ApplyStops, StopOnFacts, GenerationFails, CommitThrows, Ends,
     EndsBlocking
<1>7. CASE Commit
  BY <1>0, <1>7 DEF Commit, Ends
<1>8. CASE Merge \/ Publish \/ RetryMerge \/ RetryPublish
  BY <1>8 DEF Merge, Publish, RetryMerge, RetryPublish, Ends, EndsBlocking, Unblocks
<1>9. CASE Crash \/ RestartForFacts
  BY <1>9 DEF Crash, RestartForFacts, Starts
<1>10. CASE UNCHANGED vars
  BY <1>0, <1>10 DEF vars
<1> QED
  BY <1>2, <1>3, <1>4, <1>5, <1>6, <1>7, <1>8, <1>9, <1>10 DEF Next, Task

\* What the loop has in memory keeps its types.
LEMMA NextLoopTyped == ASSUME TypeOK, [Next]_vars PROVE LoopTyped'
<1> USE DEF LoopTyped, streamVars, queueVars, modelVars, reportVars
<1>0. LoopTyped
  BY DEF TypeOK
<1>a. snapshot.model \in Seqs /\ snapshot.label \in Seqs /\ snapshot.lacking \in BOOLEAN /\ saved \in Seqs
  BY DEF TypeOK
<1>b. tasks # <<>> => Head(tasks).upTo \in Seqs
  BY RunningTask
<1>c. \A s, t \in Seqs : Later(s, t) \in Seqs
  BY DEF Later
<1>d. 0 \in Seqs
  BY LoopAssumption DEF Seqs
<1>e. ASSUME BatchReturns PROVE position' \in Seqs
  BY <1>0, <1>b, <1>c, <1>e DEF BatchReturns, Running
<1>1. CASE Change
  BY <1>0, <1>1, LoopAssumption DEF Change, Seqs
<1>2. CASE BatchIgnored \/ BatchSubmitted \/ WatchRebuilds \/ AskRebuild \/ AskMerge
           \/ Pause \/ Resume \/ EditModified \/ CommitModified
  BY <1>0, <1>2 DEF BatchIgnored, BatchSubmitted, WatchRebuilds, AskRebuild, AskMerge, Pause,
     Resume, EditModified, CommitModified
<1>3. CASE Apply \/ ApplyThrows \/ ApplyStops \/ StopOnFacts
  <2>1. tasks # <<>> /\ Labelled
    BY <1>3 DEF Apply, ApplyThrows, ApplyStops, StopOnFacts, Applying, Running
  <2>2. label' \in Seqs
    BY <1>0, <1>b, <1>c, <2>1 DEF Labelled
  <2>3. CASE Apply
    BY <1>0, <1>b, <1>c, <2>1, <2>2, <2>3 DEF Apply
  <2>4. CASE ApplyThrows \/ ApplyStops \/ StopOnFacts
    <3>1. Later(seq, Head(tasks).upTo) \in Seqs
      BY <1>0, <1>b, <1>c, <2>1
    <3> QED
      BY <1>0, <1>e, <2>2, <2>4, <3>1 DEF ApplyThrows, ApplyStops, StopOnFacts, Ends, EndsBlocking
  <2> QED
    BY <1>3, <2>3, <2>4
<1>4. CASE Generate \/ GenerationFails
  BY <1>0, <1>4, <1>e DEF Generate, GenerationFails, Accepted, Ends
<1>5. CASE Commit \/ CommitThrows
  BY <1>0, <1>5, <1>e DEF Commit, CommitThrows, Ends
<1>6. CASE Merge
  BY <1>0, <1>6, <1>e DEF Merge, Ends, EndsBlocking
<1>7. CASE Publish
  BY <1>0, <1>7, <1>d, <1>e DEF Publish, Records, Ends, EndsBlocking
<1>8. CASE RetryMerge
  BY <1>0, <1>8 DEF RetryMerge, Ends, Unblocks
<1>9. CASE RetryPublish
  BY <1>0, <1>9, <1>d DEF RetryPublish, Records, EndsBlocking
<1>10. CASE Crash \/ RestartForFacts
  BY <1>0, <1>10, <1>a, <1>d DEF Crash, RestartForFacts, Starts, Placed
<1>11. CASE UNCHANGED vars
  BY <1>0, <1>11 DEF vars
<1> QED
  BY <1>1, <1>2, <1>3, <1>4, <1>5, <1>6, <1>7, <1>8, <1>9, <1>10, <1>11 DEF Next, Task

\* What is on disk keeps its types.
LEMMA NextDiskTyped == ASSUME TypeOK, [Next]_vars PROVE DiskTyped'
<1> USE DEF DiskTyped, modelVars, reportVars, treeVars
<1>0. DiskTyped /\ seq \in Seqs /\ model \in Seqs /\ label \in Seqs /\ lacking \in BOOLEAN
  BY DEF TypeOK
<1>a. ASSUME Fault PROVE faults' \in 0..MaxFaults
  BY <1>a, LoopAssumption DEF Fault, TypeOK
<1>1. CASE Change \/ BatchIgnored \/ BatchSubmitted \/ AskRebuild \/ AskMerge \/ Resume
  BY <1>0, <1>1 DEF Change, BatchIgnored, BatchSubmitted, AskRebuild, AskMerge, Resume
<1>2. CASE WatchRebuilds \/ Pause \/ EditModified
  BY <1>0, <1>2, <1>a DEF WatchRebuilds, Pause, EditModified
<1>3. CASE CommitModified
  <2>1. (merged + 1)..committed \subseteq Seqs
    BY <1>0, LoopAssumption DEF Seqs
  <2>2. merged' \in Seqs
    BY <1>0, <1>3, <2>1 DEF CommitModified
  <2> QED
    BY <1>0, <1>3, <2>2 DEF CommitModified
<1>4. CASE Apply \/ ApplyThrows \/ ApplyStops \/ StopOnFacts \/ CommitThrows
  BY <1>0, <1>4, <1>a DEF Apply, ApplyThrows, ApplyStops, StopOnFacts, CommitThrows
<1>5. CASE Generate \/ GenerationFails
  <2>1. snapshot' \in [model : Seqs, label : Seqs, lacking : BOOLEAN]
    <3>1. snapshot' = [model |-> model, label |-> label, lacking |-> lacking]
      BY <1>5 DEF Generate, GenerationFails, Accepted
    <3> QED
      BY <1>0, <3>1
  <2> QED
    BY <1>0, <1>5, <1>a, <2>1 DEF Generate, GenerationFails, Accepted
<1>6. CASE Commit
  BY <1>0, <1>6 DEF Commit
<1>7. ASSUME NEW outcome \in {"dirty", "clean", "conflict", "error"}, MergeOutcome(outcome)
      PROVE  /\ merged' \in Seqs /\ modified' \in {"clean", "edited", "markers"}
             /\ faults' \in 0..MaxFaults
  BY <1>0, <1>7, <1>a DEF MergeOutcome
<1>8. CASE Merge
  BY <1>0, <1>7, <1>8 DEF Merge
<1>9. ASSUME NEW code \in {0, 1, 3, 4, 5}, PublishCommand(code), Records(code)
      PROVE  /\ saved' \in Seqs /\ committed' \in Seqs /\ merged' \in Seqs
             /\ modified' \in {"clean", "edited", "markers"} /\ faults' \in 0..MaxFaults
  BY <1>0, <1>9, <1>a DEF PublishCommand, Records
<1>10. CASE Publish
  BY <1>0, <1>9, <1>10 DEF Publish
<1>11. CASE RetryMerge
  BY <1>0, <1>7, <1>11 DEF RetryMerge, Unblocks
<1>12. CASE RetryPublish
  BY <1>0, <1>9, <1>12 DEF RetryPublish
<1>13. CASE Crash \/ RestartForFacts
  BY <1>0, <1>13, <1>a DEF Crash, RestartForFacts, Starts
<1>14. CASE UNCHANGED vars
  BY <1>0, <1>14 DEF vars
<1> QED
  BY <1>1, <1>2, <1>3, <1>4, <1>5, <1>6, <1>8, <1>10, <1>11, <1>12, <1>13, <1>14 DEF Next, Task

-----------------------------------------------------------------------------
(* The theorems.                                                             *)

\* A new daemon is well typed and satisfies the invariant.
LEMMA InitInv == Init => TypeOK /\ IInv
<1> SUFFICES ASSUME Init PROVE TypeOK /\ IInv
  OBVIOUS
<1>1. 0 \in Seqs /\ 0 \in 0..MaxFaults /\ 0 <= 0
  BY LoopAssumption DEF Seqs
<1>2. tasks \in Seq([kind : Kinds, upTo : Seqs]) /\ Len(tasks) = 0
  BY EmptySeq DEF Init
<1>3. TypeOK
  <2>1. snapshot \in [model : Seqs, label : Seqs, lacking : BOOLEAN]
    BY <1>1 DEF Init
  <2>2. \A i, j \in 1..Len(tasks) : tasks[i].kind = tasks[j].kind => i = j
    BY <1>2
  <2> QED
    BY <1>1, <1>2, <2>1, <2>2 DEF Init, TypeOK
<1>4. IInv
  BY <1>1, <1>2 DEF Init, IInv, TreesInOrder, PositionsKnown, Reached,
     BlockedMergesOnly, StoppedIsOperators, StopsBlock
<1> QED
  BY <1>3, <1>4

\* Every step keeps both.
LEMMA NextInv == TypeOK /\ IInv /\ [Next]_vars => TypeOK' /\ IInv'
<1> SUFFICES ASSUME TypeOK, IInv, [Next]_vars PROVE TypeOK' /\ IInv'
  OBVIOUS
<1>1. IInv'
  BY NextTrees, NextPositions, NextReached, NextQueue, NextStops DEF IInv
<1>2. QueueTyped' /\ BlockedMergesOnly'
  BY NextQueue DEF IInv
<1>3. merged' <= committed' /\ position' <= head'
  BY <1>1 DEF IInv, TreesInOrder, PositionsKnown
<1>4. blocked' => \A i \in 2..Len(tasks') : tasks'[i].kind = "merge"
  <2>1. Len(tasks') \in Nat
    BY <1>2 DEF QueueTyped
  <2> QED
    BY <1>2, <2>1 DEF BlockedMergesOnly
<1>5. LoopTyped' /\ DiskTyped' /\ StepTyped'
  BY NextLoopTyped, NextDiskTyped, NextStep
<1>6. TypeOK'
  BY <1>2, <1>3, <1>4, <1>5
     DEF TypeOK, QueueTyped, Submission, LoopTyped, DiskTyped, StepTyped
<1> QED
  BY <1>1, <1>6

\* The invariant holds throughout.
THEOREM SpecInv == Spec => [](TypeOK /\ IInv)
BY InitInv, NextInv, PTL DEF Spec

\* Well typed, with at most one task of a kind, whatever fails.
THEOREM SpecTypeOK == Spec => []TypeOK
BY SpecInv, PTL

\* What waitForVersion answers, and what a restart goes on from, is in a committed tree.
THEOREM SpecReachedIsCommitted == Spec => []ReachedIsCommitted
<1>1. IInv => ReachedIsCommitted
  BY DEF IInv, Reached, ReachedIsCommitted
<1> QED
  BY <1>1, SpecInv, PTL

\* Nothing is generated from a model that lacks facts or that a resync stop distrusts.
THEOREM SpecOnlyTrustedIsGenerated == Spec => OnlyTrustedIsGenerated
<1>1. TypeOK /\ IInv /\ [Next]_vars
      => [step # "generated" /\ step' = "generated" /\ "unblocked" \notin spoiled
            => ~lacking /\ (needsFullResync => Running("rebuild"))]_vars
  <2> SUFFICES ASSUME TypeOK, IInv, [Next]_vars, step # "generated", step' = "generated",
                      "unblocked" \notin spoiled
               PROVE  ~lacking /\ (needsFullResync => Running("rebuild"))
    OBVIOUS
  <2>1. MayGenerate
    BY OnlyGenerates
  <2>2. ~blocked
    BY <2>1, GeneratesUnblocked DEF IInv
  <2> QED
    BY <2>2 DEF IInv, StopsBlock
<1> QED
  BY <1>1, SpecInv, PTL DEF Spec, OnlyTrustedIsGenerated

=============================================================================
