-------------------------- MODULE ChangeStreamProofs --------------------------
(***************************************************************************)
(* For any number of changes, faults and redeliveries: the resume point    *)
(* and the saved position never pass a change that is neither applied nor  *)
(* declared missing, and the stream implements JournalConsumer.  Both are  *)
(* under the assumption that the resume check of a start can read the      *)
(* journal (CheckMayFail = FALSE); without it they do not hold.            *)
(***************************************************************************)
EXTENDS ChangeStream, SequenceTheorems, TLAPS

InHand == Range(batch) \cup Range(queue)

Closed(S, T) == \A s \in S : 1..s \subseteq T

\* Below anything queued, everything is accounted for or in hand; below anything in the
\* batch, accounted for or in the batch.
QueueClosed == Closed(Range(queue), Accounted \cup InHand)
BatchClosed == Closed(Range(batch), Accounted \cup Range(batch))

\* What the server has sent on this connection was dropped as accounted for, or is in hand.
CursorClosed == connected /\ gapSince = NoGap => 1..cursor \subseteq Accounted \cup InHand
GapClosed == gapSince # NoGap => connected /\ 1..gapSince \subseteq Accounted

WithinJournal ==
    /\ oldest <= head + 1
    /\ connected => cursor <= head
    /\ appliedSeq <= head
    /\ savedSeq <= modelSeq /\ modelSeq <= head
    /\ Accounted \cup InHand \subseteq 1..head

KeptInModel == kept \subseteq applied

\* With a readable journal the loop never waits for a resync with events still flowing:
\* the stream is paused, or the next frame is the one that pauses it.
StoppedOrTold ==
    needsResync => \/ paused
                   \/ /\ queue = <<>> /\ ~draining
                      /\ appliedSeq + 1 < oldest
                      /\ connected => gapSince # NoGap

BatchState == ~ignoring /\ (~draining => batch = <<>>)

-----------------------------------------------------------------------------
(* Sequences as the sets of what they hold.                                  *)

\* An empty queue holds no event.
LEMMA RangeOfNone == Range(<<>>) = {}
BY DEF Range

\* An event read joins those of the queue.
LEMMA RangeOfAppend ==
    ASSUME NEW S, NEW s \in Seq(S), NEW x \in S
    PROVE  Append(s, x) \in Seq(S) /\ Range(Append(s, x)) = Range(s) \cup {x}
<1>1. Append(s, x) = s \o <<x>>
  BY AppendIsConcat
<1>3. <<x>> \in Seq(S)
  OBVIOUS
<1>2. Range(<<x>>) = {x}
  BY DEF Range
<1>4. Range(s \o <<x>>) = Range(s) \cup Range(<<x>>)
  <2> HIDE DEF Range
  <2> QED
    BY <1>3, RangeConcatenation
<1>5. s \o <<x>> \in Seq(S)
  BY <1>3, ConcatProperties
<1> QED
  BY <1>1, <1>2, <1>4, <1>5

\* A batch put back in front keeps every event of both.
LEMMA RangeOfConcat ==
    ASSUME NEW S, NEW s \in Seq(S), NEW t \in Seq(S)
    PROVE  s \o t \in Seq(S) /\ Range(s \o t) = Range(s) \cup Range(t)
BY RangeConcatenation, ConcatProperties

\* The events of a queue are changes.
LEMMA RangeInType ==
    ASSUME TypeOK
    PROVE  Range(queue) \subseteq Seqs /\ Range(batch) \subseteq Seqs
BY RangeOfSeq DEF TypeOK

-----------------------------------------------------------------------------

\* What a batch leaves in the queue is a queue.
LEMMA RestInType ==
    ASSUME NEW s \in Seq(Seqs), NEW t \in Seq(Seqs)
    PROVE  s \o t \in Seq(Seqs) /\ <<>> \in Seq(Seqs)
BY ConcatProperties, EmptySeq

\* The largest of a set of positions is one of them.
LEMMA TopIn ==
    ASSUME NEW S, NEW m \in Top(S)
    PROVE  m \in S /\ \A k \in S : k <= m
BY DEF Top

\* A new stream is well typed.
LEMMA InitType == Init => TypeOK
<1> SUFFICES ASSUME Init PROVE TypeOK
  OBVIOUS
<1>1. queue \in Seq(Seqs) /\ batch \in Seq(Seqs)
  BY EmptySeq DEF Init
<1>2. 0 \in 0..MaxSeq /\ 1 \in 1..(MaxSeq + 1) /\ 0 \in 0..MaxFaults
  BY StreamAssumption
<1> QED
  BY <1>1, <1>2 DEF Init, TypeOK

\* Every step keeps the state well typed.
LEMMA NextType == TypeOK /\ [Next]_vars => TypeOK'
<1> SUFFICES ASSUME TypeOK, [Next]_vars PROVE TypeOK'
  OBVIOUS
<1> USE StreamAssumption DEF TypeOK, journalVars, connVars, releaseVars, modelVars
<1>0. ASSUME Fault PROVE faults' \in 0..MaxFaults
  BY <1>0 DEF Fault
<1>1. CASE Record
  BY <1>1 DEF Record
<1>2. CASE Rotate
  BY <1>0, <1>2 DEF Rotate, Fault
<1>3. CASE Connect
  BY <1>3 DEF Connect
<1>4. CASE Disconnect
  <2>1. gapSince' \in {NoGap} \cup (0..MaxSeq) /\ connected' \in BOOLEAN
    BY <1>4 DEF Disconnect
  <2> QED
    BY <1>0, <1>4, <2>1 DEF Disconnect
<1>5. CASE ReadTruncated
  <2>1. declared' \subseteq Seqs
    BY <1>5 DEF ReadTruncated, NoGap, Seqs
  <2> QED
    BY <1>5, <2>1 DEF ReadTruncated
<1>6. CASE ReadChange
  <2>1. cursor + 1 \in Seqs /\ cursor' = cursor + 1 /\ cursor' \in 0..MaxSeq
    BY <1>6 DEF ReadChange, Seqs
  <2>2. queue' \in Seq(Seqs)
    BY <1>6, <2>1, RangeOfAppend DEF ReadChange
  <2> QED
    BY <1>6, <2>1, <2>2 DEF ReadChange
<1>7. CASE QuietOver
  BY <1>7, RestInType DEF QuietOver, MayDrain
<1>8. ASSUME appliedSeq' \in Top({appliedSeq} \cup Range(batch)) PROVE appliedSeq' \in 0..MaxSeq
  BY <1>8, TopIn, RangeInType DEF Seqs
<1>9. ASSUME modelSeq' \in Top({modelSeq} \cup Range(batch)) PROVE modelSeq' \in 0..MaxSeq
  BY <1>9, TopIn, RangeInType DEF Seqs
<1>10. ASSUME NEW rest \in Seq(Seqs), EndDrain(rest)
       PROVE  /\ queue' \in Seq(Seqs) /\ batch' \in Seq(Seqs)
              /\ timer' \in BOOLEAN /\ draining' \in BOOLEAN /\ ignoring' \in BOOLEAN
  BY <1>10, RestInType DEF EndDrain
<1>11. CASE BatchApplied
  <2>1. applied' \subseteq Seqs /\ appliedSeq' \in 0..MaxSeq /\ modelSeq' \in 0..MaxSeq
    BY <1>8, <1>9, <1>11, RangeInType DEF BatchApplied
  <2>2. savedSeq' \in 0..MaxSeq /\ kept' \subseteq Seqs
    BY <1>11, <2>1 DEF BatchApplied, Save
  <2> QED
    BY <1>10, <1>11, <2>1, <2>2 DEF BatchApplied
<1>12. CASE BatchIgnored
  BY <1>8, <1>10, <1>12 DEF BatchIgnored
<1>13. CASE BatchStopsLoop
  <2>1. declared' \subseteq Seqs
    BY <1>13, RangeInType DEF BatchStopsLoop
  <2> QED
    BY <1>8, <1>9, <1>10, <1>13, <2>1 DEF BatchStopsLoop, Fault
<1>14. CASE BatchFails
  <2>1. batch \o queue \in Seq(Seqs)
    BY RestInType
  <2> QED
    BY <1>0, <1>10, <1>14, <2>1 DEF BatchFails
<1>15. CASE Pause
  BY <1>15 DEF Pause, Fault
<1>16. CASE Resume
  BY <1>16 DEF Resume
<1>17. CASE AcceptModel
  <2>1. savedSeq' \in 0..MaxSeq /\ kept' \subseteq Seqs
    BY <1>17 DEF AcceptModel, Save
  <2> QED
    BY <1>17, <2>1 DEF AcceptModel
<1>18. ASSUME NEW n \in Seqs, MarkApplied(n) PROVE TypeOK'
  <2>1. appliedSeq' \in 0..MaxSeq /\ modelSeq' = n /\ savedSeq' = n
    BY <1>18, TopIn DEF MarkApplied, Save, Seqs
  <2>2. applied' \subseteq Seqs /\ kept' = applied'
    BY <1>18 DEF MarkApplied, Save, Seqs
  <2> QED
    BY <1>18, <2>1, <2>2 DEF MarkApplied, Seqs
<1>19. CASE Restart
  <2>1. ((savedSeq + 1)..(oldest - 1)) \subseteq Seqs
    BY DEF Seqs
  <2>2. declared' \subseteq Seqs
    BY <1>19, <2>1 DEF Restart
  <2>3. queue' \in Seq(Seqs) /\ batch' \in Seq(Seqs)
    BY <1>19, EmptySeq DEF Restart
  <2>4. gapSince' \in {NoGap} \cup (0..MaxSeq) /\ connected' \in BOOLEAN /\ needsResync' \in BOOLEAN
    BY <1>19 DEF Restart
  <2> QED
    BY <1>0, <1>19, <2>2, <2>3, <2>4 DEF Restart
<1>20. CASE UNCHANGED vars
  BY <1>20 DEF vars
<1> QED
  BY <1>1, <1>2, <1>3, <1>4, <1>5, <1>6, <1>7, <1>11, <1>12, <1>13, <1>14, <1>15, <1>16,
     <1>17, <1>18, <1>19, <1>20 DEF Next

\* Well typed, with crashes, faults and a resume check that may fail.
THEOREM SpecTypeOK == Spec => []TypeOK
BY InitType, NextType, PTL DEF Spec

-----------------------------------------------------------------------------
(* The inductive invariant.                                                  *)

\* Its parts that are about positions rather than types.
SInv ==
    /\ NeverSkip
    /\ ModelCoversItsSeq
    /\ QueueClosed
    /\ BatchClosed
    /\ CursorClosed
    /\ GapClosed
    /\ WithinJournal
    /\ KeptInModel
    /\ StoppedOrTold
    /\ BatchState

\* A new stream satisfies the invariant.
LEMMA InitInv == Init => SInv
<1> SUFFICES ASSUME Init PROVE SInv
  OBVIOUS
<1>1. Range(queue) = {} /\ Range(batch) = {} /\ Accounted = {} /\ InHand = {}
  BY RangeOfNone DEF Init, Accounted, InHand
<1>2. 1..0 = {}
  OBVIOUS
<1>3. NeverSkip /\ ModelCoversItsSeq /\ QueueClosed /\ BatchClosed
  BY <1>1, <1>2 DEF Init, NeverSkip, ModelCoversItsSeq, QueueClosed, BatchClosed, Closed
<1>4. CursorClosed /\ GapClosed /\ WithinJournal /\ KeptInModel /\ StoppedOrTold /\ BatchState
  BY <1>1, <1>2 DEF Init, CursorClosed, GapClosed, WithinJournal, KeptInModel, StoppedOrTold,
     BatchState, NoGap
<1> QED
  BY <1>3, <1>4 DEF SInv

\* What the steps need to know of the types.
LEMMA Numbers ==
    ASSUME TypeOK
    PROVE  /\ head \in Nat /\ oldest \in Nat /\ cursor \in Nat
           /\ appliedSeq \in Nat /\ modelSeq \in Nat /\ savedSeq \in Nat
           /\ gapSince # NoGap => gapSince \in Nat
BY StreamAssumption DEF TypeOK

\* The steps that leave the queue, the batch and what is accounted for alone.
LEMMA QuietStepsInv ==
    ASSUME TypeOK, SInv,
           Record \/ Rotate \/ Connect \/ Disconnect \/ Pause \/ Resume \/ AcceptModel
    PROVE  SInv'
<1> USE Numbers DEF SInv, NeverSkip, ModelCoversItsSeq, QueueClosed, BatchClosed,
      CursorClosed, GapClosed, WithinJournal, KeptInModel, StoppedOrTold, BatchState, Accounted,
      InHand, Closed, journalVars, connVars, releaseVars, modelVars
<1>1. CASE Record
  BY <1>1 DEF Record
<1>2. CASE Rotate
  BY <1>2 DEF Rotate
<1>3. CASE Connect
  BY <1>3 DEF Connect, NoGap
<1>4. CASE Disconnect
  BY <1>4 DEF Disconnect
<1>5. CASE Pause
  BY <1>5 DEF Pause
<1>6. CASE Resume
  BY <1>6 DEF Resume
<1>7. CASE AcceptModel
  BY <1>7 DEF AcceptModel, Save
<1> QED
  BY <1>1, <1>2, <1>3, <1>4, <1>5, <1>6, <1>7

\* A change frame leaves the queue covering the stream up to the new cursor.
LEMMA ReadChangeQueues ==
    ASSUME TypeOK, ReadChange
    PROVE  /\ cursor' = cursor + 1 /\ cursor' \in Nat /\ cursor' <= head
           /\ cursor' > appliedSeq => Range(queue') = Range(queue) \cup {cursor'}
<1>1. cursor' = cursor + 1 /\ cursor' \in Nat /\ cursor' <= head /\ cursor + 1 \in Seqs
  <2>1. cursor' = cursor + 1 /\ cursor < head
    BY DEF ReadChange
  <2>2. cursor \in Nat /\ head \in 0..MaxSeq
    BY DEF TypeOK
  <2> QED
    BY <2>1, <2>2, StreamAssumption DEF Seqs
<1>2. ASSUME cursor' > appliedSeq PROVE Range(queue') = Range(queue) \cup {cursor'}
  <2>1. queue \in Seq(Seqs) /\ appliedSeq \in Nat
    BY Numbers DEF TypeOK
  <2>2. ~(cursor + 1 <= appliedSeq)
    BY <1>1, <1>2, <2>1
  <2>3. queue' = Append(queue, cursor + 1)
    BY <2>2 DEF ReadChange
  <2> QED
    BY <1>1, <2>1, <2>3, RangeOfAppend
<1> QED
  BY <1>1, <1>2

\* Reading a frame keeps the invariant.
LEMMA ReadInv ==
    ASSUME TypeOK, SInv, ReadTruncated \/ ReadChange
    PROVE  SInv'
<1> USE Numbers DEF SInv, NeverSkip, ModelCoversItsSeq, QueueClosed, BatchClosed,
      CursorClosed, GapClosed, WithinJournal, KeptInModel, StoppedOrTold, BatchState, Accounted,
      InHand, Closed, journalVars, connVars, releaseVars, modelVars
<1>1. CASE ReadTruncated
  BY <1>1 DEF ReadTruncated
<1>2. CASE ReadChange
  <2>1. cursor' = cursor + 1 /\ cursor' \in Nat /\ cursor' <= head
    BY <1>2, ReadChangeQueues
  <2>2. 1..cursor' = (1..cursor) \cup {cursor'}
    BY <2>1
  <2>3. CASE cursor + 1 <= appliedSeq
    BY <1>2, <2>1, <2>2, <2>3 DEF ReadChange
  <2>4. CASE ~(cursor + 1 <= appliedSeq)
    <3>0. cursor' > appliedSeq
      BY <2>1, <2>4
    <3>1. Range(queue') = Range(queue) \cup {cursor'}
      BY <1>2, <3>0, ReadChangeQueues
    <3>2. ~needsResync \/ paused
      BY <1>2 DEF ReadChange
    <3>3. UNCHANGED <<head, oldest, connected, gapSince, batch, draining, ignoring, paused,
                      appliedSeq, needsResync, modelSeq, savedSeq, applied, kept, declared>>
      BY <1>2 DEF ReadChange
    <3>4. QueueClosed' /\ BatchClosed' /\ CursorClosed'
      BY <1>2, <2>1, <2>2, <3>1, <3>3 DEF ReadChange
    <3>5. WithinJournal'
      BY <2>1, <3>1, <3>3
    <3>6. NeverSkip' /\ ModelCoversItsSeq' /\ GapClosed' /\ KeptInModel' /\ BatchState' /\ StoppedOrTold'
      BY <3>2, <3>3
    <3> QED
      BY <3>4, <3>5, <3>6
  <2> QED
    BY <2>3, <2>4
<1> QED
  BY <1>1, <1>2

\* Handing the queue to the consumer keeps the invariant.
LEMMA QuietOverInv ==
    ASSUME TypeOK, SInv, QuietOver
    PROVE  SInv'
<1> USE Numbers DEF SInv, NeverSkip, ModelCoversItsSeq, QueueClosed, BatchClosed,
      CursorClosed, GapClosed, WithinJournal, KeptInModel, StoppedOrTold, BatchState, Accounted,
      InHand, Closed, journalVars, connVars, releaseVars, modelVars
<1>1. CASE MayDrain
  <2>1. batch = <<>> /\ Range(batch) = {} /\ ~needsResync
    BY <1>1, RangeOfNone DEF MayDrain
  <2>2. batch' = queue /\ queue' = <<>> /\ Range(queue') = {} /\ draining' /\ ignoring' = FALSE
    BY <1>1, <2>1, RangeOfNone DEF QuietOver
  <2> QED
    BY <1>1, <2>1, <2>2 DEF QuietOver
<1>2. CASE ~MayDrain
  BY <1>2 DEF QuietOver
<1> QED
  BY <1>1, <1>2

\* The end of a batch, by what became of its events and of the queue.
LEMMA BatchEnds ==
    ASSUME TypeOK, SInv, draining,
           BatchApplied \/ BatchStopsLoop
    PROVE  SInv'
<1> DEFINE B == Range(batch)
           Q == Range(queue)
<1>1. /\ appliedSeq' \in {appliedSeq} \cup B /\ \A k \in {appliedSeq} \cup B : k <= appliedSeq'
      /\ modelSeq' \in {modelSeq} \cup B /\ \A k \in {modelSeq} \cup B : k <= modelSeq'
  BY TopIn DEF BatchApplied, BatchStopsLoop
<1>2. /\ Range(queue') = Q
      /\ Range(batch') = {}
      /\ batch' = <<>> /\ ~draining' /\ ignoring' = FALSE
      /\ UNCHANGED <<head, oldest, connected, cursor, gapSince>>
  BY RangeOfNone DEF BatchApplied, BatchStopsLoop, EndDrain, journalVars, connVars
<1>3. /\ Accounted' = Accounted \cup B
      /\ (applied \subseteq applied' /\ declared \subseteq declared')
  BY DEF BatchApplied, BatchStopsLoop, Accounted
<1>4. \/ savedSeq' = savedSeq /\ kept' = kept
      \/ savedSeq' = modelSeq' /\ kept' = applied'
  BY DEF BatchApplied, BatchStopsLoop, Save
<1>5. StoppedOrTold'
  <2>1. paused' = TRUE \/ (paused' = paused /\ needsResync' = needsResync)
    BY DEF BatchApplied, BatchStopsLoop
  <2>2. needsResync => paused
    BY DEF SInv, StoppedOrTold
  <2>3. CASE paused' = TRUE
    BY <2>3 DEF StoppedOrTold
  <2>4. CASE paused' = paused /\ needsResync' = needsResync
    BY <2>2, <2>4 DEF StoppedOrTold
  <2> QED
    BY <2>1, <2>3, <2>4
<1>6. /\ 1..appliedSeq \subseteq Accounted /\ 1..modelSeq \subseteq Accounted
      /\ \A s \in B : 1..s \subseteq Accounted \cup B
      /\ \A s \in Q : 1..s \subseteq (Accounted \cup B) \cup Q
      /\ connected /\ gapSince = NoGap => 1..cursor \subseteq (Accounted \cup B) \cup Q
      /\ gapSince # NoGap => connected /\ 1..gapSince \subseteq Accounted
      /\ 1..savedSeq \subseteq kept \cup declared /\ kept \subseteq applied
  BY DEF SInv, NeverSkip, ModelCoversItsSeq, QueueClosed, BatchClosed, CursorClosed, GapClosed,
     KeptInModel, Closed, InHand
<1>7. 1..appliedSeq' \subseteq Accounted' /\ 1..modelSeq' \subseteq Accounted'
  BY <1>1, <1>3, <1>6
<1>8. InHand' = Q
  BY <1>2 DEF InHand
<1> HIDE DEF B, Q
<1>9. QueueClosed' /\ BatchClosed' /\ CursorClosed' /\ GapClosed'
  BY <1>2, <1>3, <1>6, <1>8 DEF QueueClosed, BatchClosed, CursorClosed, GapClosed, Closed, Q
<1>10. NeverSkip' /\ KeptInModel'
  BY <1>3, <1>4, <1>6, <1>7 DEF NeverSkip, KeptInModel, Accounted
<1>11. WithinJournal'
  <2>1. /\ oldest <= head + 1 /\ (connected => cursor <= head)
        /\ appliedSeq <= head /\ savedSeq <= modelSeq /\ modelSeq <= head
        /\ (Accounted \cup B) \cup Q \subseteq 1..head
    BY DEF SInv, WithinJournal, InHand, B, Q
  <2>2. appliedSeq' <= head /\ modelSeq' <= head /\ savedSeq' <= modelSeq'
    BY <1>1, <1>4, <2>1, Numbers
  <2> QED
    BY <1>2, <1>3, <1>8, <2>1, <2>2 DEF WithinJournal
<1> QED
  BY <1>2, <1>5, <1>7, <1>9, <1>10, <1>11 DEF SInv, ModelCoversItsSeq, BatchState

\* A failed batch keeps the invariant: its events are back in the queue.
LEMMA BatchFailsInv ==
    ASSUME TypeOK, SInv, BatchFails
    PROVE  SInv'
<1>1. /\ Range(queue') = Range(batch) \cup Range(queue)
      /\ batch' = <<>> /\ Range(batch') = {}
      /\ ~draining' /\ ignoring' = FALSE
      /\ UNCHANGED <<head, oldest, connected, cursor, gapSince, paused, appliedSeq, needsResync,
                     modelSeq, savedSeq, applied, kept, declared>>
  BY RangeOfConcat, RangeOfNone
     DEF BatchFails, EndDrain, TypeOK, journalVars, connVars, modelVars
<1>2. InHand' = InHand /\ Accounted' = Accounted
  BY <1>1 DEF InHand, Accounted
<1>3. QueueClosed' /\ BatchClosed'
  BY <1>1, <1>2 DEF SInv, QueueClosed, BatchClosed, Closed, InHand
<1>4. StoppedOrTold'
  BY <1>1 DEF BatchFails, SInv, StoppedOrTold
<1>5. WithinJournal' /\ CursorClosed' /\ GapClosed'
  BY <1>1, <1>2 DEF SInv, WithinJournal, CursorClosed, GapClosed
<1> QED
  BY <1>1, <1>2, <1>3, <1>4, <1>5 DEF SInv, NeverSkip, ModelCoversItsSeq, KeptInModel, BatchState

\* A proposal commit keeps the invariant.
LEMMA MarkAppliedInv ==
    ASSUME TypeOK, SInv, NEW n \in Seqs, MarkApplied(n)
    PROVE  SInv'
<1> USE Numbers
<1>1. n \in Nat /\ modelSeq < n /\ n <= head
  BY DEF MarkApplied, Seqs, TypeOK
<1>2. /\ appliedSeq' \in {appliedSeq, n} /\ appliedSeq' >= appliedSeq
      /\ modelSeq' = n /\ savedSeq' = n
      /\ applied' = applied \cup ((modelSeq + 1)..n) /\ kept' = applied'
      /\ UNCHANGED <<head, oldest, connected, cursor, gapSince, queue, batch, draining, ignoring,
                     paused, needsResync, declared>>
  BY <1>1, TopIn DEF MarkApplied, Save, journalVars, connVars, releaseVars
<1>3. 1..n \subseteq Accounted' /\ Accounted \subseteq Accounted' /\ InHand' = InHand
      /\ Accounted' \subseteq Accounted \cup (1..head)
  BY <1>1, <1>2 DEF SInv, ModelCoversItsSeq, Accounted, InHand
<1>4. NeverSkip' /\ ModelCoversItsSeq' /\ KeptInModel'
  BY <1>2, <1>3 DEF SInv, NeverSkip, ModelCoversItsSeq, KeptInModel, Accounted
<1>5. QueueClosed' /\ BatchClosed' /\ CursorClosed' /\ GapClosed'
  BY <1>2, <1>3 DEF SInv, QueueClosed, BatchClosed, CursorClosed, GapClosed, Closed
<1>6. WithinJournal'
  BY <1>1, <1>2, <1>3 DEF SInv, WithinJournal
<1>7. StoppedOrTold' /\ BatchState'
  BY <1>2 DEF MarkApplied, SInv, StoppedOrTold, BatchState
<1> QED
  BY <1>4, <1>5, <1>6, <1>7 DEF SInv

\* A restart that can read the journal keeps the invariant.
LEMMA RestartInv ==
    ASSUME TypeOK, SInv, ~CheckMayFail, Restart
    PROVE  SInv'
<1> USE Numbers
<1>1. /\ connected' = FALSE /\ gapSince' = NoGap /\ queue' = <<>> /\ batch' = <<>>
      /\ Range(queue') = {} /\ Range(batch') = {}
      /\ draining' = FALSE /\ ignoring' = FALSE /\ paused' = FALSE
      /\ appliedSeq' = savedSeq /\ modelSeq' = savedSeq /\ applied' = kept
      /\ UNCHANGED <<head, oldest, cursor, savedSeq, kept>>
  BY RangeOfNone DEF Restart, journalVars
<1>2. /\ savedSeq <= head /\ oldest <= head + 1 /\ kept \cup declared \subseteq 1..head
      /\ 1..savedSeq \subseteq kept \cup declared
  BY DEF SInv, WithinJournal, KeptInModel, NeverSkip, Accounted
<1>3. /\ declared \subseteq declared' /\ declared' \subseteq 1..head
      /\ needsResync' => savedSeq + 1 < oldest
  BY <1>2 DEF Restart, Resumable
<1>4. Accounted' = kept \cup declared' /\ InHand' = {}
  BY <1>1 DEF Accounted, InHand
<1>5. NeverSkip' /\ ModelCoversItsSeq' /\ KeptInModel'
  BY <1>1, <1>2, <1>3, <1>4 DEF NeverSkip, ModelCoversItsSeq, KeptInModel
<1>6. QueueClosed' /\ BatchClosed' /\ CursorClosed' /\ GapClosed'
  BY <1>1 DEF QueueClosed, BatchClosed, CursorClosed, GapClosed, Closed
<1>7. WithinJournal'
  <2>1. savedSeq <= savedSeq /\ oldest' <= head' + 1 /\ appliedSeq' <= head' /\ modelSeq' <= head'
    BY <1>1, <1>2
  <2>2. (Accounted \cup InHand)' \subseteq 1..head'
    BY <1>1, <1>2, <1>3, <1>4
  <2> QED
    BY <1>1, <2>1, <2>2 DEF WithinJournal
<1>8. StoppedOrTold' /\ BatchState'
  BY <1>1, <1>3 DEF StoppedOrTold, BatchState
<1> QED
  BY <1>5, <1>6, <1>7, <1>8 DEF SInv

\* Every step keeps the invariant.
LEMMA NextInv == ~CheckMayFail /\ TypeOK /\ SInv /\ [Next]_vars => SInv'
<1> SUFFICES ASSUME ~CheckMayFail, TypeOK, SInv, [Next]_vars PROVE SInv'
  OBVIOUS
<1>1. CASE BatchApplied \/ BatchStopsLoop
  BY <1>1, BatchEnds DEF BatchApplied, BatchStopsLoop
<1>2. CASE BatchIgnored
  BY <1>2 DEF BatchIgnored, SInv, BatchState
<1>3. CASE UNCHANGED vars
  BY <1>3 DEF vars, journalVars, connVars, releaseVars, modelVars, SInv, NeverSkip,
     ModelCoversItsSeq, QueueClosed, BatchClosed, CursorClosed, GapClosed, WithinJournal,
     KeptInModel, StoppedOrTold, BatchState, Accounted, InHand, Closed
<1>4. ASSUME NEW n \in Seqs, MarkApplied(n) PROVE SInv'
  BY <1>4, MarkAppliedInv
<1> QED
  BY <1>1, <1>2, <1>3, <1>4, QuietStepsInv, ReadInv, QuietOverInv, BatchFailsInv, RestartInv
     DEF Next

\* The resume point, the committed position and the saved position never pass a change
\* that is neither in the model nor declared missing, when starts can read the journal.
THEOREM SpecNeverSkip ==
    ASSUME ~CheckMayFail
    PROVE  Spec => [](NeverSkip /\ ModelCoversItsSeq)
<1>1. Init => TypeOK /\ SInv
  BY InitType, InitInv
<1>2. TypeOK /\ SInv /\ [Next]_vars => (TypeOK /\ SInv)'
  BY NextType, NextInv
<1>3. SInv => NeverSkip /\ ModelCoversItsSeq
  BY DEF SInv
<1> QED
  BY <1>1, <1>2, <1>3, PTL DEF Spec

-----------------------------------------------------------------------------
(* ChangeStream implements JournalConsumer.                                  *)

\* What no step but a restart or a new change does to the positions and their contents.
Advances ==
    /\ head' = head
    /\ applied \subseteq applied' /\ declared \subseteq declared'
    /\ appliedSeq' >= appliedSeq
    /\ \/ savedSeq' = savedSeq /\ kept' = kept
       \/ savedSeq' = modelSeq' /\ kept' = applied' /\ modelSeq' >= modelSeq

\* No step but a restart moves a position or an account back.
LEMMA StepsAdvance ==
    ASSUME TypeOK, [Next]_vars, ~Record, ~Restart
    PROVE  Advances
<1> USE Numbers DEF Advances, journalVars, connVars, releaseVars, modelVars
<1>1. CASE Rotate \/ Connect \/ Disconnect \/ Pause \/ Resume \/ ReadChange \/ ReadTruncated
  BY <1>1 DEF Rotate, Connect, Disconnect, Pause, Resume, ReadChange, ReadTruncated
<1>2. CASE QuietOver \/ BatchIgnored \/ BatchFails
  <2>1. appliedSeq' >= appliedSeq
    BY <1>2, TopIn DEF QuietOver, BatchIgnored, BatchFails
  <2> QED
    BY <1>2, <2>1 DEF QuietOver, BatchIgnored, BatchFails
<1>3. CASE BatchApplied \/ BatchStopsLoop
  <2>1. appliedSeq' >= appliedSeq /\ modelSeq' >= modelSeq
    BY <1>3, TopIn DEF BatchApplied, BatchStopsLoop
  <2> QED
    BY <1>3, <2>1 DEF BatchApplied, BatchStopsLoop, Save
<1>4. CASE AcceptModel
  BY <1>4 DEF AcceptModel, Save
<1>5. ASSUME NEW n \in Seqs, MarkApplied(n) PROVE Advances
  <2>1. n \in Nat
    BY DEF Seqs
  <2>2. appliedSeq' >= appliedSeq
    BY <1>5, TopIn DEF MarkApplied
  <2>3. /\ savedSeq' = modelSeq' /\ kept' = applied' /\ modelSeq' >= modelSeq
        /\ applied \subseteq applied' /\ declared' = declared /\ head' = head
    BY <1>5, <2>1 DEF MarkApplied, Save
  <2> QED
    BY <2>2, <2>3
<1>6. CASE UNCHANGED vars
  BY <1>6 DEF vars
<1> QED
  BY <1>1, <1>2, <1>3, <1>4, <1>5, <1>6 DEF Next

\* Every step is a step of JournalConsumer or changes nothing it sees.
LEMMA StepRefines ==
    ASSUME TypeOK, SInv, TypeOK', SInv', [Next]_vars
    PROVE  [Consumer!Next]_(Consumer!vars)
<1>1. /\ 1..appliedSeq' \subseteq applied' \cup declared'
      /\ 1..savedSeq' \subseteq kept' \cup declared'
      /\ kept' \subseteq applied' /\ kept \subseteq applied
      /\ applied' \cup declared' \subseteq 1..head'
      /\ savedSeq \in Nat /\ modelSeq \in Nat /\ savedSeq <= modelSeq
  BY Numbers DEF SInv, NeverSkip, KeptInModel, WithinJournal, Accounted
<1>2. CASE Record
  BY <1>2 DEF Record, Consumer!Next, Consumer!Record, modelVars, Accounted
<1>3. CASE Restart
  <2>1. /\ appliedSeq' = savedSeq /\ savedSeq' = savedSeq /\ applied' = kept /\ kept' = kept
        /\ head' = head
    BY <1>3 DEF Restart, journalVars
  <2>2. declared \subseteq declared'
    BY <1>3 DEF Restart
  <2> QED
    BY <1>1, <2>1, <2>2 DEF Consumer!Next, Consumer!Restart, Accounted
<1>4. CASE ~Record /\ ~Restart
  <2>1. Advances
    BY <1>4, StepsAdvance
  <2>2. savedSeq' = savedSeq \/ savedSeq' >= savedSeq
    BY <1>1, <2>1, Numbers DEF Advances, TypeOK
  <2>3. kept \subseteq kept'
    BY <1>1, <2>1 DEF Advances
  <2> QED
    BY <1>1, <2>1, <2>2, <2>3 DEF Advances, Consumer!Next, Consumer!Consume, Accounted
<1> QED
  BY <1>2, <1>3, <1>4

\* Following the journal over SSE, with every fault modelled, keeps the promise of
\* JournalConsumer, when starts can read the journal.
THEOREM SpecConsumesTheJournal ==
    ASSUME ~CheckMayFail
    PROVE  Spec => ConsumesTheJournal
<1>1. Init => Consumer!Init
  BY DEF Init, Consumer!Init, Accounted
<1>2. Init => TypeOK /\ SInv
  BY InitType, InitInv
<1>3. TypeOK /\ SInv /\ [Next]_vars => (TypeOK /\ SInv)'
  BY NextType, NextInv
<1>4. TypeOK /\ SInv /\ (TypeOK /\ SInv)' /\ [Next]_vars => [Consumer!Next]_(Consumer!vars)
  BY StepRefines
<1> QED
  BY <1>1, <1>2, <1>3, <1>4, PTL DEF Spec, ConsumesTheJournal, Consumer!Spec

\* Released events never wait without a timer or a batch whose end will set one, whatever
\* the resume check does.
THEOREM SpecNoLostWakeup == Spec => []NoLostWakeup
<1>1. Init => NoLostWakeup
  BY DEF Init, NoLostWakeup
<1>2. NoLostWakeup /\ [Next]_vars => NoLostWakeup'
  <2> SUFFICES ASSUME NoLostWakeup, [Next]_vars PROVE NoLostWakeup'
    OBVIOUS
  <2> USE DEF NoLostWakeup, journalVars, connVars, releaseVars, modelVars
  <2>1. CASE Record \/ Rotate \/ Connect \/ Disconnect \/ ReadTruncated \/ ReadChange
    BY <2>1 DEF Record, Rotate, Connect, Disconnect, ReadTruncated, ReadChange
  <2>2. CASE QuietOver
    BY <2>2 DEF QuietOver, MayDrain
  <2>3. CASE BatchApplied \/ BatchIgnored \/ BatchStopsLoop \/ BatchFails
    <3>1. ASSUME NEW rest, EndDrain(rest) PROVE queue' # <<>> => timer'
      BY <3>1 DEF EndDrain
    <3>2. EndDrain(queue) \/ EndDrain(batch \o queue)
      BY <2>3 DEF BatchApplied, BatchIgnored, BatchStopsLoop, BatchFails
    <3> QED
      BY <3>1, <3>2
  <2>4. CASE Pause \/ Resume \/ AcceptModel \/ Restart
    BY <2>4 DEF Pause, Resume, AcceptModel, Restart
  <2>5. ASSUME NEW n \in Seqs, MarkApplied(n) PROVE NoLostWakeup'
    BY <2>5 DEF MarkApplied
  <2>6. CASE UNCHANGED vars
    BY <2>6 DEF vars
  <2> QED
    BY <2>1, <2>2, <2>3, <2>4, <2>5, <2>6 DEF Next
<1> QED
  BY <1>1, <1>2, PTL DEF Spec
=============================================================================
