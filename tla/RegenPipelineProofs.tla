-------------------------- MODULE RegenPipelineProofs --------------------------
(***************************************************************************)
(* For any number of units, changes, generator builds and faults, and      *)
(* whatever is undone: what is saved, generated and committed holds the    *)
(* contents it claims to hold.                                             *)
(*                                                                         *)
(* Two arguments meet.  A unit whose text is sure, of a generation that    *)
(* was recorded, has the text its hash was taken of.  A unit no edit took  *)
(* back has its contents in one order along the pipeline, from the         *)
(* committed tree over the staging tree, the snapshot and the model to     *)
(* Ghidra, whether a generation broke off or not.  Only a unit that is     *)
(* neither can keep a text the model would change.  The builds of the      *)
(* texts are kept apart: they do not depend on the contents.               *)
(***************************************************************************)
EXTENDS RegenPipeline, TLAPS

\* The task is past the selection.
Rebuilding == {"selected", "generating", "generated", "committed"}

SeqsInOrder ==
    /\ state.seq <= Len(journal) /\ modelSeq <= Len(journal) /\ batchEnd <= Len(journal)
    /\ label <= Len(journal) /\ place <= Len(journal)
    /\ position <= modelSeq
    /\ phase # "down" => state.seq <= modelSeq
    /\ phase \in Rebuilding => batchEnd <= modelSeq

\* The last change recorded of u is s.
LastOf(s, u) == /\ journal[s].unit = u /\ journal[s].content = ghidra[u]
                /\ \A t \in (s + 1)..Len(journal) : journal[t].unit # u

\* Ghidra holds what was recorded last.
JournalIsHistory == \A u \in Units :
    \/ /\ ghidra[u] = 0 /\ u \notin undone
       /\ \A s \in 1..Len(journal) : journal[s].unit # u
    \/ \E s \in 1..Len(journal) : LastOf(s, u)

-----------------------------------------------------------------------------
(* What the phases leave behind.                                             *)

WrittenIsAll == phase \in {"generated", "committed"} => toEmit = {}

PhaseInv ==
    /\ WrittenIsAll
    /\ phase = "committed" => committed = staging
    /\ phase \in {"generating", "generated", "committed"} => snapshot = model
    /\ phase = "down" => fresh = {}

-----------------------------------------------------------------------------
(* The texts that are sure.                                                  *)

Sure == Units \ (left \ fresh)

\* The hash of a unit whose text is sure was taken of that text.
HashesAreOfTexts == \A u \in Sure :
    hashes[u] \in {None, staging[u].content} \/ (phase = "generating" /\ u \in fresh)

SavedHashesAreOfTexts == \A u \in Units \ (left \cup fresh) :
    state.hashes[u] \in {None, staging[u].content}

\* Such a text that is not to be written again is what the model would give.
SureTextIsCurrent ==
    phase \in Rebuilding => \A u \in Sure \ toEmit : staging[u].content = model[u]

SureInv == HashesAreOfTexts /\ SavedHashesAreOfTexts /\ SureTextIsCurrent

-----------------------------------------------------------------------------
(* The builds of the texts, while the generator was not taken back.          *)

BuildsKnown ==
    /\ buildId <= gen /\ childGen <= gen /\ state.build <= gen
    /\ \A u \in Units : staging[u].gen <= gen /\ committed[u].gen <= gen
    /\ phase # "down" => state.build <= buildId
    /\ phase = "generating" => buildId <= childGen

\* A unit with a hash to compare against has a text of the build the hash is recorded under,
\* or of a later one.
HashesAreOfBuild == \A u \in Units :
    /\ hashes[u] # None => buildId <= staging[u].gen
    /\ state.hashes[u] # None => state.build <= staging[u].gen

\* So has a unit that is not to be written.
KeptTextIsOfBuild ==
    phase \in Rebuilding => \A u \in Units \ toEmit : buildId <= staging[u].gen

CommittedIsOfBuild == \A u \in Units : state.build <= committed[u].gen

BuildInv == BuildsKnown /\ HashesAreOfBuild /\ KeptTextIsOfBuild /\ CommittedIsOfBuild

-----------------------------------------------------------------------------
(* The contents of the units never taken back, while no snapshot was lost.   *)

Ordered(u) ==
    /\ hashes[u] <= staging[u].content
    /\ state.hashes[u] <= staging[u].content
    /\ committed[u].content <= staging[u].content
    /\ staging[u].content <= snapshot[u]
    /\ snapshot[u] <= ghidra[u] /\ model[u] <= ghidra[u]
    /\ phase # "down" => snapshot[u] <= model[u]

ContentsInOrder == \A u \in Units \ undone : Ordered(u)

SnapshotIsThere == \A u \in Units : snapshot[u] # None

\* Whether it is sure or not, such a text is what the model would give.
KeptTextIsCurrent ==
    phase \in Rebuilding => \A u \in Units \ (toEmit \cup undone) : staging[u].content = model[u]

OrderInv == ContentsInOrder /\ SnapshotIsThere /\ KeptTextIsCurrent

-----------------------------------------------------------------------------
(* What the positions stand for, while none was taken from a label.          *)

ModelCoversItsSeq == phase # "down" => \A s \in 1..modelSeq : Folded(s, model)

BatchIsReadOrDue ==
    phase = "applying" =>
        \A s \in (modelSeq + 1)..batchEnd : journal[s].unit \in toRead \/ Folded(s, model)

SnapshotCoversSaved == \A s \in 1..state.seq : Folded(s, snapshot)

CommittedContent == [u \in Units |-> committed[u].content]

CommittedCoversSaved ==
    state # FreshState =>
        /\ \A u \in Units \ undone : committed[u].content # None
        /\ \A s \in 1..state.seq : journal[s].unit \in Stranded \/ Folded(s, CommittedContent)

CoverInv == ModelCoversItsSeq /\ BatchIsReadOrDue /\ SnapshotCoversSaved
            /\ CommittedCoversSaved

IInv ==
    /\ SeqsInOrder /\ JournalIsHistory /\ PhaseInv /\ SureInv
    /\ "generator" \notin undone => BuildInv
    /\ ~Lost => OrderInv
    /\ ~Lost /\ ~Misplaced => CoverInv

-----------------------------------------------------------------------------
(* Types.                                                                    *)

\* What a change adds to the journal, and what it leaves.
LEMMA Recorded ==
    ASSUME NEW S, NEW j \in Seq(S), NEW x \in S
    PROVE  /\ Append(j, x) \in Seq(S)
           /\ Len(Append(j, x)) = Len(j) + 1
           /\ \A s \in 1..Len(j) : Append(j, x)[s] = j[s]
           /\ Append(j, x)[Len(j) + 1] = x
OBVIOUS

\* The values a fresh daemon starts from are of their types.
LEMMA SeedTypes ==
    /\ 0 \in Contents /\ 0 \in Builds /\ 0 \in 0..MaxSeq /\ 0 \in 0..MaxFaults
    /\ Seed \in Models /\ NoText \in Texts /\ FreshState \in States
BY PipelineAssumption DEF Contents, Builds, Models, Seed, NoText, Texts, FreshState, States,
   NoHashes, None

\* What the journal holds is changes.
LEMMA Entry ==
    ASSUME TypeOK, NEW s \in 1..Len(journal)
    PROVE  journal[s].unit \in Units /\ journal[s].content \in Nat
<1>1. journal \in Seq(Change)
  BY DEF TypeOK
<1>2. journal[s] \in Change
  BY <1>1
<1> QED
  BY <1>2, PipelineAssumption DEF Change, Contents

\* A new pipeline is well typed.
LEMMA InitType == Init => TypeOK
<1> SUFFICES ASSUME Init PROVE TypeOK
  OBVIOUS
<1>1. journal \in Seq(Change) /\ Len(journal) <= MaxSeq
  BY SeedTypes DEF Init
<1>2. staging \in [Units -> Texts] /\ committed \in [Units -> Texts]
  BY SeedTypes DEF Init
<1>3. watchLast \in (Builds \cup {None}) \X (Builds \cup {None})
  BY DEF Init
<1> QED
  BY <1>1, <1>2, <1>3, SeedTypes DEF Init, TypeOK, Phases, Tasks, Missing

\* Every step keeps the state well typed.
LEMMA NextType == TypeOK /\ [Next]_vars => TypeOK'
<1> SUFFICES ASSUME TypeOK, [Next]_vars PROVE TypeOK'
  OBVIOUS
<1> USE PipelineAssumption, SeedTypes
    DEF TypeOK, Phases, Tasks, envVars, modelVars, workVars, builtVars, snapVars, diskVars, textVars
<1>1. ASSUME Fault PROVE faults' \in 0..MaxFaults
  BY <1>1 DEF Fault
<1>2. ASSUME Advance PROVE position' \in 0..MaxSeq
  BY <1>2 DEF Advance, Larger
<1>3. ASSUME NEW kind \in Tasks, NEW end \in 0..MaxSeq, NEW units \in SUBSET Units,
             Take(kind, end, units),
             watchLast' \in (Builds \cup {None}) \X (Builds \cup {None})
      PROVE  TypeOK'
  BY <1>3 DEF Take, Larger
<1>4. ASSUME NEW u \in Units, NEW c \in Contents, Edit(u, c) PROVE TypeOK'
  <2>1. ghidra' \in Models
    BY <1>4 DEF Edit, Models
  <2>2. [unit |-> u, content |-> c] \in Change
    BY DEF Change
  <2>3. journal' \in Seq(Change) /\ Len(journal') <= MaxSeq
    BY <1>4, <2>2, Recorded DEF Edit
  <2>4. undone' \subseteq Units \cup {"generator"}
    BY <1>4 DEF Edit
  <2> QED
    BY <1>4, <2>1, <2>3, <2>4 DEF Edit
<1>5. ASSUME NEW g \in Builds, InstallGenerator(g) PROVE TypeOK'
  <2>1. undone' \subseteq Units \cup {"generator"}
    BY <1>5 DEF InstallGenerator
  <2> QED
    BY <1>5, <2>1 DEF InstallGenerator
<1>6. ASSUME NEW n \in 1..MaxSeq, TakeBatch(n) PROVE TypeOK'
  <2>1. ASSUME NEW s \in (position + 1)..n PROVE journal[s].unit \in Units
    <3>1. s \in 1..Len(journal)
      BY <1>6 DEF TakeBatch
    <3> QED
      BY <3>1, Entry
  <2>2. {journal[s].unit : s \in (position + 1)..n} \in SUBSET Units
    BY <2>1
  <2> QED
    BY <1>3, <1>6, <2>2 DEF TakeBatch
<1>7. CASE TakeStale
  BY <1>3, <1>7 DEF TakeStale
<1>8. CASE TakeWatch
  BY <1>3, <1>8 DEF TakeWatch
<1>9. CASE TakeRebuild
  BY <1>3, <1>9 DEF TakeRebuild
<1>10. ASSUME NEW u \in Units, Reread(u) PROVE TypeOK'
  <2>1. model' \in Models
    BY <1>10 DEF Reread, Models
  <2> QED
    BY <1>1, <1>10, <2>1 DEF Reread
<1>11. CASE ApplyThrows
  BY <1>1, <1>11 DEF ApplyThrows, EndTask
<1>12. CASE GuardAndSelect
  <2>1. hashes' \in Models \cup {NoHashes}
    BY <1>12 DEF GuardAndSelect, Trusted
  <2>2. modelSeq' \in 0..MaxSeq
    BY <1>12 DEF GuardAndSelect, Larger
  <2>3. toEmit' \subseteq Units
    BY <1>12 DEF GuardAndSelect, Dirty
  <2> QED
    BY <1>12, <2>1, <2>2, <2>3 DEF GuardAndSelect
<1>13. CASE SaveAndSpawn
  BY <1>13 DEF SaveAndSpawn
<1>14. ASSUME NEW u \in Units, Emit(u) PROVE TypeOK'
  <2>1. snapshot[u] \in Contents \cup {None}
    BY DEF Models, Missing, NoHashes
  <2>2. [content |-> snapshot[u], gen |-> childGen] \in Texts
    BY <2>1 DEF Texts
  <2>3. staging' \in [Units -> Texts]
    BY <1>14, <2>2 DEF Emit
  <2> QED
    BY <1>14, <2>3 DEF Emit
<1>15. CASE Generated
  BY <1>15 DEF Generated
<1>16. CASE GenerationFails
  BY <1>1, <1>2, <1>16 DEF GenerationFails, EndTask, BreaksOff
<1>17. CASE Commit
  BY <1>17 DEF Commit
<1>18. CASE CommitThrows
  BY <1>1, <1>18 DEF CommitThrows, EndTask
<1>19. CASE SaveState
  <2>1. state' \in States
    BY <1>19 DEF SaveState, States, Models, NoHashes
  <2> QED
    BY <1>2, <1>19, <2>1 DEF SaveState, EndTask
<1>20. ASSUME Down, snapshot' \in Models \cup {Missing}, place' \in 0..MaxSeq, state' \in States,
              missed' \subseteq Units \cup {"snapshot", "placed"}
       PROVE  TypeOK'
  BY <1>1, <1>20 DEF Down, BreaksOff
<1>21. CASE Crash
  BY <1>20, <1>21 DEF Crash
<1>22. CASE CrashSavingState
  BY <1>20, <1>22 DEF CrashSavingState
<1>23. CASE CrashSavingSnapshot
  BY <1>20, <1>23 DEF CrashSavingSnapshot
<1>24. CASE Start
  <2>1. snapshot' \in Models /\ model' \in Models
    BY <1>24 DEF Start, StartWith
  <2>2. hashes' \in Models \cup {NoHashes}
    BY <1>24 DEF Start, StartWith, Trusted, States
  <2>3. state.seq \in 0..MaxSeq /\ state.build \in Builds \cup {None}
    BY DEF States
  <2>4. Placed \in 0..MaxSeq
    BY <2>3 DEF Placed
  <2>5. missed' \subseteq Units \cup {"snapshot", "placed"}
    BY <1>24 DEF Start, StartWith
  <2> QED
    BY <1>24, <2>1, <2>2, <2>3, <2>4, <2>5 DEF Start, StartWith
<1>25. CASE UNCHANGED vars
  BY <1>25 DEF vars
<1> QED
  BY <1>4, <1>5, <1>6, <1>7, <1>8, <1>9, <1>10, <1>11, <1>12, <1>13, <1>14, <1>15, <1>16,
     <1>17, <1>18, <1>19, <1>21, <1>22, <1>23, <1>24, <1>25 DEF Next, Pipeline

\* Well typed, for every history of edits, builds and faults.
THEOREM SpecTypeOK == Spec => []TypeOK
BY InitType, NextType, PTL DEF Spec

-----------------------------------------------------------------------------
(* Positions and history.                                                    *)

\* What the steps need to know of the types.
LEMMA Numbers ==
    ASSUME TypeOK
    PROVE  /\ Len(journal) \in Nat /\ modelSeq \in Nat /\ position \in Nat /\ batchEnd \in Nat
           /\ label \in Nat /\ place \in Nat
           /\ gen \in Nat /\ buildId \in Int /\ childGen \in Int /\ -1 <= buildId
           /\ state.seq \in Nat /\ state.build \in Int
           /\ \A u \in Units : /\ hashes[u] \in Int /\ -1 <= hashes[u]
                               /\ state.hashes[u] \in Int /\ -1 <= state.hashes[u]
                               /\ snapshot[u] \in Int
                               /\ model[u] \in Nat /\ ghidra[u] \in Nat
                               /\ staging[u].content \in Int /\ staging[u].gen \in Int
                               /\ committed[u].content \in Int /\ committed[u].gen \in Int
                               /\ -1 <= staging[u].content /\ -1 <= staging[u].gen
<1> USE PipelineAssumption DEF Contents, Builds, None
<1>1. /\ Len(journal) \in Nat /\ modelSeq \in Nat /\ position \in Nat /\ batchEnd \in Nat
      /\ label \in Nat /\ place \in Nat
  BY DEF TypeOK
<1>2. gen \in Nat /\ buildId \in Int /\ childGen \in Int /\ -1 <= buildId
  BY DEF TypeOK
<1>3. state.seq \in Nat /\ state.build \in Int
  BY DEF TypeOK, States
<1>4. ASSUME NEW u \in Units
      PROVE  /\ hashes[u] \in Int /\ -1 <= hashes[u]
             /\ state.hashes[u] \in Int /\ -1 <= state.hashes[u]
  <2>1. hashes \in Models \cup {NoHashes} /\ state.hashes \in Models \cup {NoHashes}
    BY DEF TypeOK, States
  <2>2. ASSUME NEW h \in Models \cup {NoHashes} PROVE h[u] \in Int /\ -1 <= h[u]
    BY DEF Models, NoHashes
  <2> QED
    BY <2>1, <2>2
<1>5. ASSUME NEW u \in Units
      PROVE  snapshot[u] \in Int /\ model[u] \in Nat /\ ghidra[u] \in Nat
  BY DEF TypeOK, Models, Missing, NoHashes
<1>6. ASSUME NEW u \in Units
      PROVE  /\ staging[u].content \in Int /\ staging[u].gen \in Int
             /\ committed[u].content \in Int /\ committed[u].gen \in Int
             /\ -1 <= staging[u].content /\ -1 <= staging[u].gen
  <2>1. staging[u] \in Texts /\ committed[u] \in Texts
    BY DEF TypeOK
  <2> QED
    BY <2>1 DEF Texts
<1> QED
  BY <1>1, <1>2, <1>3, <1>4, <1>5, <1>6

\* The positions stay in order.
LEMMA NextSeqs == TypeOK /\ SeqsInOrder /\ [Next]_vars => SeqsInOrder'
<1> SUFFICES ASSUME TypeOK, SeqsInOrder, [Next]_vars PROVE SeqsInOrder'
  OBVIOUS
<1> USE Numbers DEF SeqsInOrder, Rebuilding, envVars, modelVars, workVars, builtVars, snapVars, diskVars
<1>1. ASSUME Advance, batchEnd <= modelSeq PROVE position' \in Nat /\ position' <= modelSeq
  BY <1>1 DEF Advance, Larger
<1>2. ASSUME NEW u \in Units, NEW c \in Contents, Edit(u, c) PROVE SeqsInOrder'
  <2>1. [unit |-> u, content |-> c] \in Change /\ journal \in Seq(Change)
    BY DEF Change, TypeOK
  <2>2. Len(journal') = Len(journal) + 1
    BY <1>2, <2>1, Recorded DEF Edit
  <2> QED
    BY <1>2, <2>2 DEF Edit
<1>3. CASE \E g \in Builds : InstallGenerator(g)
  BY <1>3 DEF InstallGenerator
<1>4. CASE \E n \in 1..MaxSeq : TakeBatch(n)
  BY <1>4 DEF TakeBatch, Take, Larger
<1>5. CASE TakeStale
  BY <1>5 DEF TakeStale, Take, Larger
<1>6. CASE TakeWatch
  BY <1>6 DEF TakeWatch, Take, Larger
<1>7. CASE TakeRebuild
  BY <1>7 DEF TakeRebuild, Take, Larger
<1>8. CASE \E u \in Units : Reread(u)
  BY <1>8 DEF Reread
<1>9. CASE ApplyThrows
  BY <1>9 DEF ApplyThrows, EndTask
<1>10. CASE GuardAndSelect
  BY <1>10 DEF GuardAndSelect, Larger
<1>11. CASE SaveAndSpawn
  BY <1>11 DEF SaveAndSpawn
<1>12. CASE \E u \in Units : Emit(u)
  BY <1>12 DEF Emit
<1>13. CASE Generated
  BY <1>13 DEF Generated
<1>14. CASE GenerationFails
  BY <1>1, <1>14 DEF GenerationFails, EndTask
<1>15. CASE Commit
  BY <1>15 DEF Commit
<1>16. CASE CommitThrows
  BY <1>16 DEF CommitThrows, EndTask
<1>17. CASE SaveState
  BY <1>1, <1>17 DEF SaveState, EndTask
<1>18. CASE Crash
  BY <1>18 DEF Crash, Down
<1>19. CASE CrashSavingState
  BY <1>19 DEF CrashSavingState, Down, FreshState
<1>20. CASE CrashSavingSnapshot
  BY <1>20 DEF CrashSavingSnapshot, Down
<1>21. CASE Start
  BY <1>21 DEF Start, StartWith, Placed, FreshState
<1>22. CASE UNCHANGED vars
  BY <1>22 DEF vars
<1> QED
  BY <1>2, <1>3, <1>4, <1>5, <1>6, <1>7, <1>8, <1>9, <1>10, <1>11, <1>12, <1>13, <1>14,
     <1>15, <1>16, <1>17, <1>18, <1>19, <1>20, <1>21, <1>22 DEF Next, Pipeline

\* Only an edit changes Ghidra or its journal.
LEMMA HistoryFrame ==
    ASSUME [Next]_vars
    PROVE  \/ UNCHANGED <<ghidra, journal>>
           \/ \E u \in Units, c \in Contents : Edit(u, c)
<1> USE DEF envVars
<1>1. CASE \E g \in Builds : InstallGenerator(g)
  BY <1>1 DEF InstallGenerator
<1>2. CASE (\E n \in 1..MaxSeq : TakeBatch(n)) \/ TakeStale \/ TakeWatch \/ TakeRebuild
  BY <1>2 DEF TakeBatch, TakeStale, TakeWatch, TakeRebuild, Take
<1>3. CASE Pipeline
  BY <1>3 DEF Pipeline, GuardAndSelect, SaveAndSpawn, Generated, Commit, SaveState, Reread, Emit
<1>4. CASE ApplyThrows \/ GenerationFails \/ CommitThrows
  BY <1>4 DEF ApplyThrows, GenerationFails, CommitThrows
<1>5. CASE Crash \/ CrashSavingState \/ CrashSavingSnapshot \/ Start
  BY <1>5 DEF Crash, CrashSavingState, CrashSavingSnapshot, Down, Start, StartWith
<1>6. CASE UNCHANGED vars
  BY <1>6 DEF vars
<1> QED
  BY <1>1, <1>2, <1>3, <1>4, <1>5, <1>6 DEF Next

\* An edit records what it wrote.
LEMMA EditRecords ==
    ASSUME TypeOK, NEW u \in Units, NEW c \in Contents, Edit(u, c)
    PROVE  /\ Len(journal') = Len(journal) + 1
           /\ \A s \in 1..Len(journal) : journal'[s] = journal[s]
           /\ journal'[Len(journal')].unit = u /\ journal'[Len(journal')].content = c
           /\ ghidra'[u] = c /\ \A v \in Units \ {u} : ghidra'[v] = ghidra[v]
           /\ undone \subseteq undone' /\ undone' \subseteq undone \cup {u}
<1>1. [unit |-> u, content |-> c] \in Change /\ journal \in Seq(Change)
  BY DEF Change, TypeOK
<1>2. /\ Len(journal') = Len(journal) + 1
      /\ \A s \in 1..Len(journal) : journal'[s] = journal[s]
      /\ journal'[Len(journal')] = [unit |-> u, content |-> c]
  BY <1>1, Recorded DEF Edit
<1>3. ghidra \in [Units -> Contents] /\ ghidra' = [ghidra EXCEPT ![u] = c]
  BY DEF TypeOK, Models, Edit
<1>4. undone \subseteq undone' /\ undone' \subseteq undone \cup {u}
  BY DEF Edit
<1> QED
  BY <1>2, <1>3, <1>4

\* An edit that takes no unit back raises its content.
LEMMA EditRaises ==
    ASSUME TypeOK, NEW u \in Units, NEW c \in Contents, Edit(u, c), NEW v \in Units \ undone'
    PROVE  ghidra'[v] \in Nat /\ ghidra[v] <= ghidra'[v]
<1>1. ghidra'[u] = c /\ \A w \in Units \ {u} : ghidra'[w] = ghidra[w]
  BY EditRecords
<1>2. c \in Nat /\ ghidra[v] \in Nat /\ ghidra[u] \in Nat
  BY Numbers, PipelineAssumption DEF Contents
<1>3. v = u => c = ghidra[u] + 1
  BY DEF Edit
<1> QED
  BY <1>1, <1>2, <1>3

\* What a step may add to the units taken back.
LEMMA UndoneGrows ==
    ASSUME [Next]_vars
    PROVE  /\ undone \subseteq undone'
           /\ \/ undone' \subseteq undone \cup {"generator"}
              \/ \E u \in Units, c \in Contents : Edit(u, c)
<1>1. CASE (\E u \in Units, c \in Contents : Edit(u, c)) \/ \E g \in Builds : InstallGenerator(g)
  BY <1>1 DEF Edit, InstallGenerator
<1>2. CASE (\E n \in 1..MaxSeq : TakeBatch(n)) \/ TakeStale \/ TakeWatch \/ TakeRebuild
  BY <1>2 DEF TakeBatch, TakeStale, TakeWatch, TakeRebuild, Take
<1>3. CASE Pipeline
  BY <1>3 DEF Pipeline, GuardAndSelect, SaveAndSpawn, Generated, Commit, SaveState, Reread, Emit
<1>4. CASE ApplyThrows \/ GenerationFails \/ CommitThrows
  BY <1>4 DEF ApplyThrows, GenerationFails, CommitThrows
<1>5. CASE Crash \/ CrashSavingState \/ CrashSavingSnapshot \/ Start
  BY <1>5 DEF Crash, CrashSavingState, CrashSavingSnapshot, Down, Start, StartWith
<1>6. CASE UNCHANGED vars
  BY <1>6 DEF vars
<1> QED
  BY <1>1, <1>2, <1>3, <1>4, <1>5, <1>6 DEF Next

\* The journal stays the history of Ghidra.
LEMMA NextHistory == TypeOK /\ JournalIsHistory /\ [Next]_vars => JournalIsHistory'
<1> SUFFICES ASSUME TypeOK, JournalIsHistory, [Next]_vars, NEW v \in Units
             PROVE  \/ /\ ghidra'[v] = 0 /\ v \notin undone'
                       /\ \A s \in 1..Len(journal') : journal'[s].unit # v
                    \/ \E s \in 1..Len(journal') : LastOf(s, v)'
  BY DEF JournalIsHistory
<1>1. \/ /\ ghidra[v] = 0 /\ v \notin undone
         /\ \A s \in 1..Len(journal) : journal[s].unit # v
      \/ \E s \in 1..Len(journal) : LastOf(s, v)
  BY DEF JournalIsHistory
<1>2. CASE UNCHANGED <<ghidra, journal>> /\ undone' \subseteq undone \cup {"generator"}
  <2>1. v # "generator"
    BY PipelineAssumption
  <2> QED
    BY <1>1, <1>2, <2>1 DEF LastOf
<1>3. ASSUME NEW u \in Units, NEW c \in Contents, Edit(u, c)
      PROVE  \/ /\ ghidra'[v] = 0 /\ v \notin undone'
                /\ \A s \in 1..Len(journal') : journal'[s].unit # v
             \/ \E s \in 1..Len(journal') : LastOf(s, v)'
  <2>1. /\ Len(journal') = Len(journal) + 1 /\ Len(journal) \in Nat
        /\ \A s \in 1..Len(journal) : journal'[s] = journal[s]
        /\ journal'[Len(journal')].unit = u /\ journal'[Len(journal')].content = c
        /\ ghidra'[u] = c /\ \A w \in Units \ {u} : ghidra'[w] = ghidra[w]
        /\ undone' \subseteq undone \cup {u}
    BY <1>3, EditRecords, Numbers
  <2>2. CASE v = u
    <3>1. Len(journal') \in 1..Len(journal') /\ (Len(journal') + 1)..Len(journal') = {}
      BY <2>1
    <3> QED
      BY <2>1, <2>2, <3>1 DEF LastOf
  <2>3. CASE v # u /\ \A s \in 1..Len(journal) : journal[s].unit # v
    <3>1. ghidra[v] = 0 /\ v \notin undone
      BY <1>1, <2>3 DEF LastOf
    <3>2. ASSUME NEW s \in 1..Len(journal') PROVE journal'[s].unit # v
      BY <2>1, <2>3
    <3> QED
      BY <2>1, <2>3, <3>1, <3>2
  <2>4. ASSUME v # u, NEW s \in 1..Len(journal), LastOf(s, v) PROVE s \in 1..Len(journal') /\ LastOf(s, v)'
    <3>1. ASSUME NEW t \in (s + 1)..Len(journal') PROVE journal'[t].unit # v
      <4>1. t \in (s + 1)..Len(journal) \/ t = Len(journal')
        BY <2>1
      <4>2. ASSUME t \in (s + 1)..Len(journal) PROVE journal'[t].unit # v
        <5>1. t \in 1..Len(journal)
          BY <4>2
        <5> QED
          BY <2>1, <2>4, <4>2, <5>1 DEF LastOf
      <4> QED
        BY <2>1, <2>4, <4>1, <4>2
    <3> QED
      BY <2>1, <2>4, <3>1 DEF LastOf
  <2> QED
    BY <1>1, <2>2, <2>3, <2>4
<1>4. CASE UNCHANGED <<ghidra, journal>> /\ \E u \in Units, c \in Contents : Edit(u, c)
  BY <1>3, <1>4
<1> QED
  BY <1>2, <1>3, <1>4, HistoryFrame, UndoneGrows

-----------------------------------------------------------------------------
(* Phases.                                                                   *)

\* The phases go on leaving behind what they do.
LEMMA NextPhases == TypeOK /\ PhaseInv /\ [Next]_vars => PhaseInv'
<1> SUFFICES ASSUME TypeOK, PhaseInv, [Next]_vars PROVE PhaseInv'
  OBVIOUS
<1> USE DEF PhaseInv, WrittenIsAll, envVars, modelVars, workVars, builtVars, snapVars, diskVars,
      textVars
<1>1. CASE (\E u \in Units, c \in Contents : Edit(u, c)) \/ \E g \in Builds : InstallGenerator(g)
  BY <1>1 DEF Edit, InstallGenerator
<1>2. CASE (\E n \in 1..MaxSeq : TakeBatch(n)) \/ TakeStale \/ TakeWatch \/ TakeRebuild
  BY <1>2 DEF TakeBatch, TakeStale, TakeWatch, TakeRebuild, Take
<1>3. CASE (\E u \in Units : Reread(u)) \/ ApplyThrows
  BY <1>3 DEF Reread, ApplyThrows, EndTask
<1>4. CASE GuardAndSelect \/ SaveAndSpawn
  BY <1>4 DEF GuardAndSelect, SaveAndSpawn
<1>5. CASE \E u \in Units : Emit(u)
  BY <1>5 DEF Emit
<1>6. CASE Generated \/ GenerationFails
  BY <1>6 DEF Generated, GenerationFails, EndTask
<1>7. CASE Commit \/ CommitThrows \/ SaveState
  BY <1>7 DEF Commit, CommitThrows, SaveState, EndTask
<1>8. CASE Crash \/ CrashSavingState \/ CrashSavingSnapshot
  BY <1>8 DEF Crash, CrashSavingState, CrashSavingSnapshot, Down, BreaksOff
<1>9. CASE Start
  BY <1>9 DEF Start, StartWith
<1>10. CASE UNCHANGED vars
  BY <1>10 DEF vars
<1> QED
  BY <1>1, <1>2, <1>3, <1>4, <1>5, <1>6, <1>7, <1>8, <1>9, <1>10 DEF Next, Pipeline

-----------------------------------------------------------------------------
(* The texts that are sure.                                                  *)

\* A file written has the content of the model.
LEMMA Emitted ==
    ASSUME TypeOK, PhaseInv, NEW u \in Units, Emit(u)
    PROVE  /\ staging'[u].content = model[u] /\ staging'[u].gen = childGen
           /\ \A v \in Units \ {u} : staging'[v] = staging[v]
           /\ phase = "generating" /\ toEmit' = toEmit \ {u} /\ fresh' = fresh \cup {u}
           /\ snapshot = model
           /\ UNCHANGED <<ghidra, gen, phase, model, childGen, hashes, buildId, snapshot, state,
                          committed, left, undone>>
<1>1. staging' = [staging EXCEPT ![u] = [content |-> snapshot[u], gen |-> childGen]]
  BY DEF Emit
<1>2. staging \in [Units -> Texts]
  BY DEF TypeOK
<1>3. staging'[u] = [content |-> snapshot[u], gen |-> childGen]
      /\ \A v \in Units \ {u} : staging'[v] = staging[v]
  BY <1>1, <1>2
<1>4. phase = "generating" /\ snapshot = model
  BY DEF Emit, PhaseInv
<1> QED
  BY <1>3, <1>4 DEF Emit, envVars, modelVars, workVars, builtVars, snapVars

\* The texts that are sure stay the ones their hashes were taken of.
LEMMA NextSure == TypeOK /\ PhaseInv /\ SureInv /\ [Next]_vars => SureInv'
<1> SUFFICES ASSUME TypeOK, PhaseInv, SureInv, [Next]_vars PROVE SureInv'
  OBVIOUS
<1> USE DEF SureInv, HashesAreOfTexts, SavedHashesAreOfTexts, SureTextIsCurrent, Sure, Rebuilding,
      envVars, modelVars, workVars, builtVars, snapVars, diskVars, textVars
<1>1. CASE (\E u \in Units, c \in Contents : Edit(u, c)) \/ \E g \in Builds : InstallGenerator(g)
  BY <1>1 DEF Edit, InstallGenerator
<1>2. CASE (\E n \in 1..MaxSeq : TakeBatch(n)) \/ TakeStale \/ TakeWatch \/ TakeRebuild
  BY <1>2 DEF TakeBatch, TakeStale, TakeWatch, TakeRebuild, Take
<1>3. CASE (\E u \in Units : Reread(u)) \/ ApplyThrows
  BY <1>3 DEF Reread, ApplyThrows, EndTask
<1>4. CASE GuardAndSelect
  <2>1. /\ phase = "applying" /\ phase' = "selected" /\ hashes' \in {hashes, NoHashes}
        /\ UNCHANGED <<staging, model, state, left, fresh>>
    BY <1>4 DEF GuardAndSelect, Trusted
  <2>2. ASSUME NEW u \in Sure PROVE hashes'[u] \in {None, staging[u].content}
    BY <2>1 DEF NoHashes
  <2>3. ASSUME NEW u \in Sure \ toEmit' PROVE staging[u].content = model[u]
    <3>1. hashes'[u] = model[u]
      BY <1>4 DEF GuardAndSelect, Dirty
    <3>2. model[u] # None
      BY Numbers DEF None
    <3> QED
      BY <2>2, <3>1, <3>2
  <2> QED
    BY <2>1, <2>2, <2>3
<1>5. CASE SaveAndSpawn
  BY <1>5 DEF SaveAndSpawn
<1>6. ASSUME NEW u \in Units, Emit(u) PROVE SureInv'
  BY <1>6, Emitted
<1>7. CASE Generated
  <2>1. /\ phase = "generating" /\ phase' = "generated" /\ toEmit = {} /\ hashes' = model
        /\ UNCHANGED <<staging, model, state, left, fresh, toEmit>>
    BY <1>7 DEF Generated
  <2> QED
    BY <2>1
<1>8. CASE GenerationFails
  BY <1>8 DEF GenerationFails, EndTask, BreaksOff
<1>9. CASE Commit \/ CommitThrows
  BY <1>9 DEF Commit, CommitThrows, EndTask
<1>10. CASE SaveState
  BY <1>10 DEF SaveState, EndTask
<1>11. CASE Crash
  BY <1>11 DEF Crash, Down, BreaksOff, NoHashes
<1>12. CASE CrashSavingState
  BY <1>12 DEF CrashSavingState, Down, BreaksOff, NoHashes, FreshState
<1>13. CASE CrashSavingSnapshot
  BY <1>13 DEF CrashSavingSnapshot, Down, BreaksOff, NoHashes
<1>14. CASE Start
  <2>1. /\ phase' = "idle" /\ hashes' \in {state.hashes, NoHashes} /\ fresh = {}
        /\ UNCHANGED <<staging, state, left, fresh>>
    BY <1>14 DEF Start, StartWith, Trusted, PhaseInv
  <2> QED
    BY <2>1 DEF NoHashes
<1>15. CASE UNCHANGED vars
  BY <1>15 DEF vars
<1> QED
  BY <1>1, <1>2, <1>3, <1>4, <1>5, <1>6, <1>7, <1>8, <1>9, <1>10, <1>11, <1>12, <1>13, <1>14,
     <1>15 DEF Next, Pipeline

-----------------------------------------------------------------------------
(* Builds.                                                                   *)

\* The texts stay of the builds they are trusted for, until a generator is taken back to.
LEMMA NextBuilds ==
    ASSUME TypeOK, PhaseInv, BuildInv, [Next]_vars, "generator" \notin undone'
    PROVE  BuildInv'
<1>0. /\ phase \in {"generated", "committed"} => toEmit = {}
      /\ phase = "committed" => \A u \in Units : committed[u].gen = staging[u].gen
  BY DEF PhaseInv, WrittenIsAll
<1>a. /\ gen \in Nat /\ buildId \in Int /\ childGen \in Int /\ -1 <= buildId /\ state.build \in Int
      /\ \A u \in Units : staging[u].gen \in Int /\ -1 <= staging[u].gen /\ committed[u].gen \in Int
  BY Numbers
<1> USE <1>a DEF BuildInv, BuildsKnown, HashesAreOfBuild, KeptTextIsOfBuild,
      CommittedIsOfBuild, Rebuilding, None, envVars, workVars, builtVars, diskVars
<1>1. CASE \E u \in Units, c \in Contents : Edit(u, c)
  BY <1>1 DEF Edit
<1>2. ASSUME NEW g \in Builds, InstallGenerator(g) PROVE BuildInv'
  <2>1. gen < g /\ g \in Nat /\ gen' = g
    BY <1>2, PipelineAssumption DEF InstallGenerator, Builds
  <2>2. /\ phase' = phase /\ buildId' = buildId /\ childGen' = childGen /\ hashes' = hashes
        /\ staging' = staging /\ committed' = committed /\ state' = state /\ toEmit' = toEmit
    BY <1>2 DEF InstallGenerator
  <2>3. ASSUME NEW u \in Units PROVE staging[u].gen <= g /\ committed[u].gen <= g
    BY <2>1
  <2>4. gen \in Nat /\ buildId \in Int /\ childGen \in Int /\ state.build \in Int
    OBVIOUS
  <2>5. buildId <= gen /\ childGen <= gen /\ state.build <= gen
    OBVIOUS
  <2>6. buildId <= g /\ childGen <= g /\ state.build <= g
    BY <2>1, <2>4, <2>5
  <2>7. BuildsKnown'
    BY <2>1, <2>2, <2>3, <2>6
  <2>8. HashesAreOfBuild' /\ KeptTextIsOfBuild' /\ CommittedIsOfBuild'
    BY <2>2
  <2> HIDE DEF BuildsKnown, HashesAreOfBuild, KeptTextIsOfBuild, CommittedIsOfBuild
  <2> QED
    BY <2>7, <2>8
<1>3. CASE (\E n \in 1..MaxSeq : TakeBatch(n)) \/ TakeStale \/ TakeWatch \/ TakeRebuild
  <2>1. /\ phase = "idle" /\ phase' = "applying" /\ gen' = gen /\ buildId' = buildId
        /\ childGen' = childGen /\ hashes' = hashes /\ staging' = staging
        /\ committed' = committed /\ state' = state
    BY <1>3 DEF TakeBatch, TakeStale, TakeWatch, TakeRebuild, Take
  <2> QED
    BY <2>1
<1>4. CASE \E u \in Units : Reread(u)
  BY <1>4 DEF Reread
<1>5. CASE ApplyThrows
  BY <1>5 DEF ApplyThrows, EndTask
<1>6. CASE GuardAndSelect
  <2>1. ASSUME NEW u \in Units, hashes'[u] # None
        PROVE  hashes' = hashes /\ buildId = gen
    BY <1>6, <2>1 DEF GuardAndSelect, Trusted, NoHashes
  <2>2. ASSUME NEW u \in Units \ toEmit' PROVE hashes'[u] # None
    BY <1>6, <2>2, Numbers DEF GuardAndSelect, Dirty
  <2>3. buildId' = gen /\ phase' = "selected" /\ UNCHANGED <<gen, state, staging, committed, childGen>>
    BY <1>6 DEF GuardAndSelect
  <2>4. HashesAreOfBuild'
    BY <2>1, <2>3
  <2>5. KeptTextIsOfBuild'
    BY <2>1, <2>2, <2>3
  <2> QED
    BY <2>3, <2>4, <2>5
<1>7. CASE SaveAndSpawn
  BY <1>7 DEF SaveAndSpawn
<1>8. ASSUME NEW u \in Units, Emit(u) PROVE BuildInv'
  <2>3. staging'[u].gen = childGen /\ \A v \in Units \ {u} : staging'[v] = staging[v]
    BY <1>8, Emitted
  <2>4. /\ phase = "generating" /\ toEmit' = toEmit \ {u}
        /\ UNCHANGED <<gen, phase, childGen, hashes, buildId, state, committed>>
    BY <1>8, Emitted
  <2>5. ASSUME NEW v \in Units PROVE staging'[v].gen = childGen \/ staging'[v] = staging[v]
    BY <2>3
  <2>6. state.build <= buildId /\ buildId <= childGen /\ childGen <= gen
    BY <2>4
  <2>7. BuildsKnown' /\ CommittedIsOfBuild'
    BY <2>4, <2>5, <2>6
  <2>8. ASSUME NEW v \in Units
        PROVE  /\ hashes[v] # None => buildId <= staging'[v].gen
               /\ state.hashes[v] # None => state.build <= staging'[v].gen
    <3>1. CASE staging'[v] = staging[v]
      BY <3>1
    <3>2. CASE staging'[v].gen = childGen
      BY <2>6, <3>2
    <3> QED
      BY <2>5, <3>1, <3>2
  <2>9. KeptTextIsOfBuild'
    BY <2>3, <2>4, <2>5, <2>6
  <2> QED
    BY <2>4, <2>7, <2>8, <2>9
<1>9. CASE Generated
  BY <1>9 DEF Generated
<1>10. CASE GenerationFails
  BY <1>10 DEF GenerationFails, EndTask
<1>11. CASE Commit
  BY <1>0, <1>11 DEF Commit
<1>12. CASE CommitThrows
  BY <1>12 DEF CommitThrows, EndTask
<1>13. CASE SaveState
  BY <1>0, <1>13 DEF SaveState, EndTask
<1>14. CASE Crash
  BY <1>14 DEF Crash, Down, NoHashes
<1>15. CASE CrashSavingState
  BY <1>0, <1>15 DEF CrashSavingState, Down, NoHashes, FreshState
<1>16. CASE CrashSavingSnapshot
  BY <1>16 DEF CrashSavingSnapshot, Down, NoHashes
<1>17. CASE Start
  BY <1>17 DEF Start, StartWith, Trusted, NoHashes
<1>18. CASE UNCHANGED vars
  BY <1>18 DEF vars
<1> QED
  BY <1>1, <1>2, <1>3, <1>4, <1>5, <1>6, <1>7, <1>8, <1>9, <1>10, <1>11, <1>12, <1>13, <1>14,
     <1>15, <1>16, <1>17, <1>18 DEF Next, Pipeline

-----------------------------------------------------------------------------
(* Contents.                                                                 *)

\* A file written has the content of the model that was saved.
LEMMA EmitOrder == ASSUME TypeOK, PhaseInv, OrderInv, NEW u \in Units, Emit(u) PROVE OrderInv'
<1>1. /\ staging'[u].content = model[u] /\ \A v \in Units \ {u} : staging'[v] = staging[v]
      /\ phase = "generating" /\ snapshot = model /\ toEmit' = toEmit \ {u}
      /\ UNCHANGED <<ghidra, phase, model, hashes, snapshot, state, committed, undone>>
  BY Emitted
<1>2. ASSUME NEW v \in Units \ undone PROVE Ordered(v)'
  <2>1. Ordered(v)
    BY DEF OrderInv, ContentsInOrder
  <2>2. /\ hashes[v] \in Int /\ state.hashes[v] \in Int /\ committed[v].content \in Int
        /\ staging[v].content \in Int /\ snapshot[v] \in Int
    BY Numbers
  <2>3. staging'[v].content \in {staging[v].content, snapshot[v]}
    BY <1>1
  <2>4. /\ hashes[v] <= staging'[v].content
        /\ state.hashes[v] <= staging'[v].content
        /\ committed[v].content <= staging'[v].content
        /\ staging'[v].content <= snapshot[v]
    BY <2>1, <2>2, <2>3 DEF Ordered
  <2> QED
    BY <1>1, <2>1, <2>4 DEF Ordered
<1>3. KeptTextIsCurrent'
  BY <1>1 DEF OrderInv, KeptTextIsCurrent, Rebuilding
<1> QED
  BY <1>1, <1>2, <1>3 DEF OrderInv, ContentsInOrder, SnapshotIsThere

\* A start takes the contents up where the snapshot left them.
LEMMA StartOrder == ASSUME TypeOK, OrderInv, Start PROVE OrderInv'
<1>1. /\ phase' = "idle" /\ model' = snapshot'
      /\ UNCHANGED <<ghidra, staging, state, committed, undone>>
  BY DEF Start, StartWith, envVars
<1>2. ASSUME NEW u \in Units PROVE snapshot'[u] = snapshot[u] /\ snapshot[u] # None
  BY DEF Start, StartWith, Missing, NoHashes, OrderInv, SnapshotIsThere
<1>3. ASSUME NEW u \in Units \ undone PROVE Ordered(u)'
  <2>1. Ordered(u)
    BY DEF OrderInv, ContentsInOrder
  <2>2. hashes'[u] \in {state.hashes[u], -1}
    BY DEF Start, StartWith, Trusted, NoHashes, None
  <2>3. -1 <= staging[u].content /\ snapshot[u] \in Int
    BY Numbers
  <2>4. hashes'[u] <= staging[u].content
    BY <2>1, <2>2, <2>3 DEF Ordered
  <2> QED
    BY <1>1, <1>2, <2>1, <2>3, <2>4 DEF Ordered
<1> QED
  BY <1>1, <1>2, <1>3 DEF OrderInv, ContentsInOrder, SnapshotIsThere, KeptTextIsCurrent, Rebuilding

\* An edit raises Ghidra's content, or the unit is one taken back.
LEMMA EditOrder ==
    ASSUME TypeOK, OrderInv, NEW u \in Units, NEW c \in Contents, Edit(u, c)
    PROVE  OrderInv'
<1>1. /\ hashes' = hashes /\ staging' = staging /\ state' = state /\ committed' = committed
      /\ snapshot' = snapshot /\ model' = model /\ phase' = phase /\ toEmit' = toEmit
      /\ undone \subseteq undone'
  BY EditRecords DEF Edit, modelVars, workVars, builtVars, snapVars, diskVars
<1>2. ASSUME NEW v \in Units \ undone' PROVE Ordered(v)'
  <2>1. Ordered(v)
    BY <1>1 DEF OrderInv, ContentsInOrder
  <2>2. ghidra[v] \in Nat /\ snapshot[v] \in Int /\ model[v] \in Nat
    BY Numbers
  <2>3. ghidra'[v] \in Nat /\ ghidra[v] <= ghidra'[v]
    BY EditRaises
  <2>4. snapshot[v] <= ghidra'[v] /\ model[v] <= ghidra'[v]
    BY <2>1, <2>2, <2>3 DEF Ordered
  <2> QED
    BY <1>1, <2>1, <2>4 DEF Ordered
<1> QED
  BY <1>1, <1>2 DEF OrderInv, ContentsInOrder, SnapshotIsThere, KeptTextIsCurrent, Rebuilding

\* A symbol read again has the content Ghidra has, or the one it had.
LEMMA RereadOrder == ASSUME TypeOK, OrderInv, NEW u \in Units, Reread(u) PROVE OrderInv'
<1>1. /\ hashes' = hashes /\ staging' = staging /\ state' = state /\ committed' = committed
      /\ snapshot' = snapshot /\ ghidra' = ghidra /\ undone' = undone
      /\ phase = "applying" /\ phase' = "applying"
  BY DEF Reread, envVars, builtVars, snapVars, diskVars
<1>2. ASSUME NEW v \in Units \ undone PROVE Ordered(v)'
  <2>1. Ordered(v)
    BY DEF OrderInv, ContentsInOrder
  <2>2. model \in [Units -> Contents]
    BY DEF TypeOK, Models
  <2>3. model'[v] = model[v] \/ model'[v] = ghidra[v]
    BY <2>2 DEF Reread
  <2>4. ghidra[v] \in Nat /\ snapshot[v] \in Int /\ model[v] \in Nat
    BY Numbers
  <2>5. snapshot[v] <= model'[v] /\ model'[v] <= ghidra[v]
    BY <1>1, <2>1, <2>3, <2>4 DEF Ordered
  <2> QED
    BY <1>1, <2>1, <2>5 DEF Ordered
<1> QED
  BY <1>1, <1>2 DEF OrderInv, ContentsInOrder, SnapshotIsThere, KeptTextIsCurrent, Rebuilding

\* A unit without a changed hash is staged with the content it has in the model.
LEMMA SelectOrder == ASSUME TypeOK, OrderInv, GuardAndSelect PROVE OrderInv'
<1>1. /\ staging' = staging /\ state' = state /\ committed' = committed /\ model' = model
      /\ snapshot' = snapshot /\ ghidra' = ghidra /\ undone' = undone
      /\ phase = "applying" /\ phase' = "selected"
  BY DEF GuardAndSelect, envVars, snapVars, diskVars
<1>2. ASSUME NEW v \in Units PROVE hashes'[v] = hashes[v] \/ hashes'[v] = -1
  BY DEF GuardAndSelect, Trusted, NoHashes, None
<1>3. ASSUME NEW v \in Units \ undone PROVE Ordered(v)'
  <2>1. Ordered(v)
    BY DEF OrderInv, ContentsInOrder
  <2>2. hashes[v] \in Int /\ staging[v].content \in Int /\ -1 <= staging[v].content
    BY Numbers
  <2>3. hashes'[v] <= staging[v].content
    BY <1>2, <2>1, <2>2 DEF Ordered
  <2> QED
    BY <1>1, <2>1, <2>3 DEF Ordered
<1>4. ASSUME NEW v \in Units \ (toEmit' \cup undone) PROVE staging[v].content = model[v]
  <2>1. Ordered(v)
    BY DEF OrderInv, ContentsInOrder
  <2>2. /\ hashes[v] \in Int /\ staging[v].content \in Int /\ snapshot[v] \in Int
        /\ model[v] \in Nat
    BY Numbers
  <2>3. hashes'[v] = model[v]
    BY DEF GuardAndSelect, Dirty
  <2>4. hashes[v] = model[v]
    BY <1>2, <2>2, <2>3
  <2>5. hashes[v] <= staging[v].content /\ staging[v].content <= snapshot[v] /\ snapshot[v] <= model[v]
    BY <1>1, <2>1 DEF Ordered
  <2> QED
    BY <2>2, <2>4, <2>5
<1> QED
  BY <1>1, <1>3, <1>4 DEF OrderInv, ContentsInOrder, SnapshotIsThere, KeptTextIsCurrent, Rebuilding

\* The snapshot is taken of the model.
LEMMA SaveOrder == ASSUME TypeOK, OrderInv, SaveAndSpawn PROVE OrderInv'
<1>1. /\ hashes' = hashes /\ staging' = staging /\ state' = state /\ committed' = committed
      /\ snapshot' = model /\ model' = model /\ ghidra' = ghidra /\ toEmit' = toEmit
      /\ undone' = undone /\ phase = "selected" /\ phase' = "generating"
  BY DEF SaveAndSpawn, envVars, modelVars, builtVars
<1>2. ASSUME NEW v \in Units \ undone PROVE Ordered(v)'
  <2>1. Ordered(v)
    BY DEF OrderInv, ContentsInOrder
  <2>2. staging[v].content \in Int /\ snapshot[v] \in Int /\ model[v] \in Nat
    BY Numbers
  <2>3. staging[v].content <= model[v] /\ model[v] <= model[v]
    BY <1>1, <2>1, <2>2 DEF Ordered
  <2> QED
    BY <1>1, <2>1, <2>3 DEF Ordered
<1>3. SnapshotIsThere'
  BY <1>1, Numbers DEF SnapshotIsThere, None
<1> QED
  BY <1>1, <1>2, <1>3 DEF OrderInv, ContentsInOrder, KeptTextIsCurrent, Rebuilding

\* The contents stay in order, and what is kept stays current, until a snapshot is lost.
LEMMA NextOrder ==
    ASSUME TypeOK, PhaseInv, OrderInv, [Next]_vars, ~Lost'
    PROVE  OrderInv'
<1> USE Numbers DEF OrderInv, ContentsInOrder, Ordered, SnapshotIsThere, KeptTextIsCurrent,
      Rebuilding, None, envVars, modelVars, workVars, builtVars, snapVars, diskVars
<1>0. undone \subseteq undone'
  BY UndoneGrows
<1>1. ASSUME NEW u \in Units, NEW c \in Contents, Edit(u, c) PROVE OrderInv'
  BY <1>1, EditOrder
<1>2. CASE \E g \in Builds : InstallGenerator(g)
  BY <1>0, <1>2 DEF InstallGenerator
<1>3. CASE (\E n \in 1..MaxSeq : TakeBatch(n)) \/ TakeStale \/ TakeWatch \/ TakeRebuild
  BY <1>3 DEF TakeBatch, TakeStale, TakeWatch, TakeRebuild, Take
<1>4. ASSUME NEW u \in Units, Reread(u) PROVE OrderInv'
  BY <1>4, RereadOrder
<1>5. CASE ApplyThrows
  BY <1>5 DEF ApplyThrows, EndTask
<1>6. CASE GuardAndSelect
  BY <1>6, SelectOrder
<1>7. CASE SaveAndSpawn
  BY <1>7, SaveOrder
<1>8. CASE \E u \in Units : Emit(u)
  BY <1>8, EmitOrder
<1>9. CASE Generated
  BY <1>9 DEF Generated
<1>10. CASE GenerationFails
  BY <1>10 DEF GenerationFails, EndTask
<1>11. CASE Commit
  BY <1>11 DEF Commit
<1>12. CASE CommitThrows
  BY <1>12 DEF CommitThrows, EndTask
<1>13. CASE SaveState
  BY <1>13 DEF SaveState, EndTask
<1>14. CASE Crash
  BY <1>14 DEF Crash, Down, NoHashes, Seed
<1>15. CASE CrashSavingState
  BY <1>15 DEF CrashSavingState, Down, NoHashes, Seed, FreshState
<1>16. CASE CrashSavingSnapshot
  BY <1>16 DEF CrashSavingSnapshot, Lost
<1>17. CASE Start
  BY <1>17, StartOrder
<1>18. CASE UNCHANGED vars
  BY <1>18 DEF vars
<1> QED
  BY <1>1, <1>2, <1>3, <1>4, <1>5, <1>6, <1>7, <1>8, <1>9, <1>10, <1>11, <1>12, <1>13, <1>14,
     <1>15, <1>16, <1>17, <1>18 DEF Next, Pipeline

-----------------------------------------------------------------------------
(* What the positions stand for.                                             *)

\* Only a commit changes the regen branch, and it takes the staging tree whole.
LEMMA CommittedFrame == ASSUME [Next]_vars PROVE committed' \in {committed, staging}
<1> USE DEF diskVars
<1>1. CASE (\E u \in Units, c \in Contents : Edit(u, c)) \/ \E g \in Builds : InstallGenerator(g)
  BY <1>1 DEF Edit, InstallGenerator
<1>2. CASE (\E n \in 1..MaxSeq : TakeBatch(n)) \/ TakeStale \/ TakeWatch \/ TakeRebuild
  BY <1>2 DEF TakeBatch, TakeStale, TakeWatch, TakeRebuild, Take
<1>3. CASE Pipeline
  BY <1>3 DEF Pipeline, GuardAndSelect, SaveAndSpawn, Generated, Commit, SaveState, Reread, Emit
<1>4. CASE ApplyThrows \/ GenerationFails \/ CommitThrows
  BY <1>4 DEF ApplyThrows, GenerationFails, CommitThrows
<1>5. CASE Crash \/ CrashSavingState \/ CrashSavingSnapshot \/ Start
  BY <1>5 DEF Crash, CrashSavingState, CrashSavingSnapshot, Down, Start, StartWith
<1>6. CASE UNCHANGED vars
  BY <1>6 DEF vars
<1> QED
  BY <1>1, <1>2, <1>3, <1>4, <1>5, <1>6 DEF Next

\* A lost snapshot stays lost, a failed re-read stays recorded.
LEMMA MissedGrows == ASSUME [Next]_vars PROVE missed \subseteq missed'
<1>1. CASE (\E u \in Units, c \in Contents : Edit(u, c)) \/ \E g \in Builds : InstallGenerator(g)
  BY <1>1 DEF Edit, InstallGenerator
<1>2. CASE (\E n \in 1..MaxSeq : TakeBatch(n)) \/ TakeStale \/ TakeWatch \/ TakeRebuild
  BY <1>2 DEF TakeBatch, TakeStale, TakeWatch, TakeRebuild, Take
<1>3. CASE Pipeline
  BY <1>3 DEF Pipeline, GuardAndSelect, SaveAndSpawn, Generated, Commit, SaveState, Reread, Emit
<1>4. CASE ApplyThrows \/ GenerationFails \/ CommitThrows
  BY <1>4 DEF ApplyThrows, GenerationFails, CommitThrows
<1>5. CASE Crash \/ CrashSavingState \/ CrashSavingSnapshot \/ Start
  BY <1>5 DEF Crash, CrashSavingState, CrashSavingSnapshot, Down, Start, StartWith
<1>6. CASE UNCHANGED vars
  BY <1>6 DEF vars
<1> QED
  BY <1>1, <1>2, <1>3, <1>4, <1>5, <1>6 DEF Next

\* A change stays folded in while its unit keeps its content there.
LEMMA FoldedStays ==
    ASSUME [Next]_vars, TypeOK, NEW s \in 1..Len(journal), NEW a, NEW b, Folded(s, a),
           b[journal[s].unit] = a[journal[s].unit]
    PROVE  /\ Len(journal) <= Len(journal') /\ journal'[s] = journal[s]
           /\ journal'[s].unit \in missed'
              \/ \E t \in s..Len(journal') : /\ journal'[t].unit = journal'[s].unit
                                             /\ journal'[t].content = b[journal'[s].unit]
<1>1. Len(journal) <= Len(journal') /\ \A t \in 1..Len(journal) : journal'[t] = journal[t]
  BY HistoryFrame, EditRecords, Numbers
<1>2. Len(journal) \in Nat /\ Len(journal') \in Nat
  BY HistoryFrame, EditRecords, Numbers
<1>3. missed \subseteq missed'
  BY MissedGrows
<1>4. ASSUME NEW t \in s..Len(journal) PROVE t \in 1..Len(journal) /\ t \in s..Len(journal')
  BY <1>1, <1>2
<1> QED
  BY <1>1, <1>3, <1>4 DEF Folded

\* What Ghidra holds has everything folded in.
LEMMA GhidraHasAll ==
    ASSUME TypeOK, JournalIsHistory, NEW s \in 1..Len(journal), NEW a,
           a[journal[s].unit] = ghidra[journal[s].unit]
    PROVE  Folded(s, a)
<1>1. journal[s].unit \in Units /\ Len(journal) \in Nat
  BY Entry, Numbers
<1>2. PICK t \in 1..Len(journal) : LastOf(t, journal[s].unit)
  BY <1>1 DEF JournalIsHistory
<1>3. t \in s..Len(journal)
  BY <1>1, <1>2 DEF LastOf
<1> QED
  BY <1>2, <1>3 DEF Folded, LastOf

\* The positions go on standing for what they were saved with, until a snapshot is lost or
\* a start took its position from a label.
LEMMA NextCover ==
    ASSUME TypeOK, SeqsInOrder, JournalIsHistory, PhaseInv, SureInv, OrderInv, CoverInv,
           [Next]_vars, ~Lost', ~Misplaced'
    PROVE  CoverInv'
<1> USE DEF CoverInv, ModelCoversItsSeq, BatchIsReadOrDue, SnapshotCoversSaved,
      CommittedCoversSaved, envVars, modelVars, workVars, builtVars, snapVars, diskVars, textVars
<1>0. /\ state.seq \in Nat /\ modelSeq \in Nat /\ batchEnd \in Nat /\ position \in Nat
      /\ Len(journal) \in Nat
      /\ state.seq <= Len(journal) /\ modelSeq <= Len(journal) /\ batchEnd <= Len(journal)
      /\ position <= modelSeq /\ (phase # "down" => state.seq <= modelSeq)
  BY Numbers DEF SeqsInOrder
<1>m. ASSUME UNCHANGED <<journal, missed, model>>, NEW s PROVE Folded(s, model)' <=> Folded(s, model)
  BY <1>m DEF Folded
<1>s. ASSUME UNCHANGED <<journal, missed, snapshot>>, NEW s
      PROVE  Folded(s, snapshot)' <=> Folded(s, snapshot)
  BY <1>s DEF Folded
<1>c. ASSUME UNCHANGED <<journal, missed, committed>>, NEW s
      PROVE  Folded(s, CommittedContent)' <=> Folded(s, CommittedContent)
  BY <1>c DEF Folded, CommittedContent
<1>u. undone \subseteq undone'
  BY UndoneGrows
<1>1. ASSUME NEW u \in Units, NEW c \in Contents, Edit(u, c) PROVE CoverInv'
  <2>1. \A s \in 1..Len(journal) : journal'[s] = journal[s]
    BY <1>1, EditRecords
  <2>2. UNCHANGED <<phase, model, modelSeq, batchEnd, toRead, snapshot, state, committed, missed, left>>
    BY <1>1 DEF Edit
  <2>3. ASSUME NEW s \in 1..Len(journal)
        PROVE  /\ Folded(s, model) => Folded(s, model)'
               /\ Folded(s, snapshot) => Folded(s, snapshot)'
               /\ Folded(s, CommittedContent) => Folded(s, CommittedContent)'
    <3>1. Folded(s, model) => Folded(s, model)'
      BY <2>2, FoldedStays DEF Folded
    <3>2. Folded(s, snapshot) => Folded(s, snapshot)'
      BY <2>2, FoldedStays DEF Folded
    <3>3. CommittedContent' = CommittedContent
      BY <2>2 DEF CommittedContent
    <3>4. Folded(s, CommittedContent) => Folded(s, CommittedContent)'
      BY <2>2, <3>3, FoldedStays DEF Folded
    <3> QED
      BY <3>1, <3>2, <3>4
  <2>4. ModelCoversItsSeq' /\ SnapshotCoversSaved'
    BY <1>0, <2>2, <2>3
  <2>5. BatchIsReadOrDue'
    <3>1. ASSUME NEW s \in (modelSeq + 1)..batchEnd PROVE s \in 1..Len(journal)
      BY <1>0
    <3> QED
      BY <2>1, <2>2, <2>3, <3>1
  <2>6. CommittedCoversSaved'
    <3>1. ASSUME NEW s \in 1..state.seq PROVE s \in 1..Len(journal)
      BY <1>0
    <3> QED
      BY <1>u, <2>1, <2>2, <2>3, <3>1 DEF Stranded
  <2> QED
    BY <2>4, <2>5, <2>6
<1>2. CASE \E g \in Builds : InstallGenerator(g)
  BY <1>2, <1>m, <1>s, <1>c, <1>u DEF InstallGenerator, Stranded
<1>3. ASSUME NEW kind, NEW end, NEW units, Take(kind, end, units), end <= modelSeq, end \in Nat
      PROVE  CoverInv'
  BY <1>0, <1>3, <1>m, <1>s, <1>c DEF Take, Stranded
<1>4. ASSUME NEW n \in 1..MaxSeq, TakeBatch(n) PROVE CoverInv'
  <2>1. /\ phase' = "applying" /\ batchEnd' = n
        /\ toRead' = {journal[s].unit : s \in (position + 1)..n}
        /\ UNCHANGED <<journal, model, modelSeq, snapshot, state, committed, missed, left, undone>>
    BY <1>4 DEF TakeBatch, Take
  <2>2. ASSUME NEW s \in (modelSeq + 1)..n PROVE journal[s].unit \in toRead'
    <3>1. s \in (position + 1)..n
      BY <1>0
    <3> QED
      BY <2>1, <3>1
  <2>3. phase # "down"
    BY <1>4 DEF TakeBatch, Take
  <2> QED
    BY <2>1, <2>2, <2>3, <1>m, <1>s, <1>c DEF Stranded
<1>5. CASE TakeStale \/ TakeWatch \/ TakeRebuild
  BY <1>0, <1>3, <1>5 DEF TakeStale, TakeWatch, TakeRebuild
<1>6. ASSUME NEW u \in Units, Reread(u) PROVE CoverInv'
  <2>1. /\ phase = "applying" /\ phase' = "applying" /\ toRead' = toRead \ {u}
        /\ UNCHANGED <<ghidra, journal, modelSeq, batchEnd, snapshot, state, committed, left, undone>>
    BY <1>6 DEF Reread
  <2>2. model \in [Units -> Contents]
    BY DEF TypeOK, Models
  <2>3. /\ \A v \in Units \ {u} : model'[v] = model[v]
        /\ \/ u \in missed' /\ model' = model
           \/ model'[u] = ghidra[u] /\ missed' = missed
    BY <1>6, <2>2 DEF Reread
  <2>4. missed \subseteq missed'
    BY MissedGrows
  <2>5. ASSUME NEW s \in 1..Len(journal), journal[s].unit = u \/ Folded(s, model)
        PROVE  Folded(s, model)'
    <3>1. journal[s].unit \in Units
      BY Entry
    <3>2. CASE journal[s].unit # u
      BY <2>1, <2>3, <2>4, <2>5, <3>1, <3>2 DEF Folded
    <3>3. CASE journal[s].unit = u /\ u \in missed'
      BY <2>1, <3>3 DEF Folded
    <3>4. CASE journal[s].unit = u /\ model'[u] = ghidra[u]
      <4>1. Folded(s, model')
        BY <3>4, GhidraHasAll
      <4> QED
        BY <2>1, <2>4, <4>1 DEF Folded
    <3> QED
      BY <2>3, <3>2, <3>3, <3>4
  <2>6. ModelCoversItsSeq' /\ BatchIsReadOrDue'
    <3>1. ASSUME NEW s \in 1..modelSeq PROVE Folded(s, model)'
      <4>1. s \in 1..Len(journal) /\ Folded(s, model)
        BY <1>0, <2>1
      <4> QED
        BY <2>5, <4>1
    <3>2. ASSUME NEW s \in (modelSeq + 1)..batchEnd
          PROVE  journal[s].unit \in toRead' \/ Folded(s, model)'
      <4>1. s \in 1..Len(journal) /\ (journal[s].unit \in toRead \/ Folded(s, model))
        BY <1>0, <2>1
      <4> QED
        BY <2>1, <2>5, <4>1
    <3> QED
      BY <2>1, <3>1, <3>2
  <2>7. SnapshotCoversSaved' /\ CommittedCoversSaved'
    BY <2>1, <2>4 DEF Folded, CommittedContent, Stranded
  <2> QED
    BY <2>6, <2>7
<1>7. CASE ApplyThrows
  BY <1>7, <1>m, <1>s, <1>c DEF ApplyThrows, EndTask, Stranded
<1>8. CASE GuardAndSelect
  <2>1. /\ phase = "applying" /\ phase' = "selected" /\ toRead = {}
        /\ modelSeq' = Larger(modelSeq, batchEnd)
        /\ UNCHANGED <<journal, model, snapshot, state, committed, missed, left, undone>>
    BY <1>8 DEF GuardAndSelect
  <2>2. ASSUME NEW s \in 1..modelSeq' PROVE Folded(s, model)
    <3>1. s \in 1..modelSeq \/ s \in (modelSeq + 1)..batchEnd
      BY <1>0, <2>1 DEF Larger
    <3> QED
      BY <2>1, <3>1
  <2> QED
    BY <2>1, <2>2, <1>m, <1>s, <1>c DEF Stranded
<1>9. CASE SaveAndSpawn
  <2>1. /\ phase = "selected" /\ phase' = "generating" /\ snapshot' = model
        /\ UNCHANGED <<journal, model, modelSeq, state, committed, missed, left, undone>>
    BY <1>9 DEF SaveAndSpawn
  <2>2. ASSUME NEW s \in 1..state.seq PROVE Folded(s, snapshot)'
    <3>1. Folded(s, model)
      BY <1>0, <2>1
    <3> QED
      BY <2>1, <3>1 DEF Folded
  <2> QED
    BY <2>1, <2>2, <1>m, <1>c DEF Stranded
<1>10. CASE \E u \in Units : Emit(u)
  BY <1>10, <1>m, <1>s, <1>c DEF Emit, Stranded
<1>11. CASE Generated
  BY <1>11, <1>m, <1>s, <1>c DEF Generated, Stranded
<1>12. CASE GenerationFails
  <2>1. /\ phase' = "idle" /\ phase = "generating" /\ left \subseteq left'
        /\ UNCHANGED <<journal, model, modelSeq, snapshot, state, committed, missed, undone>>
    BY <1>12 DEF GenerationFails, EndTask, BreaksOff
  <2> QED
    BY <2>1, <1>m, <1>s, <1>c DEF Stranded
<1>13. ASSUME phase \in {"generated", "committed"}
       PROVE  /\ \A u \in Units : u \in Sure \/ u \notin undone => staging[u].content = model[u]
              /\ \A u \in Units : model[u] # None
              /\ snapshot = model
  BY <1>13, Numbers DEF OrderInv, KeptTextIsCurrent, SureInv, SureTextIsCurrent, PhaseInv,
     WrittenIsAll, Rebuilding, Sure, None
<1>14. CASE Commit
  <2>1. /\ phase = "generated" /\ phase' = "committed" /\ committed' = staging
        /\ UNCHANGED <<journal, model, modelSeq, snapshot, state, missed, left, undone>>
    BY <1>14 DEF Commit
  <2>2. ASSUME NEW s \in 1..state.seq, journal[s].unit \notin Stranded
        PROVE  Folded(s, CommittedContent)'
    <3>1. s \in 1..modelSeq /\ s \in 1..Len(journal)
      BY <1>0, <2>1
    <3>2. Folded(s, model) /\ journal[s].unit \in Units
      BY <2>1, <3>1, Entry
    <3>3. staging[journal[s].unit].content = model[journal[s].unit]
      BY <1>13, <2>1, <2>2, <3>2 DEF Stranded, Sure
    <3> QED
      BY <2>1, <3>2, <3>3 DEF Folded, CommittedContent
  <2> QED
    BY <1>13, <2>1, <2>2, <1>m, <1>s DEF Stranded
<1>15. CASE CommitThrows
  BY <1>15, <1>m, <1>s, <1>c DEF CommitThrows, EndTask, Stranded
<1>16. CASE SaveState
  <2>1. /\ phase = "committed" /\ phase' = "idle" /\ state'.seq = modelSeq
        /\ left' = left \ fresh
        /\ UNCHANGED <<journal, model, modelSeq, snapshot, committed, missed, undone>>
    BY <1>16 DEF SaveState, EndTask
  <2>2. committed = staging
    BY <2>1 DEF PhaseInv
  <2>3. ASSUME NEW s \in 1..modelSeq
        PROVE  /\ Folded(s, snapshot)'
               /\ journal[s].unit \notin Stranded' => Folded(s, CommittedContent)'
    <3>1. s \in 1..Len(journal)
      BY <1>0
    <3>2. Folded(s, model) /\ journal[s].unit \in Units
      BY <2>1, <3>1, Entry
    <3>3. Folded(s, snapshot)'
      BY <1>13, <2>1, <3>2 DEF Folded
    <3>4. ASSUME journal[s].unit \notin Stranded' PROVE Folded(s, CommittedContent)'
      <4>1. staging[journal[s].unit].content = model[journal[s].unit]
        BY <1>13, <2>1, <3>2, <3>4 DEF Stranded, Sure
      <4> QED
        BY <2>1, <2>2, <3>2, <4>1 DEF Folded, CommittedContent
    <3> QED
      BY <3>3, <3>4
  <2> QED
    BY <1>13, <2>1, <2>2, <2>3, <1>m
<1>17. CASE Crash
  BY <1>17, <1>s, <1>c DEF Crash, Down, BreaksOff, Stranded
<1>18. CASE CrashSavingState
  BY <1>18 DEF CrashSavingState, Down, FreshState
<1>19. CASE CrashSavingSnapshot
  BY <1>19 DEF CrashSavingSnapshot, Lost
<1>20. CASE Start
  <2>1. /\ phase' = "idle" /\ modelSeq' = Placed /\ model' = snapshot'
        /\ UNCHANGED <<journal, state, committed, left, undone>>
    BY <1>20 DEF Start, StartWith
  <2>2. /\ missed' = missed
        /\ state = FreshState => \A s \in 1..place : Folded(s, snapshot')
    BY <1>20 DEF Start, StartWith, Misplaced
  <2>3. ASSUME NEW u \in Units PROVE snapshot'[u] = snapshot[u]
    BY <1>20 DEF Start, StartWith, Missing, NoHashes, OrderInv, SnapshotIsThere
  <2>4. ASSUME NEW s \in 1..state.seq PROVE Folded(s, snapshot')
    <3>1. journal[s].unit \in Units
      BY <1>0, Entry
    <3>2. Folded(s, snapshot)
      OBVIOUS
    <3> QED
      BY <2>3, <3>1, <3>2 DEF Folded
  <2>5. ASSUME NEW s PROVE Folded(s, snapshot') => Folded(s, snapshot)' /\ Folded(s, model)'
    BY <2>1, <2>2 DEF Folded
  <2> QED
    BY <2>1, <2>2, <2>4, <2>5, <1>c DEF Placed, Stranded
<1>21. CASE UNCHANGED vars
  BY <1>21, <1>m, <1>s, <1>c DEF vars, Stranded
<1> QED
  BY <1>1, <1>2, <1>4, <1>5, <1>6, <1>7, <1>8, <1>9, <1>10, <1>11, <1>12, <1>14, <1>15, <1>16,
     <1>17, <1>18, <1>19, <1>20, <1>21 DEF Next, Pipeline

-----------------------------------------------------------------------------
(* The theorems.                                                             *)

\* A new pipeline satisfies the invariant.
LEMMA InitInv == Init => IInv
<1> SUFFICES ASSUME Init PROVE IInv
  OBVIOUS
<1> USE DEF Init, Seed, FreshState, NoHashes, NoText, None
<1>1. SeqsInOrder /\ JournalIsHistory
  BY DEF SeqsInOrder, Rebuilding, JournalIsHistory
<1>2. PhaseInv /\ SureInv
  BY DEF PhaseInv, WrittenIsAll, SureInv, HashesAreOfTexts, SavedHashesAreOfTexts,
     SureTextIsCurrent, Sure, Rebuilding
<1>3. BuildInv
  BY DEF BuildInv, BuildsKnown, HashesAreOfBuild, KeptTextIsOfBuild, CommittedIsOfBuild, Rebuilding
<1>4. OrderInv
  BY DEF OrderInv, ContentsInOrder, Ordered, SnapshotIsThere, KeptTextIsCurrent, Rebuilding
<1>5. CoverInv
  BY DEF CoverInv, ModelCoversItsSeq, BatchIsReadOrDue, SnapshotCoversSaved,
     CommittedCoversSaved
<1> QED
  BY <1>1, <1>2, <1>3, <1>4, <1>5 DEF IInv

\* Every step keeps the invariant.
LEMMA NextInv == TypeOK /\ IInv /\ [Next]_vars => IInv'
<1> SUFFICES ASSUME TypeOK, IInv, [Next]_vars PROVE IInv'
  OBVIOUS
<1>1. SeqsInOrder /\ JournalIsHistory /\ PhaseInv /\ SureInv
  BY DEF IInv
<1>2. SeqsInOrder' /\ JournalIsHistory' /\ PhaseInv' /\ SureInv'
  BY <1>1, NextSeqs, NextHistory, NextPhases, NextSure
<1>3. ASSUME "generator" \notin undone' PROVE BuildInv'
  <2>1. BuildInv
    BY <1>3, UndoneGrows DEF IInv
  <2> QED
    BY <1>1, <1>3, <2>1, NextBuilds
<1>4. ASSUME ~Lost' PROVE OrderInv /\ OrderInv'
  <2>1. OrderInv
    BY <1>4, MissedGrows DEF Lost, IInv
  <2> QED
    BY <1>1, <1>4, <2>1, NextOrder
<1>5. ASSUME ~Lost', ~Misplaced' PROVE CoverInv'
  <2>1. CoverInv
    BY <1>5, MissedGrows DEF Lost, Misplaced, IInv
  <2> QED
    BY <1>1, <1>4, <1>5, <2>1, NextCover
<1> QED
  BY <1>2, <1>3, <1>4, <1>5 DEF IInv

\* The invariant holds throughout, whatever is undone and whichever step fails.
THEOREM SpecInv == Spec => [](TypeOK /\ IInv)
<1>1. Init => TypeOK /\ IInv
  BY InitType, InitInv
<1>2. TypeOK /\ IInv /\ [Next]_vars => TypeOK' /\ IInv'
  BY NextType, NextInv
<1> QED
  BY <1>1, <1>2, PTL DEF Spec

\* live-state.json's seq counts changes that are in the snapshot beside it, unless a crash
\* lost that one, or a start took a position that was ahead of it.
THEOREM SpecSeqFoldedIntoSnapshot == Spec => []SeqFoldedIntoSnapshot
<1>1. TypeOK /\ IInv => SeqFoldedIntoSnapshot
  BY DEF IInv, CoverInv, SnapshotCoversSaved, SeqFoldedIntoSnapshot
<1> QED
  BY <1>1, SpecInv, PTL

\* The selection leaves out no unit whose text the model would change, but one that a
\* generation which recorded nothing wrote and an edit then took back: also where edits are
\* undone, whichever generations break off.
THEOREM SpecReuseIsSound == Spec => []ReuseIsSound
<1>1. TypeOK /\ IInv => ReuseIsSound
  <2> SUFFICES ASSUME TypeOK, IInv PROVE ReuseIsSound
    OBVIOUS
  <2>1. ASSUME NEW u \in Units \ (toEmit \cup Stranded), phase = "selected", ~Lost
        PROVE  staging[u].content = model[u]
    <3>1. CASE u \in Sure
      BY <2>1, <3>1 DEF IInv, SureInv, SureTextIsCurrent, Rebuilding
    <3>2. CASE u \notin undone
      BY <2>1, <3>2 DEF IInv, OrderInv, KeptTextIsCurrent, Rebuilding
    <3> QED
      BY <2>1, <3>1, <3>2 DEF Stranded, Sure
  <2> QED
    BY <2>1, Zenon DEF ReuseIsSound
<1> QED
  BY <1>1, SpecInv, PTL

\* A tree saved as covering every change recorded holds what Ghidra holds, also of a unit an
\* edit took back, but for the exceptions the property names.
THEOREM SpecSavedTreeIsCurrent == Spec => []SavedTreeIsCurrent
<1>1. TypeOK /\ IInv => SavedTreeIsCurrent
  <2> SUFFICES ASSUME TypeOK, IInv PROVE SavedTreeIsCurrent
    OBVIOUS
  <2>1. ASSUME NEW u \in Units \ (missed \cup Stranded),
               state.seq = Len(journal), state # FreshState, ~Lost, ~Misplaced
        PROVE  committed[u].content = ghidra[u]
    <3>1. \/ ghidra[u] = 0 /\ u \notin undone
          \/ \E s \in 1..Len(journal) : LastOf(s, u)
      BY <2>1 DEF IInv, JournalIsHistory
    <3>2. /\ u \notin undone => committed[u].content # None
          /\ \A s \in 1..Len(journal) : journal[s].unit \in Stranded \/ Folded(s, CommittedContent)
      BY <2>1 DEF IInv, CoverInv, CommittedCoversSaved
    <3>3. CASE ghidra[u] = 0 /\ u \notin undone
      <4>1. committed[u].content \in Int /\ staging[u].content \in Int /\ snapshot[u] \in Int
        BY Numbers
      <4>2. committed[u].content <= ghidra[u]
        BY <2>1, <3>3, <4>1 DEF IInv, OrderInv, ContentsInOrder, Ordered
      <4>3. committed[u].content \in Contents \cup {None}
        BY DEF TypeOK, Texts
      <4> QED
        BY <3>2, <3>3, <4>2, <4>3 DEF Contents, None
    <3>4. ASSUME NEW s \in 1..Len(journal), LastOf(s, u) PROVE committed[u].content = ghidra[u]
      <4>1. journal[s].unit = u /\ Folded(s, CommittedContent)
        BY <2>1, <3>2, <3>4 DEF LastOf
      <4>2. PICK t \in s..Len(journal) : journal[t].unit = u
                                        /\ journal[t].content = CommittedContent[u]
        BY <2>1, <4>1 DEF Folded
      <4>3. t = s
        BY <3>4, <4>2, Numbers DEF LastOf
      <4> QED
        BY <3>4, <4>2, <4>3 DEF LastOf, CommittedContent
    <3> QED
      BY <3>1, <3>3, <3>4
  <2> QED
    BY <2>1, Zenon DEF SavedTreeIsCurrent
<1> QED
  BY <1>1, SpecInv, PTL

\* A tree recorded as the installed generator's work holds none of another one's text, unless
\* that generator was taken back to.
THEOREM SpecMixedTreeIsNotTrusted == Spec => []MixedTreeIsNotTrusted
<1>1. TypeOK /\ IInv => MixedTreeIsNotTrusted
  <2> SUFFICES ASSUME TypeOK, IInv PROVE MixedTreeIsNotTrusted
    OBVIOUS
  <2>1. ASSUME NEW u \in Units, state.build = gen, "generator" \notin undone
        PROVE  committed[u].gen = gen
    <3>1. committed[u].gen <= gen /\ state.build <= committed[u].gen
      BY <2>1 DEF IInv, BuildInv, BuildsKnown, CommittedIsOfBuild
    <3>2. gen \in Nat /\ committed[u].gen \in Int
      BY Numbers
    <3> QED
      BY <2>1, <3>1, <3>2
  <2> QED
    BY <2>1, Zenon DEF MixedTreeIsNotTrusted
<1> QED
  BY <1>1, SpecInv, PTL

\* No commit takes a unit back to an older content, unless it was edited back.
THEOREM SpecCommitsNeverRegress == Spec => CommitsNeverRegress
<1>1. TypeOK /\ IInv /\ [Next]_vars
      => [Lost \/ \A u \in Units \ undone : committed'[u].content >= committed[u].content]_vars
  <2> SUFFICES ASSUME TypeOK, IInv, [Next]_vars, ~Lost, NEW u \in Units \ undone
               PROVE  committed'[u].content >= committed[u].content
    OBVIOUS
  <2>1. committed[u].content \in Int /\ staging[u].content \in Int
        /\ committed[u].content <= staging[u].content
    BY Numbers DEF IInv, OrderInv, ContentsInOrder, Ordered
  <2>2. committed' \in {committed, staging}
    BY CommittedFrame
  <2> QED
    BY <2>1, <2>2
<1> QED
  BY <1>1, SpecInv, PTL DEF Spec, CommitsNeverRegress

=============================================================================
