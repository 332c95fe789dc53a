-------------------------- MODULE ModelVerifierProofs --------------------------
(***************************************************************************)
(* For any symbols, any check-ins and any sizes of a step: a commit holds  *)
(* no record later than its label, and what a step counts is evidence      *)
(* about the version the model is at.                                      *)
(*                                                                         *)
(* The label is never behind the model's version nor ahead of the worker,  *)
(* so that a worker found at the model's version fixes all three; and the  *)
(* batch being applied is of the version the worker is at, since the       *)
(* stream asks for no other meanwhile.  A sweep's reads are at versions    *)
(* that only grow: ending at the model's version they were all made there, *)
(* unless a task has changed the model under them.                         *)
(*                                                                         *)
(* The types, last, rest on that order too, and on a step's keys being of  *)
(* one list, which has a last.                                             *)
(***************************************************************************)
EXTENDS ModelVerifier, SequenceTheorems, FiniteSetTheorems, WellFoundedInduction, TLAPS

Changes == CheckIns \cup {NoChange}

SweepFields == {"pc", "base", "got", "found", "stale", "overtaken"}

\* A batch is of the version the worker is at, and only its own task applies it.
TasksInv ==
    /\ tasks \in Seq(Task)
    /\ \A i \in 1..Len(tasks) : tasks[i].kind = "apply" =>
          /\ stream = "batch"
          /\ \A j \in 1..Len(tasks) : tasks[j].kind = "apply" => j = i

StreamInv ==
    /\ history \in Seq(Changes) /\ position \in Nat
    /\ batch.keys \subseteq Symbols
    /\ stream # "idle" => batch.upTo = version

\* What is committed, the model, its label, the worker and the server, in this order.
VersionsInv ==
    /\ version \in Nat /\ modelVersion \in Nat /\ label \in Nat
    /\ committed.version \in Nat /\ snapshot.label \in Nat
    /\ 1 <= committed.version /\ committed.version <= modelVersion
    /\ modelVersion <= label /\ label <= version /\ version <= Latest
    /\ committed.version <= snapshot.label /\ snapshot.label <= version

\* No record is of a version the worker has not been at.
RecordsInv ==
    /\ model \in [Symbols -> Nat] /\ snapshot.tree \in [Symbols -> Nat]
    /\ \A s \in Symbols : model[s] <= version /\ snapshot.tree[s] <= version

SweepTyped ==
    /\ DOMAIN sweep = SweepFields /\ Keys \subseteq Symbols /\ sweep.found \subseteq Symbols
    /\ DOMAIN cursor = {"phase", "key"} /\ cursor.phase \in 1..3

\* Of a key the step could read, there is something to compare.
WasRead(k) == sweep.got[k] # Unread /\ (k \in Lists[1] \cup Lists[2] => sweep.got[k] # Gone)

\* While no task has ended since the step began, nor moved the model's version, and the worker
\* is at that version.
SweepInv ==
    ~sweep.overtaken =>
        /\ sweep.pc = "reading" /\ tasks = <<>> => sweep.base = model
        /\ sweep.pc = "reading" => \A k \in Keys : sweep.base[k] # Gone
        /\ sweep.pc = "reading" /\ ~Moved =>
              \A k \in Keys : sweep.got[k] \in {Waiting, Unread, Record(k, modelVersion)}
        /\ sweep.pc = "compared" /\ ~Moved =>
              sweep.found = {k \in sweep.stale : WasRead(k)}

DaemonInv == TasksInv /\ StreamInv /\ VersionsInv /\ RecordsInv /\ CommitIsOfItsVersion

IInv == DaemonInv /\ SweepTyped /\ SweepInv

-----------------------------------------------------------------------------
(* Records and the versions they are of.                                     *)

\* A nonempty set of versions has a latest one: the least of the distances from the end.
LEMMA MaxOfUpTo ==
    ASSUME NEW n \in Nat, NEW S \in SUBSET (1..n), S # {}
    PROVE  Max(S) \in S /\ \A x \in S : x <= Max(S)
<1> DEFINE R == OpToRel(<, Nat)
           T == {k \in Nat : n - k \in S}
<1>1. \E x \in T : \A y \in T : ~ (<<y, x>> \in R)
  <2>1. IsWellFoundedOn(R, Nat)
    BY NatLessThanWellFounded
  <2>2. T \subseteq Nat /\ T # {}
    <3>1. PICK s \in S : TRUE
      OBVIOUS
    <3>2. n - s \in Nat /\ n - (n - s) = s
      OBVIOUS
    <3> QED
      BY <3>1, <3>2
  <2> HIDE DEF R, T
  <2> QED
    BY <2>1, <2>2, WFMin
<1>2. PICK x \in T : \A y \in T : ~ (<<y, x>> \in R)
  BY <1>1
<1>3. \A y \in T : ~ (y < x)
  BY <1>2 DEF OpToRel
<1>4. n - x \in S /\ \A s \in S : n - x >= s
  <2>1. SUFFICES ASSUME NEW s \in S PROVE n - x >= s
    OBVIOUS
  <2>2. n - s \in Nat /\ n - (n - s) = s
    OBVIOUS
  <2>3. ~ (n - s < x)
    BY <1>3, <2>2
  <2> QED
    BY <2>2, <2>3
<1>5. \E m \in S : \A s \in S : m >= s
  BY <1>4
<1> QED
  BY <1>5 DEF Max

\* The later of two versions.
LEMMA MaxOfTwo ==
    ASSUME NEW a \in Int, NEW b \in Int
    PROVE  Max({a, b}) = IF a >= b THEN a ELSE b
<1>1. (IF a >= b THEN a ELSE b) \in {a, b}
      /\ \A y \in {a, b} : (IF a >= b THEN a ELSE b) >= y
  OBVIOUS
<1>2. \A x \in {a, b} : (\A y \in {a, b} : x >= y) => x = IF a >= b THEN a ELSE b
  OBVIOUS
<1> QED
  BY <1>1, <1>2 DEF Max

\* LastChange and Record, with the history as a parameter.
LastIn(h, s, v) == Max({1} \cup {u \in 2..v : s \in h[u].named \cup h[u].missed})
RecordIn(h, s, v) == IF s \in h[LastIn(h, s, v)].gone THEN Gone ELSE LastIn(h, s, v)

\* What last changed a symbol is a version, or there is the first.
LEMMA LastInBound ==
    ASSUME NEW h, NEW s, NEW v \in Nat, 1 <= v
    PROVE  LastIn(h, s, v) \in 1..v
<1> DEFINE S == {1} \cup {u \in 2..v : s \in h[u].named \cup h[u].missed}
<1>1. S \in SUBSET (1..v) /\ S # {}
  OBVIOUS
<1> HIDE DEF S
<1>2. Max(S) \in S
  BY <1>1, MaxOfUpTo
<1>3. Max(S) \in 1..v
  BY <1>1, <1>2
<1> QED
  BY <1>3 DEF LastIn, S

\* A record read at a version is of that version or an earlier one, or Gone.
LEMMA RecordBound ==
    ASSUME NEW s, NEW v \in Nat, 1 <= v
    PROVE  Record(s, v) \in Nat /\ Record(s, v) <= v
<1>1. LastIn(history, s, v) \in 1..v
  BY LastInBound
<1>2. LastChange(s, v) \in 1..v
  BY <1>1 DEF LastIn, LastChange
<1> QED
  BY <1>2 DEF Record, Gone

\* What is checked in later is of no consequence to it.
LEMMA RecordKept ==
    ASSUME NEW h, NEW g, NEW s, NEW v \in Nat, 1 <= v, \A u \in 1..v : g[u] = h[u]
    PROVE  RecordIn(g, s, v) = RecordIn(h, s, v)
<1>1. {u \in 2..v : s \in g[u].named \cup g[u].missed} = {u \in 2..v : s \in h[u].named \cup h[u].missed}
  OBVIOUS
<1>2. LastIn(g, s, v) = LastIn(h, s, v)
  BY <1>1 DEF LastIn
<1>3. LastIn(h, s, v) \in 1..v
  BY LastInBound
<1> QED
  BY <1>2, <1>3 DEF RecordIn

\* The history only grows.
LEMMA CheckInGrows ==
    ASSUME StreamInv, CheckIn
    PROVE  /\ history' \in Seq(Changes) /\ Len(history') = Len(history) + 1
           /\ \A u \in 1..Len(history) : history'[u] = history[u]
<1>1. PICK c \in Changes : history' = Append(history, c)
  BY DEF CheckIn, Changes
<1> QED
  BY <1>1, AppendProperties DEF StreamInv

-----------------------------------------------------------------------------
(* The work queue.                                                           *)

\* What the server records and what a step finds are sets of symbols.
LEMMA NewTaskTyped ==
    ASSUME NEW kind \in {"apply", "verify", "rebuild"}, NEW keys \in SUBSET Symbols,
           NEW sweeps \in BOOLEAN
    PROVE  NewTask(kind, keys, sweeps) \in Task /\ NewTask(kind, keys, sweeps).kind = kind
  BY DEF NewTask, Task

\* A task is put at the end; a batch's only when no batch is in hand.
LEMMA TaskAppended ==
    ASSUME TasksInv, NEW t \in Task, tasks' = Append(tasks, t),
           t.kind = "apply" => stream # "batch" /\ stream' = "batch",
           stream = "batch" => stream' = "batch"
    PROVE  TasksInv' /\ tasks' # <<>>
<1>1. /\ tasks' \in Seq(Task) /\ tasks' # <<>>
      /\ Len(tasks') = Len(tasks) + 1 /\ Len(tasks) \in Nat
      /\ \A i \in 1..Len(tasks) : tasks'[i] = tasks[i]
      /\ tasks'[Len(tasks) + 1] = t
  BY AppendProperties, LenProperties DEF TasksInv
<1>2. ASSUME NEW i \in 1..Len(tasks'), tasks'[i].kind = "apply"
      PROVE  stream' = "batch" /\ \A j \in 1..Len(tasks') : tasks'[j].kind = "apply" => j = i
  <2>1. \A j \in 1..Len(tasks') : j \in 1..Len(tasks) \/ j = Len(tasks) + 1
    BY <1>1
  <2>2. CASE t.kind = "apply"
    BY <1>1, <1>2, <2>1, <2>2 DEF TasksInv
  <2>3. CASE t.kind # "apply"
    BY <1>1, <1>2, <2>1, <2>3 DEF TasksInv
  <2> QED
    BY <2>2, <2>3
<1> QED
  BY <1>1, <1>2 DEF TasksInv

\* The head of the queue.
LEMMA HeadTask ==
    ASSUME TasksInv, Busy
    PROVE  /\ Len(tasks) \in Nat /\ Len(tasks) >= 1 /\ Head(tasks) = tasks[1]
           /\ Head(tasks) \in Task
           /\ Head(tasks).kind = "apply" => stream = "batch"
<1>1. Len(tasks) \in Nat /\ Len(tasks) >= 1 /\ Head(tasks) = tasks[1] /\ Head(tasks) \in Task
  BY HeadTailProperties, LenProperties, EmptySeq DEF TasksInv, Busy
<1> QED
  BY <1>1 DEF TasksInv

\* The task at the head is over, and the batch with the one that applied it.
LEMMA TaskEnds ==
    ASSUME TasksInv, Busy, NEW w, Finished(w)
    PROVE  /\ TasksInv'
           /\ \/ /\ stream = "batch" /\ stream' = "idle" /\ batch' = NoBatch
                 /\ position' \in {position, batch.upTo}
              \/ UNCHANGED streamVars
<1>1. /\ tasks' = Tail(tasks)
      /\ \/ /\ Head(tasks).kind = "apply" /\ stream' = "idle" /\ batch' = NoBatch
            /\ position' \in {position, batch.upTo}
         \/ Head(tasks).kind # "apply" /\ UNCHANGED streamVars
  BY DEF Finished
<1>2. /\ tasks' \in Seq(Task) /\ Len(tasks') = Len(tasks) - 1
      /\ \A i \in 1..Len(tasks') : tasks'[i] = tasks[i + 1]
  BY <1>1, HeadTailProperties DEF TasksInv, Busy
<1>3. Len(tasks) \in Nat /\ Len(tasks) >= 1 /\ Head(tasks) = tasks[1]
  BY HeadTask
<1>4. ASSUME NEW i \in 1..Len(tasks'), tasks'[i].kind = "apply"
      PROVE  stream' = "batch" /\ \A j \in 1..Len(tasks') : tasks'[j].kind = "apply" => j = i
  <2>1. \A j \in 1..Len(tasks') : j + 1 \in 1..Len(tasks) /\ j + 1 # 1 /\ tasks'[j] = tasks[j + 1]
    BY <1>2, <1>3
  <2>2. 1 \in 1..Len(tasks) /\ tasks[1].kind # "apply"
    BY <1>3, <1>4, <2>1 DEF TasksInv
  <2>3. stream' = stream
    BY <1>1, <1>3, <2>2 DEF streamVars
  <2>4. stream = "batch"
    BY <1>4, <2>1 DEF TasksInv
  <2>5. ASSUME NEW j \in 1..Len(tasks'), tasks'[j].kind = "apply" PROVE j = i
    <3>1. tasks[i + 1].kind = "apply" /\ tasks[j + 1].kind = "apply"
      BY <1>4, <2>1, <2>5
    <3>2. j + 1 = i + 1
      BY <2>1, <3>1 DEF TasksInv
    <3>3. i \in Int /\ j \in Int
      BY <1>2, <1>3
    <3> QED
      BY <3>2, <3>3
  <2> QED
    BY <2>3, <2>4, <2>5
<1>5. Head(tasks).kind = "apply" => stream = "batch"
  BY HeadTask
<1> QED
  BY <1>1, <1>2, <1>4, <1>5 DEF TasksInv

-----------------------------------------------------------------------------
(* The steps of the daemon.                                                  *)

\* The batch in hand is of the worker's version: what applies it brings label and model there.
LEMMA LabelledBound ==
    ASSUME DaemonInv
    PROVE  /\ Labelled \in Nat /\ label <= Labelled /\ Labelled <= version
           /\ ~Running("apply") => Labelled = label
           /\ Running("apply") => batch.upTo = version /\ Labelled = version
<1>1. version \in Nat /\ label \in Nat /\ modelVersion \in Nat /\ label <= version /\ modelVersion <= version
  BY DEF DaemonInv, VersionsInv
<1>2. CASE ~Running("apply")
  BY <1>1, <1>2 DEF Labelled
<1>3. CASE Running("apply")
  <2>1. batch.upTo = version
    BY <1>3, HeadTask DEF DaemonInv, StreamInv, Running
  <2> QED
    BY <1>1, <1>3, <2>1, MaxOfTwo DEF Labelled
<1> QED
  BY <1>2, <1>3

\* Nothing is saved or committed, read or moved.
LEMMA NothingMoves ==
    ASSUME DaemonInv, UNCHANGED <<history, version, modelVars, snapshot, committed>>,
           "rebuild" \in spoiled => "rebuild" \in spoiled'
    PROVE  VersionsInv' /\ RecordsInv' /\ CommitIsOfItsVersion'
<1>1. VersionsInv' /\ RecordsInv'
  BY DEF DaemonInv, VersionsInv, RecordsInv, modelVars, Latest
<1>2. CommitIsOfItsVersion'
  BY DEF DaemonInv, CommitIsOfItsVersion, Free
<1> QED
  BY <1>1, <1>2

\* A task that ends leaves the stream what it was, or idle.
LEMMA EndStep ==
    ASSUME DaemonInv, Busy, NEW w, Finished(w), UNCHANGED <<history, version>>,
           VersionsInv', RecordsInv', CommitIsOfItsVersion'
    PROVE  DaemonInv'
<1>1. /\ TasksInv'
      /\ \/ /\ stream = "batch" /\ stream' = "idle" /\ batch' = NoBatch
            /\ position' \in {position, batch.upTo}
         \/ UNCHANGED streamVars
  BY TaskEnds DEF DaemonInv
<1>2. StreamInv'
  BY <1>1 DEF DaemonInv, StreamInv, VersionsInv, NoBatch, streamVars
<1> QED
  BY <1>1, <1>2 DEF DaemonInv

\* A commit of the model as it is, at the version the worker is at.
LEMMA PublishStep ==
    ASSUME DaemonInv, UNCHANGED <<history, version, model>>,
           modelVersion' = version, label' = version, Publish(version)
    PROVE  VersionsInv' /\ RecordsInv' /\ CommitIsOfItsVersion'
<1>1. /\ committed'.tree = model /\ committed'.version = version /\ committed'.label = version
      /\ snapshot'.tree = model /\ snapshot'.label = version
  BY DEF Publish, Save
<1>2. VersionsInv'
  BY <1>1 DEF DaemonInv, VersionsInv, Latest
<1>3. RecordsInv' /\ CommitIsOfItsVersion'
  BY <1>1 DEF DaemonInv, RecordsInv, CommitIsOfItsVersion
<1> QED
  BY <1>2, <1>3

\* A batch is applied and published.
LEMMA ApplyEndsStep ==
    ASSUME DaemonInv, ApplyEnds
    PROVE  DaemonInv'
<1>1. modelVersion' = version /\ label' = version /\ modelVersion = version
  <2>1. /\ modelVersion >= batch.upTo /\ batch.upTo = version /\ label' = version
        /\ modelVersion' = modelVersion
    BY LabelledBound DEF ApplyEnds, Publishing
  <2> QED
    BY <2>1 DEF DaemonInv, VersionsInv
<1>2. Busy /\ Finished(TRUE) /\ Publish(version) /\ UNCHANGED <<history, version, model>>
  BY <1>1 DEF ApplyEnds, Running
<1> QED
  BY <1>1, <1>2, PublishStep, EndStep

\* What a sweep found is published only where label and model are the worker's.
LEMMA VerifyEndsStep ==
    ASSUME DaemonInv, VerifyEnds
    PROVE  DaemonInv'
<1>1. /\ Busy /\ Finished(TRUE)
      /\ UNCHANGED <<history, version, model, modelVersion, label>>
  BY DEF VerifyEnds, Running
<1>2. CASE Moved
  BY <1>1, <1>2, NothingMoves, EndStep DEF VerifyEnds, modelVars
<1>3. CASE ~Moved
  <2>1. modelVersion = version /\ label = version /\ Publish(version)
    BY <1>3 DEF VerifyEnds, Moved, DaemonInv, VersionsInv
  <2> QED
    BY <1>1, <2>1, PublishStep, EndStep
<1> QED
  BY <1>2, <1>3

\* A rebuild that finds the worker ahead commits what is spoiled.
LEMMA RebuildEndsStep ==
    ASSUME DaemonInv, RebuildEnds
    PROVE  DaemonInv'
<1>1. /\ Busy /\ Finished(TRUE)
      /\ UNCHANGED <<history, version, model, modelVersion, label>>
      /\ committed'.tree = model /\ committed'.version = modelVersion /\ committed'.label = label
      /\ snapshot'.tree = model /\ snapshot'.label = label
      /\ Moved => "rebuild" \in spoiled'
  BY DEF RebuildEnds, Running, Save
<1>2. VersionsInv' /\ RecordsInv'
  BY <1>1 DEF DaemonInv, VersionsInv, RecordsInv, Latest
<1>3. CommitIsOfItsVersion'
  <2>1. CASE Moved
    BY <1>1, <2>1 DEF CommitIsOfItsVersion, Free
  <2>2. CASE ~Moved
    <3>1. modelVersion = version /\ label = version
      BY <2>2 DEF Moved, DaemonInv, VersionsInv
    <3> QED
      BY <1>1, <3>1 DEF DaemonInv, RecordsInv, CommitIsOfItsVersion
  <2> QED
    BY <2>1, <2>2
<1> QED
  BY <1>1, <1>2, <1>3, EndStep

\* The model is saved for a generation that fails.
LEMMA GenerationFailsStep ==
    ASSUME DaemonInv, GenerationFails
    PROVE  DaemonInv'
<1>1. /\ Busy /\ Finished(TRUE) /\ UNCHANGED <<history, version, model, committed>>
      /\ snapshot'.tree = model /\ snapshot'.label = label'
      /\ spoiled \subseteq spoiled'
  BY DEF GenerationFails, Publishing, Save
<1>2. /\ label' \in Nat /\ label <= label' /\ label' <= version
      /\ modelVersion' \in Nat /\ modelVersion <= modelVersion' /\ modelVersion' <= label'
  BY LabelledBound DEF GenerationFails, DaemonInv, VersionsInv
<1>3. VersionsInv'
  BY <1>1, <1>2 DEF DaemonInv, VersionsInv, Latest
<1>4. RecordsInv' /\ CommitIsOfItsVersion'
  BY <1>1 DEF DaemonInv, RecordsInv, CommitIsOfItsVersion, Free
<1> QED
  BY <1>1, <1>3, <1>4, EndStep

\* An update is refused: only the task is over.
LEMMA RefusedStep ==
    ASSUME DaemonInv, Refused
    PROVE  DaemonInv'
<1>1. /\ Busy /\ Finished(FALSE)
      /\ UNCHANGED <<history, version, modelVars, snapshot, committed, spoiled>>
  BY DEF Refused, Running
<1> QED
  BY <1>1, NothingMoves, EndStep

\* The label moves with the first record read, whatever else is read.
LEMMA LabelMoves ==
    ASSUME DaemonInv, label' = Labelled,
           UNCHANGED <<history, version, modelVersion, snapshot, committed>>
    PROVE  VersionsInv'
<1>1. label' \in Nat /\ label <= label' /\ label' <= version
  BY LabelledBound
<1> QED
  BY <1>1 DEF DaemonInv, VersionsInv, Latest

\* A read fails, or the commit of what was saved.
LEMMA TaskFailsStep ==
    ASSUME DaemonInv, TaskFails
    PROVE  DaemonInv'
<1>1. /\ Busy /\ Finished(FALSE) /\ label' = Labelled
      /\ UNCHANGED <<history, version, model, modelVersion, committed>>
      /\ snapshot' = snapshot \/ (snapshot'.tree = model /\ snapshot'.label = label')
      /\ "rebuild" \in spoiled => "rebuild" \in spoiled'
  <2>1. UNCHANGED snapshot \/ Save
    BY DEF TaskFails
  <2>2. snapshot' = snapshot \/ (snapshot'.tree = model /\ snapshot'.label = label')
    BY <2>1 DEF Save
  <2> QED
    BY <2>2 DEF TaskFails
<1>2. label' \in Nat /\ label <= label' /\ label' <= version
  BY <1>1, LabelledBound
<1>3. VersionsInv'
  BY <1>1, <1>2 DEF DaemonInv, VersionsInv, Latest
<1>4. RecordsInv' /\ CommitIsOfItsVersion'
  BY <1>1 DEF DaemonInv, RecordsInv, CommitIsOfItsVersion, Free
<1> QED
  BY <1>1, <1>3, <1>4, EndStep

\* A record is read at the version the worker is at.
LEMMA RefreshStep ==
    ASSUME DaemonInv, Refresh
    PROVE  DaemonInv'
<1>1. /\ Busy /\ label' = Labelled
      /\ UNCHANGED <<history, version, stream, batch, position, modelVersion, snapshot, committed, spoiled>>
  BY DEF Refresh, Running, streamVars
<1>2. PICK s \in Head(tasks).todo :
         /\ model' = model \/ model' = [model EXCEPT ![s] = Reread(s)]
         /\ tasks' = [tasks EXCEPT ![1].todo = @ \ {s}]
  BY DEF Refresh
<1>3. Reread(s) \in Nat /\ Reread(s) <= version
  <2>1. s \in Symbols
    BY <1>1, HeadTask DEF DaemonInv, Task
  <2>2. Record(s, version) \in Nat /\ Record(s, version) <= version /\ version \in Nat
    BY RecordBound DEF DaemonInv, VersionsInv
  <2> QED
    BY <2>1, <2>2 DEF Reread, Gone, DaemonInv, RecordsInv
<1>4. RecordsInv'
  BY <1>1, <1>2, <1>3 DEF DaemonInv, RecordsInv
<1>5. TasksInv'
  <2>1. tasks \in Seq(Task) /\ 1 \in 1..Len(tasks) /\ tasks[1] \in Task
    BY <1>1, HeadTask DEF DaemonInv, TasksInv
  <2> DEFINE t == [tasks[1] EXCEPT !.todo = @ \ {s}]
  <2>2. t \in Task /\ t.kind = tasks[1].kind
    BY <2>1 DEF Task
  <2>3. tasks' = [tasks EXCEPT ![1] = t]
    BY <1>2
  <2> HIDE DEF t
  <2>4. /\ tasks' \in Seq(Task) /\ Len(tasks') = Len(tasks)
        /\ \A i \in 1..Len(tasks) : tasks'[i].kind = tasks[i].kind
    BY <2>1, <2>2, <2>3
  <2> QED
    BY <1>1, <2>4 DEF DaemonInv, TasksInv
<1>6. StreamInv' /\ CommitIsOfItsVersion'
  BY <1>1 DEF DaemonInv, StreamInv, CommitIsOfItsVersion, Free
<1>7. VersionsInv'
  BY <1>1, LabelMoves
<1> QED
  BY <1>4, <1>5, <1>6, <1>7 DEF DaemonInv

\* The model and its label come to the batch's version, the worker's.
LEMMA EventsAppliedStep ==
    ASSUME DaemonInv, EventsApplied
    PROVE  DaemonInv'
<1>1. /\ Running("apply") /\ modelVersion' = batch.upTo /\ label' = Labelled
      /\ UNCHANGED <<history, version, stream, batch, position, model, tasks, snapshot, committed, spoiled>>
  BY DEF EventsApplied, streamVars
<1>2. modelVersion' = version /\ label' = version
  BY <1>1, LabelledBound
<1>3. VersionsInv'
  BY <1>1, <1>2 DEF DaemonInv, VersionsInv, Latest
<1>4. TasksInv' /\ StreamInv' /\ RecordsInv' /\ CommitIsOfItsVersion'
  BY <1>1 DEF DaemonInv, TasksInv, StreamInv, RecordsInv, CommitIsOfItsVersion, Free
<1> QED
  BY <1>3, <1>4 DEF DaemonInv

\* The server records a version.
LEMMA CheckInStep ==
    ASSUME DaemonInv, CheckIn
    PROVE  DaemonInv'
<1>1. /\ history' \in Seq(Changes) /\ Len(history') = Len(history) + 1 /\ Len(history) \in Nat
      /\ UNCHANGED <<version, streamVars, daemonVars, spoiled>>
  BY CheckInGrows, LenProperties DEF DaemonInv, StreamInv, CheckIn
<1>2. TasksInv' /\ StreamInv'
  BY <1>1 DEF DaemonInv, TasksInv, StreamInv, streamVars, daemonVars
<1>3. VersionsInv'
  BY <1>1 DEF DaemonInv, VersionsInv, daemonVars, modelVars, Latest
<1>4. RecordsInv' /\ CommitIsOfItsVersion'
  BY <1>1 DEF DaemonInv, RecordsInv, CommitIsOfItsVersion, Free, daemonVars, modelVars
<1> QED
  BY <1>2, <1>3, <1>4 DEF DaemonInv

\* The worker moves; what it will answer is of the version it moved to.
LEMMA GetChangesStep ==
    ASSUME DaemonInv, GetChanges
    PROVE  DaemonInv'
<1>1. /\ stream = "idle" /\ stream' = "answered" /\ version' = Latest
      /\ batch'.upTo = Latest /\ batch'.keys = UNION {history[v].named : v \in (position + 1)..Latest}
      /\ UNCHANGED <<history, position, daemonVars, spoiled>>
  BY DEF GetChanges
<1>2. history \in Seq(Changes) /\ Latest \in Nat /\ version \in Nat /\ version <= version' /\ position \in Nat
  BY <1>1, LenProperties DEF DaemonInv, StreamInv, VersionsInv, Latest
<1>3. TasksInv'
  BY <1>1 DEF DaemonInv, TasksInv, daemonVars
<1>4. StreamInv'
  <2>1. ASSUME NEW k \in batch'.keys PROVE k \in Symbols
    <3>1. PICK v \in (position + 1)..Latest : k \in history[v].named
      BY <1>1, <2>1
    <3>2. \A c \in Changes : c.named \subseteq Symbols
      BY VerifierAssumption DEF Changes, NoChange
    <3>3. v \in 1..Len(history)
      BY <1>2, <3>1 DEF Latest
    <3>4. history[v] \in Changes
      BY <1>2, <3>3, ElementOfSeq
    <3> QED
      BY <3>1, <3>2, <3>4
  <2> QED
    BY <1>1, <1>2, <2>1 DEF StreamInv
<1>5. VersionsInv'
  BY <1>1, <1>2 DEF DaemonInv, VersionsInv, daemonVars, modelVars, Latest
<1>6. RecordsInv'
  BY <1>1, <1>2 DEF DaemonInv, RecordsInv, daemonVars, modelVars
<1>7. CommitIsOfItsVersion'
  BY <1>1 DEF DaemonInv, CommitIsOfItsVersion, Free, daemonVars
<1> QED
  BY <1>3, <1>4, <1>5, <1>6, <1>7 DEF DaemonInv

\* The stream is idle again, its answer lost or empty; or it hands a batch over.
LEMMA AnswerStep ==
    ASSUME DaemonInv, AnswerLost \/ NothingRecorded \/ BatchArrives
    PROVE  DaemonInv'
<1>1. VersionsInv' /\ RecordsInv' /\ CommitIsOfItsVersion'
  BY NothingMoves DEF AnswerLost, NothingRecorded, BatchArrives, daemonVars
<1>2. UNCHANGED <<history, version>> /\ stream = "answered"
  BY DEF AnswerLost, NothingRecorded, BatchArrives
<1>3. CASE AnswerLost \/ NothingRecorded
  <2>1. /\ stream' = "idle" /\ batch' = NoBatch /\ position' \in {position, batch.upTo}
        /\ tasks' = tasks
    BY <1>3 DEF AnswerLost, NothingRecorded, daemonVars
  <2>2. StreamInv'
    BY <1>2, <2>1 DEF DaemonInv, StreamInv, VersionsInv, NoBatch
  <2>3. TasksInv'
    BY <1>2, <2>1 DEF DaemonInv, TasksInv
  <2> QED
    BY <1>1, <2>2, <2>3 DEF DaemonInv
<1>4. CASE BatchArrives
  <2>1. /\ stream' = "batch" /\ UNCHANGED <<batch, position>>
        /\ tasks' = Append(tasks, NewTask("apply", batch.keys, FALSE))
    BY <1>4 DEF BatchArrives
  <2>2. StreamInv'
    BY <1>2, <2>1 DEF DaemonInv, StreamInv
  <2>3. TasksInv'
    <3>1. NewTask("apply", batch.keys, FALSE) \in Task
      BY NewTaskTyped DEF DaemonInv, StreamInv
    <3> QED
      BY <1>2, <2>1, <3>1, TaskAppended DEF DaemonInv
  <2> QED
    BY <1>1, <2>2, <2>3 DEF DaemonInv
<1> QED
  BY <1>3, <1>4

\* What asks for a task that applies no batch, and what asks for none.
LEMMA AskStep ==
    ASSUME DaemonInv, UNCHANGED <<history, version, streamVars, modelVars, snapshot, committed, spoiled>>,
           \/ tasks' = tasks
           \/ \E kind \in {"verify", "rebuild"}, keys \in SUBSET Symbols, sweeps \in BOOLEAN :
                 tasks' = Append(tasks, NewTask(kind, keys, sweeps))
    PROVE  DaemonInv'
<1>1. VersionsInv' /\ RecordsInv' /\ CommitIsOfItsVersion'
  BY NothingMoves
<1>2. StreamInv'
  BY DEF DaemonInv, StreamInv, streamVars
<1>3. TasksInv'
  <2>1. CASE tasks' = tasks
    BY <2>1 DEF DaemonInv, TasksInv, streamVars
  <2>2. ASSUME NEW kind \in {"verify", "rebuild"}, NEW keys \in SUBSET Symbols, NEW sweeps \in BOOLEAN,
               tasks' = Append(tasks, NewTask(kind, keys, sweeps))
        PROVE  TasksInv'
    <3>1. NewTask(kind, keys, sweeps) \in Task /\ NewTask(kind, keys, sweeps).kind = kind
      BY NewTaskTyped
    <3> QED
      BY <2>2, <3>1, TaskAppended DEF DaemonInv, streamVars
  <2> QED
    BY <2>1, <2>2
<1> QED
  BY <1>1, <1>2, <1>3 DEF DaemonInv

\* The worker is at the latest version, the model at the one last generated from.
LEMMA RestartStep ==
    ASSUME DaemonInv, Restart
    PROVE  DaemonInv'
<1>1. /\ version' = Latest /\ stream' = "idle" /\ batch' = NoBatch /\ position' = committed.version
      /\ model' = snapshot.tree /\ modelVersion' = committed.version /\ label' = snapshot.label
      /\ tasks' = <<>> /\ UNCHANGED <<history, snapshot, committed>>
      /\ "rebuild" \in spoiled => "rebuild" \in spoiled'
  BY DEF Restart
<1>2. Latest \in Nat /\ version <= Latest /\ version \in Nat /\ committed.version \in Nat
  BY LenProperties DEF DaemonInv, StreamInv, VersionsInv, Latest
<1>3. TasksInv'
  BY <1>1, EmptySeq DEF TasksInv
<1>4. StreamInv'
  BY <1>1, <1>2 DEF DaemonInv, StreamInv, NoBatch
<1>5. VersionsInv'
  BY <1>1, <1>2 DEF DaemonInv, VersionsInv, Latest
<1>6. RecordsInv'
  BY <1>1, <1>2 DEF DaemonInv, RecordsInv
<1>7. CommitIsOfItsVersion'
  BY <1>1 DEF DaemonInv, CommitIsOfItsVersion, Free
<1> QED
  BY <1>3, <1>4, <1>5, <1>6, <1>7 DEF DaemonInv

\* The daemon is what it was, and the sweep and its callers have asked for an update or not.
LEMMA SweepAsks ==
    ASSUME DaemonInv, SweepTyped, Sweep \/ VerifyNow
    PROVE  DaemonInv'
<1>1. CASE StepStarts \/ ReadKey \/ Interrupted \/ Compare \/ ThrownAway \/ StepCounts
           \/ ReadOrder \/ OrderUnread \/ ListEnds
  BY <1>1, AskStep DEF StepStarts, ReadKey, Interrupted, Compare, ThrownAway, StepCounts,
                       ReadOrder, OrderUnread, ListEnds, daemonVars
<1>2. ASSUME NEW keys \in SUBSET Symbols, AskUpdate(keys) PROVE DaemonInv'
  BY <1>2, AskStep DEF AskUpdate
<1>3. CASE Update
  BY <1>2, <1>3 DEF Update, SweepTyped
<1>4. CASE OrderRead
  <2>1. {Order} \in SUBSET Symbols
    <3>1. Order \in Symbols
      BY DEF Symbols
    <3> QED
      BY <3>1
  <2>2. CASE AskUpdate({Order})
    BY <1>2, <2>1, <2>2
  <2>3. CASE UNCHANGED <<history, version, streamVars, daemonVars, spoiled>>
    BY <2>3, AskStep DEF daemonVars
  <2> QED
    BY <1>4, <2>2, <2>3 DEF OrderRead
<1>5. CASE VerifyNow
  <2>1. PICK s \in Symbols : tasks' = Append(tasks, NewTask("verify", {s}, FALSE))
    BY <1>5 DEF VerifyNow
  <2> QED
    BY <1>5, <2>1, AskStep DEF VerifyNow
<1> QED
  BY <1>1, <1>3, <1>4, <1>5 DEF Sweep

\* Every step keeps what concerns the daemon.
LEMMA DaemonStep ==
    ASSUME DaemonInv, SweepTyped, [Next]_vars
    PROVE  DaemonInv'
<1>1. CASE CheckIn \/ GetChanges \/ AnswerLost \/ NothingRecorded \/ BatchArrives
  BY <1>1, CheckInStep, GetChangesStep, AnswerStep
<1>2. CASE Host \/ TaskFails \/ GenerationFails
  BY <1>2, RefusedStep, RefreshStep, EventsAppliedStep, ApplyEndsStep, VerifyEndsStep, RebuildEndsStep,
     TaskFailsStep, GenerationFailsStep DEF Host
<1>3. CASE AskRebuild
  BY <1>3, AskStep DEF AskRebuild
<1>4. CASE Hold \/ Release
  BY <1>4, AskStep DEF Hold, Release
<1>5. CASE Restart
  BY <1>5, RestartStep
<1>6. CASE Sweep \/ VerifyNow
  BY <1>6, SweepAsks
<1>7. CASE UNCHANGED vars
  BY <1>7, AskStep DEF vars, daemonVars
<1> QED
  BY <1>1, <1>2, <1>3, <1>4, <1>5, <1>6, <1>7 DEF Next

-----------------------------------------------------------------------------
(* The sweep.                                                                *)

\* The keys of a step are symbols.
LEMMA NextKeysTyped ==
    ASSUME SweepTyped
    PROVE  NextKeys \subseteq Symbols
<1>1. cursor.phase \in 1..3 /\ cursor.phase \in DOMAIN Lists
  BY VerifierAssumption DEF SweepTyped
<1>2. Lists[cursor.phase] \subseteq Symbols
  BY <1>1 DEF Symbols, Range
<1> QED
  BY <1>2 DEF NextKeys, After

\* No step is in progress.
LEMMA NoStepTyped ==
    /\ DOMAIN NoStep = SweepFields /\ DOMAIN NoStep.got = {} /\ NoStep.found = {}
    /\ NoStep.pc = "idle"
<1>1. DOMAIN <<>> = {}
  OBVIOUS
<1> QED
  BY <1>1 DEF NoStep, SweepFields

\* A step over some keys has read none of them.
LEMMA StepOverTyped ==
    ASSUME NEW keys
    PROVE  /\ DOMAIN StepOver(keys) = SweepFields /\ DOMAIN StepOver(keys).got = keys
           /\ StepOver(keys).found = {} /\ StepOver(keys).pc = "reading"
           /\ StepOver(keys).base = model /\ \A k \in keys : StepOver(keys).got[k] = Waiting
  BY DEF StepOver, SweepFields

\* What the end of a task makes of the step: no step, one it has run inside of, or one that
\* is not at its reads.
LEMMA FinishedEffect ==
    ASSUME SweepTyped, NEW w, Finished(w)
    PROVE  /\ \/ sweep' = NoStep
              \/ sweep' = [sweep EXCEPT !.overtaken = TRUE]
              \/ sweep' = sweep /\ sweep.pc \notin {"reading", "compared"}
           /\ cursor' \in {[phase |-> 2, key |-> 0], cursor}
<1>1. sweep' = NoStep \/ sweep' = Overtaken
  BY DEF Finished
<1>2. cursor' \in {[phase |-> 2, key |-> 0], cursor}
  BY DEF Finished
<1> QED
  BY <1>1, <1>2 DEF Overtaken

\* The step and the cursor are what they are, whatever is done.
LEMMA SweepTypedStep ==
    ASSUME SweepTyped, [Next]_vars
    PROVE  SweepTyped'
<1>1. CASE UNCHANGED <<sweep, cursor>>
  BY <1>1 DEF SweepTyped, Keys
<1>2. ASSUME NEW w, Finished(w) PROVE SweepTyped'
  <2>1. DOMAIN cursor' = {"phase", "key"} /\ cursor'.phase \in 1..3
    BY <1>2, FinishedEffect DEF SweepTyped, Keys
  <2>2. DOMAIN sweep' = SweepFields /\ DOMAIN sweep'.got \subseteq Symbols /\ sweep'.found \subseteq Symbols
    BY <1>2, FinishedEffect, NoStepTyped DEF SweepTyped, Keys, SweepFields
  <2> QED
    BY <2>1, <2>2 DEF SweepTyped, Keys
<1>3. ASSUME sweep' = NoStep, cursor' = cursor \/ cursor' = [phase |-> 2, key |-> 0] PROVE SweepTyped'
  BY <1>3, NoStepTyped DEF SweepTyped, Keys
<1>4. CASE StepStarts
  BY <1>4, StepOverTyped, NextKeysTyped DEF StepStarts, SweepTyped, Keys
<1>5. CASE ReadKey
  BY <1>5 DEF ReadKey, SweepTyped, Keys, SweepFields
<1>6. CASE Compare
  BY <1>6 DEF Compare, SweepTyped, Keys, SweepFields
<1>7. CASE StepCounts
  <2>1. DOMAIN cursor' = {"phase", "key"} /\ cursor'.phase \in 1..3
    BY <1>7 DEF StepCounts, SweepTyped, Keys
  <2>2. sweep' = NoStep \/ sweep' = [sweep EXCEPT !.pc = "counted"]
    BY <1>7 DEF StepCounts, Counted
  <2> QED
    BY <2>1, <2>2, NoStepTyped DEF SweepTyped, Keys, SweepFields
<1>8. CASE Update
  BY <1>8 DEF Update, SweepTyped, Keys, SweepFields
<1>9. {Order} \subseteq Symbols
  BY DEF Symbols
<1>10. CASE ReadOrder
  <2> DEFINE over == StepOver({Order})
  <2>1. /\ sweep' = [over EXCEPT !.pc = "ordering", !.got[Order] = Record(Order, version)]
        /\ cursor' = cursor
    BY <1>10 DEF ReadOrder
  <2>2. DOMAIN over = SweepFields /\ DOMAIN over.got = {Order} /\ over.found = {}
    BY StepOverTyped
  <2> HIDE DEF over
  <2>3. DOMAIN sweep' = SweepFields /\ DOMAIN sweep'.got = {Order} /\ sweep'.found = {}
    BY <2>1, <2>2 DEF SweepFields
  <2> QED
    BY <1>9, <2>1, <2>3 DEF SweepTyped, Keys
<1>11. CASE OrderRead
  <2>1. CASE sweep' = [sweep EXCEPT !.pc = "updating", !.found = {Order}] /\ cursor' = cursor
    BY <1>9, <2>1 DEF SweepTyped, Keys, SweepFields
  <2> QED
    BY <1>3, <1>11, <2>1 DEF OrderRead
<1>12. CASE ListEnds
  BY <1>12 DEF ListEnds, SweepTyped, Keys
<1>13. CASE Interrupted \/ ThrownAway \/ OrderUnread \/ Restart
  BY <1>3, <1>13 DEF Interrupted, ThrownAway, OrderUnread, Restart
<1>16. CASE EventsApplied
  <2>1. sweep' \in {sweep, [sweep EXCEPT !.overtaken = TRUE]} /\ cursor' = cursor
    BY <1>16 DEF EventsApplied, Overtaken
  <2> QED
    BY <2>1 DEF SweepTyped, Keys, SweepFields
<1>14. CASE Refused \/ ApplyEnds \/ VerifyEnds \/ RebuildEnds \/ TaskFails \/ GenerationFails
  BY <1>2, <1>14 DEF Refused, ApplyEnds, VerifyEnds, RebuildEnds, TaskFails, GenerationFails
<1>15. CASE CheckIn \/ GetChanges \/ AnswerLost \/ NothingRecorded \/ BatchArrives \/ Refresh
            \/ AskRebuild \/ Hold \/ Release \/ VerifyNow \/ UNCHANGED vars
  BY <1>1, <1>15 DEF CheckIn, GetChanges, AnswerLost, NothingRecorded, BatchArrives, Refresh,
                     AskRebuild, Hold, Release, VerifyNow, vars
<1> QED
  BY <1>4, <1>5, <1>6, <1>7, <1>8, <1>10, <1>11, <1>12, <1>13, <1>14, <1>15, <1>16
     DEF Next, Host, Sweep

\* A step that is not at its reads, or that a task has run inside of, claims nothing.
LEMMA SweepElsewhere ==
    ASSUME sweep'.pc \notin {"reading", "compared"} \/ sweep'.overtaken
    PROVE  SweepInv'
  BY DEF SweepInv

\* A step left alone stays what it was: the versions only grow, and the model changes only
\* under a task that is not over.
LEMMA SweepStill ==
    ASSUME DaemonInv, SweepInv, sweep' = sweep, modelVersion' = modelVersion,
           version' \in Nat, version <= version',
           \A u \in 1..Latest : history'[u] = history[u],
           tasks' = <<>> => tasks = <<>> /\ model' = model
    PROVE  SweepInv'
<1>1. /\ version \in Nat /\ modelVersion \in Nat /\ modelVersion <= version /\ version <= Latest
      /\ Latest \in Nat
  BY LenProperties DEF DaemonInv, VersionsInv, StreamInv, Latest
<1>2. ~Moved' => ~Moved
  BY <1>1 DEF Moved
<1>3. \A u \in 1..modelVersion : history'[u] = history[u]
  BY <1>1
<1>4. ASSUME NEW k PROVE RecordIn(history', k, modelVersion) = RecordIn(history, k, modelVersion)
  <2>1. 1 <= modelVersion
    BY DEF DaemonInv, VersionsInv
  <2> QED
    BY <1>1, <1>3, <2>1, RecordKept
<1>5. ASSUME NEW k PROVE Record(k, modelVersion)' = Record(k, modelVersion)
  <2>1. LastChange(k, modelVersion)' = LastIn(history', k, modelVersion)
        /\ LastChange(k, modelVersion) = LastIn(history, k, modelVersion)
    BY DEF LastChange, LastIn
  <2>2. Record(k, modelVersion)' = RecordIn(history', k, modelVersion)
        /\ Record(k, modelVersion) = RecordIn(history, k, modelVersion)
    BY <2>1 DEF Record, RecordIn
  <2> QED
    BY <1>4, <2>2
<1> QED
  <2>1. CASE sweep.pc = "reading"
    BY <1>2, <1>5, <2>1 DEF SweepInv, Keys
  <2>2. CASE sweep.pc # "reading"
    BY <1>2, <2>2 DEF SweepInv, WasRead
  <2> QED
    BY <2>1, <2>2

\* The reads of a step are at the worker's version: the model's, if that is where it is.
LEMMA ReadKeyStep ==
    ASSUME SweepTyped, SweepInv, ReadKey
    PROVE  SweepInv'
<1>1. /\ sweep.pc = "reading" /\ UNCHANGED <<history, version, daemonVars>>
      /\ \E k \in Keys : \/ sweep' = [sweep EXCEPT !.got[k] = Record(k, version)]
                         \/ sweep' = [sweep EXCEPT !.got[k] = Unread]
  BY DEF ReadKey
<1>2. PICK k \in Keys : \E r \in {Record(k, version), Unread} : sweep' = [sweep EXCEPT !.got[k] = r]
  BY <1>1
<1>3. PICK r \in {Record(k, version), Unread} : sweep' = [sweep EXCEPT !.got[k] = r]
  BY <1>2
<1>4. /\ sweep'.pc = sweep.pc /\ sweep'.base = sweep.base /\ sweep'.overtaken = sweep.overtaken
      /\ DOMAIN sweep'.got = DOMAIN sweep.got /\ sweep'.got[k] = r
      /\ \A j \in DOMAIN sweep.got : j # k => sweep'.got[j] = sweep.got[j]
  BY <1>3 DEF SweepTyped, SweepFields, Keys
<1>5. modelVersion' = modelVersion /\ Moved' = Moved /\ tasks' = tasks /\ model' = model
  BY <1>1 DEF daemonVars, modelVars, Moved
<1>6. ASSUME NEW j PROVE Record(j, modelVersion)' = Record(j, modelVersion)
  BY <1>1, <1>5 DEF Record, LastChange
<1>7. ~Moved => r \in {Unread, Record(k, modelVersion)}
  BY <1>3 DEF Moved
<1>8. ~sweep.overtaken /\ ~Moved =>
         \A j \in DOMAIN sweep.got : sweep'.got[j] \in {Waiting, Unread, Record(j, modelVersion)}
  BY <1>1, <1>4, <1>7 DEF SweepInv, Keys
<1> QED
  BY <1>1, <1>4, <1>5, <1>6, <1>8 DEF SweepInv, Keys

\* The model the reads are compared with is the one the step began with, and what is stale
\* in it is what the reads found.
LEMMA CompareStep ==
    ASSUME SweepTyped, SweepInv, Compare
    PROVE  SweepInv'
<1>1. /\ sweep.pc = "reading" /\ tasks = <<>> /\ \A k \in Keys : sweep.got[k] # Waiting
      /\ sweep' = [sweep EXCEPT !.pc = "compared", !.found = {k \in Keys : Differs(k)},
                                !.stale = {k \in Keys : model[k] # Record(k, modelVersion)}]
      /\ UNCHANGED <<history, version, daemonVars>>
  BY DEF Compare, Idle, Busy
<1>2. /\ sweep'.pc = "compared" /\ sweep'.overtaken = sweep.overtaken /\ sweep'.got = sweep.got
      /\ sweep'.found = {k \in Keys : Differs(k)}
      /\ sweep'.stale = {k \in Keys : model[k] # Record(k, modelVersion)}
  BY <1>1 DEF SweepTyped, SweepFields
<1>3. Moved' = Moved
  BY <1>1 DEF Moved, daemonVars, modelVars
<1>4. SUFFICES ASSUME ~sweep.overtaken, ~Moved
               PROVE  {k \in Keys : Differs(k)} =
                          {k \in {j \in Keys : model[j] # Record(j, modelVersion)} : WasRead(k)}
  BY <1>2, <1>3 DEF SweepInv, WasRead
<1>5. sweep.base = model /\ (\A k \in Keys : model[k] # Gone) /\ \A k \in Keys : sweep.got[k] \in {Unread, Record(k, modelVersion)}
  BY <1>1, <1>4 DEF SweepInv
<1>6. \A k \in Keys : Differs(k) <=> model[k] # Record(k, modelVersion) /\ WasRead(k)
  BY <1>5 DEF Differs, Held, IsStale, Told, WasRead
<1> QED
  BY <1>6

\* Every step keeps what concerns the sweep.
LEMMA SweepStep ==
    ASSUME IInv, [Next]_vars
    PROVE  SweepInv'
<1>1. /\ SweepTyped /\ SweepInv /\ DaemonInv
      /\ history \in Seq(Changes) /\ version \in Nat /\ version <= Latest /\ Latest \in Nat
  BY LenProperties DEF IInv, DaemonInv, StreamInv, VersionsInv, Latest
<1>2. ASSUME sweep' = NoStep PROVE SweepInv'
  BY <1>2, NoStepTyped, SweepElsewhere
<1>3. ASSUME sweep' \in {NoStep, Overtaken} PROVE SweepInv'
  <2>1. CASE sweep' = [sweep EXCEPT !.overtaken = TRUE]
    <3>1. sweep'.overtaken
      BY <1>1, <2>1 DEF SweepTyped, SweepFields
    <3> QED
      BY <3>1, SweepElsewhere
  <2> QED
    BY <1>2, <1>3, <2>1, SweepElsewhere DEF Overtaken
<1>4. ASSUME UNCHANGED <<sweep, modelVersion, version, history>>,
             tasks' = <<>> => tasks = <<>> /\ model' = model
      PROVE  SweepInv'
  BY <1>1, <1>4, SweepStill
<1>5. CASE CheckIn
  <2>1. \A u \in 1..Latest : history'[u] = history[u]
    BY <1>1, <1>5, CheckInGrows DEF DaemonInv, Latest
  <2>2. UNCHANGED <<sweep, modelVersion, version, tasks, model>>
    BY <1>5 DEF CheckIn, daemonVars, modelVars
  <2> QED
    BY <1>1, <2>1, <2>2, SweepStill
<1>6. CASE GetChanges
  <2>1. /\ sweep' = sweep /\ modelVersion' = modelVersion /\ version' = Latest
        /\ history' = history /\ tasks' = tasks /\ model' = model
    BY <1>6 DEF GetChanges, daemonVars, modelVars
  <2> QED
    BY <1>1, <2>1, SweepStill
<1>7. ASSUME NEW t, tasks' = Append(tasks, t), UNCHANGED <<sweep, modelVersion, version, history>>
      PROVE  SweepInv'
  <2>1. tasks \in Seq(Task)
    BY <1>1 DEF DaemonInv, TasksInv
  <2>2. tasks' # <<>>
    BY <1>7, <2>1
  <2> QED
    BY <1>4, <1>7, <2>2
<1>8. CASE BatchArrives \/ AskRebuild \/ VerifyNow
  BY <1>7, <1>8 DEF BatchArrives, AskRebuild, VerifyNow, modelVars
<1>9. CASE Refresh
  <2>1. /\ UNCHANGED <<sweep, modelVersion, version, history>>
        /\ \E s : tasks' = [tasks EXCEPT ![1].todo = @ \ {s}]
    BY <1>9 DEF Refresh
  <2>2. 1 \in DOMAIN tasks
    BY <1>1, <1>9, HeadTask DEF Refresh, Running, DaemonInv, TasksInv
  <2>3. tasks' # <<>>
    BY <2>1, <2>2
  <2> QED
    BY <1>4, <2>1, <2>3
<1>10. CASE AnswerLost \/ NothingRecorded \/ Hold \/ Release \/ ListEnds \/ UNCHANGED vars
  BY <1>4, <1>10 DEF AnswerLost, NothingRecorded, Hold, Release, ListEnds, vars, daemonVars, modelVars
<1>11. CASE Interrupted \/ ThrownAway \/ OrderUnread \/ Restart
  BY <1>2, <1>11 DEF Interrupted, ThrownAway, OrderUnread, Restart
<1>12. CASE Refused \/ ApplyEnds \/ VerifyEnds \/ RebuildEnds \/ TaskFails \/ GenerationFails \/ EventsApplied
  BY <1>3, <1>12 DEF Refused, ApplyEnds, VerifyEnds, RebuildEnds, TaskFails, GenerationFails, EventsApplied,
                     Finished
<1>13. CASE StepStarts
  <2>1. sweep' = StepOver(NextKeys) /\ model' = model
    BY <1>13 DEF StepStarts, daemonVars, modelVars
  <2> DEFINE next == NextKeys
  <2>2. /\ sweep'.pc = "reading" /\ sweep'.base = model /\ DOMAIN sweep'.got = next
        /\ \A k \in next : sweep'.got[k] = Waiting
    BY <2>1, StepOverTyped
  <2>3. \A k \in next : model[k] # Gone
    BY DEF NextKeys, After
  <2> QED
    BY <2>1, <2>2, <2>3 DEF SweepInv, Keys
<1>14. CASE ReadKey
  BY <1>1, <1>14, ReadKeyStep
<1>15. CASE Compare
  BY <1>1, <1>15, CompareStep
<1>16. CASE StepCounts
  <2>1. sweep' = NoStep \/ sweep' = [sweep EXCEPT !.pc = "counted"]
    BY <1>16 DEF StepCounts, Counted
  <2>2. CASE sweep' = [sweep EXCEPT !.pc = "counted"]
    <3>1. sweep'.pc = "counted"
      BY <1>1, <2>2 DEF SweepTyped, SweepFields
    <3> QED
      BY <3>1, SweepElsewhere
  <2> QED
    BY <1>2, <2>1, <2>2
<1>17. CASE Update \/ OrderRead
  <2>1. \/ sweep' = NoStep
        \/ sweep' = [sweep EXCEPT !.pc = "updating"]
        \/ sweep' = [sweep EXCEPT !.pc = "updating", !.found = {Order}]
    BY <1>17 DEF Update, OrderRead
  <2>2. sweep' # NoStep => sweep'.pc = "updating"
    BY <1>1, <2>1 DEF SweepTyped, SweepFields
  <2> QED
    BY <1>2, <2>2, SweepElsewhere
<1>18. CASE ReadOrder
  <2> DEFINE over == StepOver({Order})
  <2>1. sweep' = [over EXCEPT !.pc = "ordering", !.got[Order] = Record(Order, version)]
    BY <1>18 DEF ReadOrder
  <2>2. DOMAIN over = SweepFields
    BY StepOverTyped
  <2> HIDE DEF over
  <2>3. sweep'.pc = "ordering"
    BY <2>1, <2>2 DEF SweepFields
  <2> QED
    BY <2>3, SweepElsewhere
<1> QED
  BY <1>5, <1>6, <1>8, <1>9, <1>10, <1>11, <1>12, <1>13, <1>14, <1>15, <1>16, <1>17, <1>18
     DEF Next, Host, Sweep

-----------------------------------------------------------------------------
(* The theorems.                                                             *)

\* A daemon that has generated version 1, with nothing to do.
LEMMA InitInv == Init => IInv
<1> SUFFICES ASSUME Init PROVE IInv
  OBVIOUS
<1>1. history = <<NoChange>> /\ history \in Seq(Changes) /\ Len(history) = 1
  BY DEF Init, NoChange, Changes
<1>2. TasksInv
  BY EmptySeq DEF Init, TasksInv
<1>3. StreamInv /\ VersionsInv
  BY <1>1 DEF Init, StreamInv, VersionsInv, NoBatch, Latest
<1>4. \A s \in Symbols : Contents(1)[s] \in Nat /\ Contents(1)[s] <= 1
  BY RecordBound DEF Contents
<1>5. model \in [Symbols -> Nat] /\ model = Contents(1)
  BY <1>4 DEF Init, Contents
<1>6. RecordsInv /\ CommitIsOfItsVersion
  BY <1>4, <1>5 DEF Init, RecordsInv, CommitIsOfItsVersion
<1>7. SweepTyped
  BY NoStepTyped DEF Init, SweepTyped, Keys
<1>8. SweepInv
  BY NoStepTyped DEF Init, SweepInv
<1> QED
  BY <1>2, <1>3, <1>6, <1>7, <1>8 DEF IInv, DaemonInv

\* Every step keeps the invariant.
LEMMA NextInv == IInv /\ [Next]_vars => IInv'
<1> SUFFICES ASSUME IInv, [Next]_vars PROVE IInv'
  OBVIOUS
<1>1. DaemonInv' /\ SweepTyped'
  BY DaemonStep, SweepTypedStep DEF IInv
<1> QED
  BY <1>1, SweepStep DEF IInv

\* The invariant holds throughout.
THEOREM SpecInv == Spec => []IInv
BY InitInv, NextInv, PTL DEF Spec

\* Whatever the poller, the queue, the sweep and its failures do between a commit's reads and
\* the commit, it is of the version it is labelled with.
THEOREM SpecCommitIsOfItsVersion == Spec => []CommitIsOfItsVersion
<1>1. IInv => CommitIsOfItsVersion
  BY DEF IInv, DaemonInv
<1> QED
  BY <1>1, SpecInv, PTL

\* What a step counts was read at the model's version, and nothing else is found.
THEOREM SpecCountedIsEvidence == Spec => CountedIsEvidence
<1>1. IInv /\ [Next]_vars
      => [StepCounts /\ ~sweep.overtaken =>
             sweep.found = {k \in sweep.stale : /\ sweep.got[k] # Unread
                                                /\ k \in Lists[1] \cup Lists[2] => sweep.got[k] # Gone}]_vars
  BY DEF IInv, SweepInv, StepCounts, WasRead
<1> QED
  BY <1>1, SpecInv, PTL DEF Spec, CountedIsEvidence

-----------------------------------------------------------------------------
(* The types.                                                                *)

Counters ==
    /\ Latest <= MaxVersion /\ held \in BOOLEAN
    /\ spoiled \subseteq {"rebuild", "unpublished"} /\ faults \in 0..MaxFaults

StreamTyped ==
    /\ stream \in {"idle", "answered", "batch"}
    /\ batch \in [upTo : {0} \cup Versions, keys : SUBSET Symbols] /\ position \in Versions

Records == {Gone} \cup Versions

Trees ==
    /\ model \in [Symbols -> Records]
    /\ snapshot \in [tree : [Symbols -> Records], label : Versions]
    /\ committed \in [tree : [Symbols -> Records], version : Versions, label : Versions]

\* A step that reads or compares is over some keys of one list, the last of which it will save.
StepTyped ==
    /\ cursor \in [phase : 1..3, key : Nat]
    /\ sweep.pc \in {"idle", "ordering", "reading", "compared", "counted", "updating"}
    /\ sweep.pc \in {"reading", "compared"} =>
          Keys # {} /\ \E p \in 1..3 : Keys \subseteq Lists[p]

\* A step waits for its update exactly as long as the queue has it, and a batch has its task.
OneTask ==
    /\ sweep.pc = "updating" <=> \E i \in 1..Len(tasks) : tasks[i].sweeps
    /\ \A i, j \in 1..Len(tasks) : tasks[i].sweeps /\ tasks[j].sweeps => i = j
    /\ stream = "batch" => \E i \in 1..Len(tasks) : tasks[i].kind = "apply"

TypesInv == Counters /\ StreamTyped /\ Trees /\ StepTyped /\ OneTask

\* What is ordered between the first commit and the server's last version is a version.
LEMMA VersionsKnown ==
    ASSUME DaemonInv, Latest <= MaxVersion
    PROVE  /\ Latest \in Versions /\ version \in Versions /\ modelVersion \in Versions
           /\ label \in Versions /\ snapshot.label \in Versions /\ committed.version \in Versions
<1>1. Latest \in Nat /\ MaxVersion \in Nat
  BY LenProperties, VerifierAssumption DEF DaemonInv, StreamInv, Latest
<1> QED
  BY <1>1 DEF DaemonInv, VersionsInv, Versions

\* After a step too.
LEMMA VersionsKnownNext ==
    ASSUME DaemonInv', Latest' <= MaxVersion
    PROVE  /\ Latest' \in Versions /\ version' \in Versions /\ modelVersion' \in Versions
           /\ label' \in Versions
<1>1. Latest' \in Nat /\ MaxVersion \in Nat
  BY LenProperties, VerifierAssumption DEF DaemonInv, StreamInv, Latest
<1> QED
  BY <1>1 DEF DaemonInv, VersionsInv, Versions

\* Finitely many numbers have a bound: of those that can be numbered without one, the
\* numbering that is shortest has one up to its last.
LEMMA Bounded ==
    ASSUME NEW S \in SUBSET Nat, IsFiniteSet(S)
    PROVE  \E b \in Nat : S \subseteq 0..b
<1> DEFINE R == OpToRel(<, Nat)
           Above(f, n, b) == \E i \in 1..n : f[i] > b
           Unbounded(n) == \E f \in [1..n -> Nat] : \A b \in Nat : Above(f, n, b)
           T == {n \in Nat : Unbounded(n)}
<1>1. \A n \in Nat : ~Unbounded(n)
  <2>1. SUFFICES ASSUME NEW n \in Nat, Unbounded(n) PROVE FALSE
    OBVIOUS
  <2>2. \E x \in T : \A y \in T : ~ (<<y, x>> \in R)
    <3>1. IsWellFoundedOn(R, Nat)
      BY NatLessThanWellFounded
    <3> HIDE DEF R, Unbounded
    <3>2. T \subseteq Nat /\ T # {}
      BY <2>1
    <3> HIDE DEF T
    <3> QED
      BY <3>1, <3>2, WFMin
  <2>3. PICK x \in Nat : Unbounded(x) /\ \A y \in Nat : Unbounded(y) => ~ (y < x)
    <3> HIDE DEF Unbounded
    <3> QED
      BY <2>2 DEF OpToRel
  <2> HIDE DEF R, T
  <2>4. PICK f \in [1..x -> Nat] : \A b \in Nat : Above(f, x, b)
    BY <2>3
  <2>5. x # 0
    <3>1. Above(f, x, 0)
      BY <2>4
    <3> QED
      BY <3>1
  <2>6. x - 1 \in Nat /\ x - 1 < x
    BY <2>5
  <2>7. ~Unbounded(x - 1)
    <3> HIDE DEF Unbounded
    <3> QED
      BY <2>3, <2>6
  <2> DEFINE g == [i \in 1..(x - 1) |-> f[i]]
  <2>8. g \in [1..(x - 1) -> Nat]
    BY <2>6
  <2>9. PICK b \in Nat : ~Above(g, x - 1, b)
    <3> HIDE DEF g, Above
    <3> QED
      BY <2>7, <2>8
  <2>10. /\ \A i \in 1..(x - 1) : f[i] \in Nat /\ f[i] <= b
         /\ x \in 1..x /\ f[x] \in Nat /\ \A i \in 1..x : i \in 1..(x - 1) \/ i = x
    <3>1. \A i \in 1..(x - 1) : g[i] = f[i] /\ f[i] \in Nat
      BY <2>6
    <3>2. \A i \in 1..(x - 1) : ~ (g[i] > b)
      BY <2>9
    <3> QED
      BY <2>5, <3>1, <3>2
  <2> DEFINE c == IF f[x] <= b THEN b ELSE f[x]
  <2>11. c \in Nat /\ \A i \in 1..x : ~ (f[i] > c)
    BY <2>10
  <2> QED
    BY <2>4, <2>11
<1>2. PICK n \in Nat : ExistsSurjection(1..n, S)
  BY FS_NatSurjection
<1>3. PICK f \in [1..n -> S] : \A s \in S : \E i \in 1..n : f[i] = s
  BY <1>2 DEF ExistsSurjection, Surjection
<1>4. f \in [1..n -> Nat]
  BY <1>3
<1>5. PICK b \in Nat : ~Above(f, n, b)
  <2> HIDE DEF Above
  <2> QED
    BY <1>1, <1>4
<1>6. ASSUME NEW s \in S PROVE s \in 0..b
  <2>1. PICK i \in 1..n : f[i] = s
    BY <1>3
  <2> QED
    BY <1>5, <2>1
<1> QED
  BY <1>6

\* The last key of a step is one.
LEMMA LastKey ==
    ASSUME NEW p \in 1..3, NEW S \in SUBSET Lists[p], S # {}
    PROVE  Max(S) \in Nat
<1>1. Lists[p] \subseteq Nat \ {0} /\ IsFiniteSet(Lists[p])
  BY VerifierAssumption
<1>2. PICK b \in Nat : Lists[p] \subseteq 0..b
  BY <1>1, Bounded
<1>3. S \in SUBSET (1..b)
  BY <1>1, <1>2
<1>4. Max(S) \in S
  BY <1>3, MaxOfUpTo
<1> QED
  BY <1>1, <1>4

\* The end of a task leaves a place in the stream, a cursor, and a step that is one or none.
LEMMA FinishedTyped ==
    ASSUME StreamTyped, StepTyped, SweepTyped, TasksInv, Busy, stream = "batch" => batch.upTo \in Versions,
           NEW w, Finished(w)
    PROVE  StreamTyped' /\ StepTyped'
<1>1. StreamTyped'
  <2>1. \/ /\ stream = "batch" /\ stream' = "idle" /\ batch' = NoBatch
           /\ position' \in {position, batch.upTo}
        \/ UNCHANGED streamVars
    BY TaskEnds
  <2> QED
    BY <2>1 DEF StreamTyped, NoBatch, streamVars
<1>2. StepTyped'
  <2>1. cursor' \in [phase : 1..3, key : Nat]
    BY FinishedEffect DEF StepTyped
  <2>2. \/ sweep' = NoStep
        \/ sweep'.pc = sweep.pc /\ sweep'.got = sweep.got
    BY FinishedEffect DEF SweepTyped, SweepFields
  <2> QED
    BY <2>1, <2>2, NoStepTyped DEF StepTyped, Keys
<1> QED
  BY <1>1, <1>2

\* Bounds and flags.
LEMMA CountersStep ==
    ASSUME DaemonInv, Counters, [Next]_vars
    PROVE  Counters'
<1> USE DEF Fault
<1>1. MaxVersion \in Nat /\ MaxFaults \in Nat
  BY VerifierAssumption
<1> DEFINE Flags(s) == s \subseteq {"rebuild", "unpublished"}
<1>2. held \in BOOLEAN /\ Flags(spoiled)
  BY DEF Counters
<1>3. ASSUME UNCHANGED history, held' \in BOOLEAN, Flags(spoiled'), UNCHANGED faults \/ Fault
      PROVE  Counters'
  <2>1. faults' \in 0..MaxFaults
    BY <1>1, <1>3 DEF Counters
  <2> QED
    BY <1>3, <2>1 DEF Counters, Latest
<1>4. CASE CheckIn
  <2>1. Len(history') = Len(history) + 1 /\ Len(history) \in Nat
    BY <1>4, CheckInGrows, LenProperties DEF DaemonInv, StreamInv
  <2> QED
    BY <1>1, <1>4, <2>1 DEF CheckIn, daemonVars, Counters, Latest
<1>5. CASE GetChanges \/ AnswerLost \/ NothingRecorded \/ BatchArrives
  BY <1>2, <1>3, <1>5 DEF GetChanges, AnswerLost, NothingRecorded, BatchArrives, daemonVars
<1>6. CASE Refused \/ Refresh \/ EventsApplied \/ ApplyEnds \/ VerifyEnds
  <2>1. UNCHANGED <<history, held>> /\ (UNCHANGED faults \/ Fault) /\ spoiled' \subseteq spoiled
    BY <1>6 DEF Refused, Refresh, EventsApplied, ApplyEnds, VerifyEnds, Publish
  <2> QED
    BY <1>2, <1>3, <2>1
<1>7. CASE RebuildEnds \/ TaskFails \/ GenerationFails
  <2>1. /\ UNCHANGED <<history, held>> /\ (UNCHANGED faults \/ Fault)
        /\ spoiled' \subseteq spoiled \cup {"rebuild", "unpublished"}
    BY <1>7 DEF RebuildEnds, TaskFails, GenerationFails
  <2> QED
    BY <1>2, <1>3, <2>1
<1>8. CASE AskRebuild \/ Hold \/ Release \/ Restart \/ VerifyNow
  <2>1. /\ UNCHANGED history /\ held' \in {held, TRUE, FALSE} /\ (UNCHANGED faults \/ Fault)
        /\ spoiled' \subseteq spoiled
    BY <1>8 DEF AskRebuild, Hold, Release, Restart, VerifyNow
  <2> QED
    BY <1>2, <1>3, <2>1
<1>9. CASE Sweep
  <2>1. UNCHANGED <<history, held, spoiled>> /\ (UNCHANGED faults \/ Fault)
    BY <1>9 DEF Sweep, StepStarts, ReadKey, Interrupted, Compare, ThrownAway, StepCounts, Update,
                AskUpdate, ReadOrder, OrderRead, OrderUnread, ListEnds, daemonVars
  <2> QED
    BY <1>2, <1>3, <2>1
<1>10. CASE UNCHANGED vars
  BY <1>2, <1>3, <1>10 DEF vars, daemonVars
<1> QED
  BY <1>4, <1>5, <1>6, <1>7, <1>8, <1>9, <1>10 DEF Next, Host

\* What is read is a version, and what is saved or committed was read.
LEMMA TreesStep ==
    ASSUME DaemonInv, DaemonInv', Latest <= MaxVersion, Latest' <= MaxVersion, Trees, [Next]_vars
    PROVE  Trees'
<1>1. /\ version \in Versions /\ modelVersion' \in Versions /\ label' \in Versions
      /\ snapshot.label \in Versions /\ committed.version \in Versions
  BY VersionsKnown, VersionsKnownNext
<1>2. ASSUME UNCHANGED <<model, snapshot, committed>> PROVE Trees'
  BY <1>2 DEF Trees
<1>3. ASSUME model' = model, Save PROVE model' \in [Symbols -> Records]
                                        /\ snapshot' \in [tree : [Symbols -> Records], label : Versions]
  BY <1>1, <1>3 DEF Save, Trees
<1>4. CASE Refresh
  <2>1. PICK s \in Head(tasks).todo : model' = model \/ model' = [model EXCEPT ![s] = Reread(s)]
    BY <1>4 DEF Refresh
  <2>2. Reread(s) \in Records
    <3>1. version \in Nat /\ 1 <= version /\ version <= MaxVersion /\ MaxVersion \in Nat
      BY <1>1, VerifierAssumption DEF Versions
    <3>2. Record(s, version) \in Nat /\ Record(s, version) <= version
      BY <3>1, RecordBound
    <3>3. Record(s, version) \in Records
      BY <3>1, <3>2 DEF Records, Versions, Gone
    <3>4. s \in Symbols
      BY <1>4, HeadTask DEF Refresh, Running, DaemonInv, Task
    <3> QED
      BY <3>3, <3>4 DEF Reread, Trees, Records
  <2> QED
    BY <1>4, <2>1, <2>2 DEF Refresh, Trees
<1>5. CASE ApplyEnds \/ VerifyEnds
  <2>1. \/ UNCHANGED <<model, snapshot, committed>>
        \/ model' = model /\ \E v \in {modelVersion'} : Publish(v)
    BY <1>5 DEF ApplyEnds, VerifyEnds
  <2>2. ASSUME model' = model, Publish(modelVersion') PROVE Trees'
    <3>1. Save /\ committed' = [tree |-> model, version |-> modelVersion', label |-> label']
      BY <2>2 DEF Publish
    <3> QED
      BY <1>1, <1>3, <2>2, <3>1 DEF Trees
  <2> QED
    BY <1>2, <2>1, <2>2
<1>6. CASE RebuildEnds
  <2>1. /\ model' = model /\ Save
        /\ committed' = [tree |-> model, version |-> modelVersion', label |-> label']
    BY <1>6 DEF RebuildEnds
  <2> QED
    BY <1>1, <1>3, <2>1 DEF Trees
<1>7. CASE GenerationFails \/ TaskFails
  <2>1. model' = model /\ (Save \/ UNCHANGED snapshot) /\ committed' = committed
    BY <1>7 DEF GenerationFails, TaskFails
  <2> QED
    BY <1>2, <1>3, <2>1 DEF Trees
<1>8. CASE Restart
  BY <1>8 DEF Restart, Trees
<1>9. CASE CheckIn \/ GetChanges \/ AnswerLost \/ NothingRecorded \/ BatchArrives \/ Refused \/ EventsApplied
           \/ AskRebuild \/ Hold \/ Release \/ VerifyNow \/ UNCHANGED vars
  BY <1>2, <1>9 DEF CheckIn, GetChanges, AnswerLost, NothingRecorded, BatchArrives, Refused, EventsApplied,
                    AskRebuild, Hold, Release, VerifyNow, vars, daemonVars, modelVars
<1>10. CASE Sweep
  BY <1>2, <1>10 DEF Sweep, StepStarts, ReadKey, Interrupted, Compare, ThrownAway, StepCounts, Update,
                     AskUpdate, ReadOrder, OrderRead, OrderUnread, ListEnds, daemonVars, modelVars
<1> QED
  BY <1>4, <1>5, <1>6, <1>7, <1>8, <1>9, <1>10 DEF Next, Host

\* The stream's answers are of the worker's version.
LEMMA StreamTypedStep ==
    ASSUME DaemonInv, DaemonInv', Latest <= MaxVersion, Latest' <= MaxVersion,
           Trees, StreamTyped, StepTyped, SweepTyped, [Next]_vars
    PROVE  StreamTyped'
<1>1. /\ version \in Versions /\ Latest \in Versions /\ committed.version \in Versions
      /\ stream # "idle" => batch.upTo \in Versions
  BY VersionsKnown DEF DaemonInv, StreamInv
<1>2. ASSUME UNCHANGED streamVars PROVE StreamTyped'
  BY <1>2 DEF StreamTyped, streamVars
<1>3. ASSUME stream' = "idle", batch' = NoBatch, position' \in Versions PROVE StreamTyped'
  BY <1>3 DEF StreamTyped, NoBatch
<1>4. CASE GetChanges
  <2>1. batch'.keys \subseteq Symbols
    BY DEF DaemonInv, StreamInv
  <2>2. /\ stream' = "answered" /\ position' = position
        /\ \E K : batch' = [upTo |-> Latest, keys |-> K]
    BY <1>4 DEF GetChanges
  <2> QED
    BY <1>1, <2>1, <2>2 DEF StreamTyped
<1>5. CASE AnswerLost \/ NothingRecorded
  BY <1>1, <1>3, <1>5 DEF AnswerLost, NothingRecorded, StreamTyped
<1>6. CASE BatchArrives
  BY <1>6 DEF BatchArrives, StreamTyped
<1>7. CASE Refused \/ ApplyEnds \/ VerifyEnds \/ RebuildEnds \/ TaskFails \/ GenerationFails
  <2>1. Busy /\ \E w \in BOOLEAN : Finished(w)
    BY <1>7 DEF Refused, ApplyEnds, VerifyEnds, RebuildEnds, TaskFails, GenerationFails, Publishing, Running
  <2> QED
    BY <1>1, <2>1, FinishedTyped DEF DaemonInv
<1>8. CASE Restart
  BY <1>1, <1>3, <1>8 DEF Restart
<1>9. CASE CheckIn \/ Refresh \/ EventsApplied \/ AskRebuild \/ Hold \/ Release \/ VerifyNow \/ UNCHANGED vars
  BY <1>2, <1>9 DEF CheckIn, Refresh, EventsApplied, AskRebuild, Hold, Release, VerifyNow, vars
<1>10. CASE Sweep
  BY <1>2, <1>10 DEF Sweep, StepStarts, ReadKey, Interrupted, Compare, ThrownAway, StepCounts, Update,
                     AskUpdate, ReadOrder, OrderRead, OrderUnread, ListEnds
<1> QED
  BY <1>4, <1>5, <1>6, <1>7, <1>8, <1>9, <1>10 DEF Next, Host

\* A step's keys are those of the list the cursor is in, and it saves the last of them.
LEMMA StepTypedStep ==
    ASSUME DaemonInv, StreamTyped, StepTyped, SweepTyped, Latest <= MaxVersion, [Next]_vars
    PROVE  StepTyped'
<1>1. ASSUME UNCHANGED <<sweep, cursor>> PROVE StepTyped'
  BY <1>1 DEF StepTyped, Keys
<1>2. ASSUME sweep' = NoStep, cursor' \in [phase : 1..3, key : Nat] PROVE StepTyped'
  BY <1>2, NoStepTyped DEF StepTyped, Keys
<1>3. [phase |-> 2, key |-> 0] \in [phase : 1..3, key : Nat] /\ cursor \in [phase : 1..3, key : Nat]
  BY DEF StepTyped
<1>4. CASE StepStarts
  <2>1. cursor.phase \in 1..3
    BY DEF StepTyped
  <2>2. NextKeys \subseteq Lists[cursor.phase]
    BY DEF NextKeys, After
  <2>3. sweep' = StepOver(NextKeys) /\ NextKeys # {} /\ cursor' = cursor
    BY <1>4 DEF StepStarts
  <2>4. sweep'.pc = "reading" /\ DOMAIN sweep'.got = NextKeys
    BY <2>3, StepOverTyped
  <2> QED
    BY <1>3, <2>1, <2>2, <2>3, <2>4 DEF StepTyped, Keys
<1>5. CASE ReadKey
  <2>1. /\ \E k \in Keys : \E r : sweep' = [sweep EXCEPT !.got[k] = r]
        /\ cursor' = cursor
    BY <1>5 DEF ReadKey
  <2>2. sweep'.pc = sweep.pc /\ DOMAIN sweep'.got = DOMAIN sweep.got
    BY <2>1 DEF SweepTyped, SweepFields
  <2> QED
    BY <1>3, <2>1, <2>2 DEF StepTyped, Keys
<1>6. CASE Compare
  <2>1. sweep.pc = "reading" /\ sweep'.pc = "compared" /\ sweep'.got = sweep.got /\ cursor' = cursor
    BY <1>6 DEF Compare, SweepTyped, SweepFields
  <2> QED
    BY <1>3, <2>1 DEF StepTyped, Keys
<1>7. CASE StepCounts
  <2>1. Max(Keys) \in Nat
    BY <1>7, LastKey DEF StepCounts, StepTyped
  <2>2. cursor' \in [phase : 1..3, key : Nat]
    BY <1>3, <1>7, <2>1 DEF StepCounts
  <2>3. CASE sweep' = [sweep EXCEPT !.pc = "counted"]
    <3>1. sweep'.pc = "counted"
      BY <2>3 DEF SweepTyped, SweepFields
    <3> QED
      BY <2>2, <3>1 DEF StepTyped
  <2> QED
    BY <1>2, <1>7, <2>2, <2>3 DEF StepCounts, Counted
<1>8. CASE Update \/ OrderRead
  <2>1. \/ sweep' = NoStep
        \/ sweep' = [sweep EXCEPT !.pc = "updating"]
        \/ sweep' = [sweep EXCEPT !.pc = "updating", !.found = {Order}]
    BY <1>8 DEF Update, OrderRead
  <2>2. cursor' \in [phase : 1..3, key : Nat]
    BY <1>3, <1>8 DEF Update, OrderRead
  <2>3. sweep' # NoStep => sweep'.pc = "updating"
    BY <2>1 DEF SweepTyped, SweepFields
  <2>4. CASE sweep'.pc = "updating"
    BY <2>2, <2>4 DEF StepTyped
  <2> QED
    BY <1>2, <2>2, <2>3, <2>4
<1>9. CASE ReadOrder
  <2> DEFINE over == StepOver({Order})
  <2>1. sweep' = [over EXCEPT !.pc = "ordering", !.got[Order] = Record(Order, version)] /\ cursor' = cursor
    BY <1>9 DEF ReadOrder
  <2>2. DOMAIN over = SweepFields
    BY StepOverTyped
  <2> HIDE DEF over
  <2>3. sweep'.pc = "ordering"
    BY <2>1, <2>2 DEF SweepFields
  <2> QED
    BY <1>3, <2>1, <2>3 DEF StepTyped
<1>10. CASE ListEnds
  <2>1. sweep' = sweep /\ cursor' \in [phase : 1..3, key : Nat]
    BY <1>10 DEF ListEnds
  <2> QED
    BY <2>1 DEF StepTyped, Keys
<1>11. CASE Interrupted \/ ThrownAway \/ OrderUnread \/ Restart
  BY <1>2, <1>3, <1>11 DEF Interrupted, ThrownAway, OrderUnread, Restart
<1>12. CASE Refused \/ ApplyEnds \/ VerifyEnds \/ RebuildEnds \/ TaskFails \/ GenerationFails
  <2>1. Busy /\ \E w \in BOOLEAN : Finished(w)
    BY <1>12 DEF Refused, ApplyEnds, VerifyEnds, RebuildEnds, TaskFails, GenerationFails, Publishing, Running
  <2>2. stream = "batch" => batch.upTo \in Versions
    BY VersionsKnown DEF DaemonInv, StreamInv
  <2> QED
    BY <2>1, <2>2, FinishedTyped DEF DaemonInv
<1>14. CASE EventsApplied
  <2>1. sweep'.pc = sweep.pc /\ sweep'.got = sweep.got /\ cursor' = cursor
    BY <1>14 DEF EventsApplied, Overtaken, SweepTyped, SweepFields
  <2> QED
    BY <2>1 DEF StepTyped, Keys
<1>13. CASE CheckIn \/ GetChanges \/ AnswerLost \/ NothingRecorded \/ BatchArrives \/ Refresh
            \/ AskRebuild \/ Hold \/ Release \/ VerifyNow \/ UNCHANGED vars
  BY <1>1, <1>13 DEF CheckIn, GetChanges, AnswerLost, NothingRecorded, BatchArrives, Refresh,
                     AskRebuild, Hold, Release, VerifyNow, vars
<1> QED
  BY <1>4, <1>5, <1>6, <1>7, <1>8, <1>9, <1>10, <1>11, <1>12, <1>13, <1>14 DEF Next, Host, Sweep

\* A task is put at the end: a step's own, when no step has one, or another.
LEMMA OneAppended ==
    ASSUME TasksInv, OneTask, NEW t \in Task, tasks' = Append(tasks, t),
           \/ t.sweeps = FALSE /\ (sweep'.pc = "updating" <=> sweep.pc = "updating")
           \/ t.sweeps = TRUE /\ sweep'.pc = "updating" /\ sweep.pc # "updating",
           stream' = "batch" => stream = "batch" \/ t.kind = "apply"
    PROVE  OneTask'
<1>1. /\ Len(tasks') = Len(tasks) + 1 /\ Len(tasks) \in Nat
      /\ \A i \in 1..Len(tasks) : i \in 1..Len(tasks') /\ tasks'[i] = tasks[i]
      /\ Len(tasks) + 1 \in 1..Len(tasks') /\ tasks'[Len(tasks) + 1] = t
  BY AppendProperties, LenProperties DEF TasksInv
<1>2. \A i \in 1..Len(tasks') : i \in 1..Len(tasks) \/ i = Len(tasks) + 1
  BY <1>1
<1>3. sweep'.pc = "updating" <=> \E i \in 1..Len(tasks') : tasks'[i].sweeps
  BY <1>1, <1>2 DEF OneTask
<1>4. ASSUME NEW i \in 1..Len(tasks'), NEW j \in 1..Len(tasks'), tasks'[i].sweeps, tasks'[j].sweeps
      PROVE  i = j
  <2>1. CASE t.sweeps = TRUE
    <3>1. \A k \in 1..Len(tasks) : ~tasks[k].sweeps
      BY <2>1 DEF OneTask
    <3> QED
      BY <1>1, <1>2, <1>4, <3>1
  <2>2. CASE t.sweeps = FALSE
    BY <1>1, <1>2, <1>4, <2>2 DEF OneTask
  <2> QED
    BY <2>1, <2>2
<1>5. stream' = "batch" => \E i \in 1..Len(tasks') : tasks'[i].kind = "apply"
  BY <1>1 DEF OneTask
<1> QED
  BY <1>3, <1>4, <1>5 DEF OneTask

\* The queue holds what it held, a record of its head's read or not.
LEMMA OneStill ==
    ASSUME OneTask, Len(tasks') = Len(tasks),
           \A i \in 1..Len(tasks) : tasks'[i].kind = tasks[i].kind /\ tasks'[i].sweeps = tasks[i].sweeps,
           sweep'.pc = "updating" <=> sweep.pc = "updating",
           stream' = "batch" => stream = "batch"
    PROVE  OneTask'
  BY DEF OneTask

\* The task at the head is over, and the step that waited for it with it.
LEMMA OneEnds ==
    ASSUME TasksInv, SweepTyped, OneTask, Busy, NEW w, Finished(w)
    PROVE  OneTask'
<1>1. /\ tasks' = Tail(tasks)
      /\ Head(tasks).kind = "apply" => stream' = "idle"
      /\ Head(tasks).kind # "apply" => stream' = stream
  BY DEF Finished, streamVars
<1>2. Len(tasks') = Len(tasks) - 1 /\ \A i \in 1..Len(tasks') : tasks'[i] = tasks[i + 1]
  BY <1>1, HeadTailProperties DEF TasksInv, Busy
<1>3. Len(tasks) \in Nat /\ Len(tasks) >= 1 /\ Head(tasks) = tasks[1] /\ Head(tasks) \in Task
  BY HeadTask
<1>4. /\ \A i \in 1..Len(tasks') : i + 1 \in 1..Len(tasks) /\ i + 1 # 1
      /\ \A k \in 1..Len(tasks) : k # 1 => k - 1 \in 1..Len(tasks') /\ (k - 1) + 1 = k
  BY <1>2, <1>3
<1>5. 1 \in 1..Len(tasks) /\ Head(tasks).sweeps \in BOOLEAN
  BY <1>3 DEF Task
<1>6. sweep'.pc = "updating" <=> \E i \in 1..Len(tasks') : tasks'[i].sweeps
  <2>1. CASE Head(tasks).sweeps
    <3>1. sweep.pc = "updating"
      BY <1>3, <1>5, <2>1 DEF OneTask
    <3>3. sweep' = NoStep
      BY <2>1 DEF Finished
    <3>4. \A k \in 1..Len(tasks) : tasks[k].sweeps => k = 1
      BY <1>3, <1>5, <2>1 DEF OneTask
    <3> QED
      BY <1>2, <1>4, <3>3, <3>4, NoStepTyped
  <2>2. CASE ~Head(tasks).sweeps
    <3>1. sweep' = IF sweep.pc \in {"reading", "compared"} THEN [sweep EXCEPT !.overtaken = TRUE] ELSE sweep
      BY <2>2 DEF Finished, Overtaken
    <3>2. sweep'.pc = sweep.pc
      BY <3>1 DEF SweepTyped, SweepFields
    <3>3. (\E k \in 1..Len(tasks) : tasks[k].sweeps) <=> \E i \in 1..Len(tasks') : tasks'[i].sweeps
      <4>1. ASSUME NEW k \in 1..Len(tasks), tasks[k].sweeps
            PROVE  \E i \in 1..Len(tasks') : tasks'[i].sweeps
        <5>1. k # 1
          BY <1>3, <2>2, <4>1
        <5>2. k - 1 \in 1..Len(tasks') /\ tasks'[k - 1] = tasks[k]
          BY <1>2, <1>4, <5>1
        <5> QED
          BY <4>1, <5>2
      <4>2. \A i \in 1..Len(tasks') : i + 1 \in 1..Len(tasks) /\ tasks'[i] = tasks[i + 1]
        BY <1>2, <1>4
      <4> QED
        BY <4>1, <4>2
    <3> QED
      BY <3>2, <3>3 DEF OneTask
  <2> QED
    BY <2>1, <2>2
<1>7. ASSUME NEW i \in 1..Len(tasks'), NEW j \in 1..Len(tasks'), tasks'[i].sweeps, tasks'[j].sweeps
      PROVE  i = j
  <2>1. i + 1 = j + 1
    BY <1>2, <1>4, <1>7 DEF OneTask
  <2>2. i \in Int /\ j \in Int
    OBVIOUS
  <2> QED
    BY <2>1, <2>2
<1>8. stream' = "batch" => \E i \in 1..Len(tasks') : tasks'[i].kind = "apply"
  <2>1. SUFFICES ASSUME stream' = "batch" PROVE \E i \in 1..Len(tasks') : tasks'[i].kind = "apply"
    OBVIOUS
  <2>2. Head(tasks).kind # "apply" /\ stream = "batch"
    BY <1>1, <2>1
  <2>3. PICK k \in 1..Len(tasks) : tasks[k].kind = "apply"
    BY <2>2 DEF OneTask
  <2>4. k # 1
    BY <1>3, <2>2, <2>3
  <2>5. k - 1 \in 1..Len(tasks') /\ (k - 1) + 1 = k
    BY <1>4, <2>4
  <2>6. tasks'[k - 1] = tasks[k]
    BY <1>2, <2>5
  <2> QED
    BY <2>3, <2>5, <2>6
<1> QED
  BY <1>6, <1>7, <1>8 DEF OneTask

\* A step has a task in the queue exactly while it waits for one.
LEMMA OneTaskStep ==
    ASSUME DaemonInv, SweepTyped, OneTask, [Next]_vars
    PROVE  OneTask'
<1>1. TasksInv
  BY DEF DaemonInv
<1>2. ASSUME tasks' = tasks, sweep'.pc = "updating" <=> sweep.pc = "updating",
             stream' = "batch" => stream = "batch"
      PROVE  OneTask'
  BY <1>2, OneStill
<1>3. CASE CheckIn \/ GetChanges \/ AnswerLost \/ NothingRecorded \/ Hold \/ Release \/ ListEnds
           \/ UNCHANGED vars
  <2>1. tasks' = tasks /\ sweep' = sweep /\ (stream' = "batch" => stream = "batch")
    BY <1>3 DEF CheckIn, GetChanges, AnswerLost, NothingRecorded, Hold, Release, ListEnds,
                streamVars, daemonVars, vars
  <2> QED
    BY <1>2, <2>1
<1>4. ASSUME NEW kind \in {"apply", "verify", "rebuild"}, NEW keys \in SUBSET Symbols,
             tasks' = Append(tasks, NewTask(kind, keys, FALSE)),
             sweep' = sweep, stream' = "batch" => stream = "batch" \/ kind = "apply"
      PROVE  OneTask'
  <2> DEFINE t == NewTask(kind, keys, FALSE)
  <2>1. t \in Task /\ t.kind = kind /\ t.sweeps = FALSE
    BY NewTaskTyped DEF NewTask
  <2> HIDE DEF t
  <2> QED
    BY <1>1, <1>4, <2>1, OneAppended DEF t
<1>5. CASE BatchArrives
  <2>1. batch.keys \in SUBSET Symbols
    BY DEF DaemonInv, StreamInv
  <2> QED
    <3>1. tasks' = Append(tasks, NewTask("apply", batch.keys, FALSE)) /\ sweep' = sweep
      BY <1>5 DEF BatchArrives
    <3> QED
      BY <1>4, <2>1, <3>1
<1>6. CASE AskRebuild
  <2>1. /\ tasks' = Append(tasks, NewTask("rebuild", {}, FALSE)) /\ sweep' = sweep
        /\ stream' = stream
    BY <1>6 DEF AskRebuild, streamVars
  <2>2. {} \in SUBSET Symbols
    OBVIOUS
  <2> QED
    BY <1>4, <2>1, <2>2
<1>7. CASE VerifyNow
  <2>1. PICK s \in Symbols : tasks' = Append(tasks, NewTask("verify", {s}, FALSE))
    BY <1>7 DEF VerifyNow
  <2> QED
    BY <1>4, <1>7, <2>1 DEF VerifyNow, streamVars
<1>8. ASSUME NEW keys \in SUBSET Symbols, AskUpdate(keys), sweep.pc # "updating", sweep'.pc = "updating"
      PROVE  OneTask'
  <2> DEFINE t == NewTask("verify", keys, TRUE)
  <2>1. t \in Task /\ t.sweeps = TRUE
    BY NewTaskTyped DEF NewTask
  <2>2. tasks' = Append(tasks, t) /\ stream' = stream
    BY <1>8 DEF AskUpdate, streamVars
  <2> HIDE DEF t
  <2> QED
    BY <1>1, <1>8, <2>1, <2>2, OneAppended
<1>9. CASE Update
  BY <1>8, <1>9 DEF Update, SweepTyped, SweepFields
<1>10. CASE OrderRead
  <2>1. CASE AskUpdate({Order}) /\ sweep' = [sweep EXCEPT !.pc = "updating", !.found = {Order}]
    <3>1. {Order} \in SUBSET Symbols
      BY DEF Symbols
    <3>2. sweep'.pc = "updating" /\ sweep.pc # "updating"
      BY <1>10, <2>1 DEF OrderRead, SweepTyped, SweepFields
    <3> QED
      BY <1>8, <2>1, <3>1, <3>2
  <2>2. CASE sweep' = NoStep /\ UNCHANGED <<streamVars, daemonVars>>
    <3>1. tasks' = tasks /\ stream' = stream /\ sweep.pc # "updating" /\ sweep'.pc # "updating"
      BY <1>10, <2>2, NoStepTyped DEF OrderRead, streamVars, daemonVars
    <3> QED
      BY <1>2, <3>1
  <2> QED
    BY <1>10, <2>1, <2>2 DEF OrderRead
<1>11. CASE Interrupted \/ ThrownAway \/ OrderUnread
  <2>1. tasks' = tasks /\ stream' = stream /\ sweep.pc # "updating" /\ sweep'.pc # "updating"
    BY <1>11, NoStepTyped DEF Interrupted, ThrownAway, OrderUnread, streamVars, daemonVars
  <2> QED
    BY <1>2, <2>1
<1>12. CASE StepStarts \/ ReadOrder
  <2>1. tasks' = tasks /\ stream' = stream /\ sweep.pc # "updating"
    BY <1>12 DEF StepStarts, ReadOrder, streamVars, daemonVars
  <2>2. CASE StepStarts
    BY <1>2, <2>1, <2>2, StepOverTyped DEF StepStarts
  <2>3. CASE ReadOrder
    <3> DEFINE over == StepOver({Order})
    <3>1. sweep' = [over EXCEPT !.pc = "ordering", !.got[Order] = Record(Order, version)]
      BY <2>3 DEF ReadOrder
    <3>2. DOMAIN over = SweepFields
      BY StepOverTyped
    <3> HIDE DEF over
    <3>3. sweep'.pc = "ordering"
      BY <3>1, <3>2 DEF SweepFields
    <3> QED
      BY <1>2, <2>1, <3>3
  <2> QED
    BY <1>12, <2>2, <2>3
<1>13. CASE ReadKey \/ Compare \/ StepCounts
  <2>1. tasks' = tasks /\ stream' = stream /\ sweep.pc \in {"reading", "compared"}
    BY <1>13 DEF ReadKey, Compare, StepCounts, streamVars, daemonVars
  <2>2. sweep'.pc # "updating"
    <3>1. CASE ReadKey
      <4>1. \E k, r : sweep' = [sweep EXCEPT !.got[k] = r]
        BY <3>1 DEF ReadKey
      <4> QED
        BY <2>1, <4>1 DEF SweepTyped, SweepFields
    <3>2. CASE Compare
      BY <3>2 DEF Compare, SweepTyped, SweepFields
    <3>3. CASE StepCounts
      <4>1. sweep' = NoStep \/ sweep' = [sweep EXCEPT !.pc = "counted"]
        BY <3>3 DEF StepCounts, Counted
      <4> QED
        BY <4>1, NoStepTyped DEF SweepTyped, SweepFields
    <3> QED
      BY <1>13, <3>1, <3>2, <3>3
  <2> QED
    BY <1>2, <2>1, <2>2
<1>14. CASE Refresh
  <2>1. tasks \in Seq(Task) /\ 1 \in 1..Len(tasks) /\ tasks[1] \in Task
    BY <1>1, <1>14, HeadTask DEF Refresh, Running, TasksInv
  <2>2. /\ sweep' = sweep /\ stream' = stream
        /\ \E s : tasks' = [tasks EXCEPT ![1].todo = @ \ {s}]
    BY <1>14 DEF Refresh, streamVars
  <2>3. /\ Len(tasks') = Len(tasks)
        /\ \A i \in 1..Len(tasks) : tasks'[i].kind = tasks[i].kind /\ tasks'[i].sweeps = tasks[i].sweeps
    BY <2>1, <2>2 DEF Task
  <2> QED
    BY <2>2, <2>3, OneStill
<1>17. CASE EventsApplied
  <2>1. tasks' = tasks /\ stream' = stream /\ sweep'.pc = sweep.pc
    BY <1>17 DEF EventsApplied, Overtaken, streamVars, SweepTyped, SweepFields
  <2> QED
    BY <1>2, <2>1
<1>15. CASE Restart
  <2>1. tasks' = <<>> /\ sweep'.pc = "idle" /\ stream' = "idle"
    BY <1>15, NoStepTyped DEF Restart
  <2> QED
    BY <2>1 DEF OneTask
<1>16. CASE Refused \/ ApplyEnds \/ VerifyEnds \/ RebuildEnds \/ TaskFails \/ GenerationFails
  <2>1. Busy /\ \E w \in BOOLEAN : Finished(w)
    BY <1>16 DEF Refused, ApplyEnds, VerifyEnds, RebuildEnds, TaskFails, GenerationFails, Publishing, Running
  <2> QED
    BY <1>1, <2>1, OneEnds
<1> QED
  BY <1>3, <1>5, <1>6, <1>7, <1>9, <1>10, <1>11, <1>12, <1>13, <1>14, <1>15, <1>16, <1>17
     DEF Next, Host, Sweep

\* The types hold at first.
LEMMA InitTypes == Init => TypesInv
<1> SUFFICES ASSUME Init PROVE TypesInv
  OBVIOUS
<1>1. 1 \in Versions /\ MaxVersion \in Nat /\ MaxFaults \in Nat
  BY VerifierAssumption DEF Versions
<1>2. Contents(1) \in [Symbols -> Records]
  <2>1. ASSUME NEW s \in Symbols PROVE Record(s, 1) \in Records
    <3>1. Record(s, 1) \in {0, 1}
      BY RecordBound
    <3> QED
      BY <1>1, <3>1 DEF Records, Gone
  <2> QED
    BY <2>1 DEF Contents
<1>3. Counters
  <2>1. Len(history) = 1 /\ 1 <= MaxVersion
    BY <1>1 DEF Init, Versions
  <2>2. held \in BOOLEAN /\ spoiled = {} /\ faults = 0
    BY DEF Init
  <2> QED
    BY <1>1, <2>1, <2>2 DEF Counters, Latest
<1>4. StreamTyped
  BY <1>1 DEF Init, StreamTyped, NoBatch
<1>5. Trees
  BY <1>1, <1>2 DEF Init, Trees
<1>6. StepTyped
  BY NoStepTyped DEF Init, StepTyped
<1>7. OneTask
  <2>1. tasks = <<>> /\ sweep.pc = "idle" /\ stream = "idle"
    BY NoStepTyped DEF Init
  <2> QED
    BY <2>1 DEF OneTask
<1> QED
  BY <1>3, <1>4, <1>5, <1>6, <1>7 DEF TypesInv

\* Every step keeps them.
LEMMA NextTypes == IInv /\ TypesInv /\ [Next]_vars => IInv' /\ TypesInv'
<1> SUFFICES ASSUME IInv, TypesInv, [Next]_vars PROVE IInv' /\ TypesInv'
  OBVIOUS
<1>1. IInv' /\ DaemonInv /\ DaemonInv' /\ SweepTyped
  BY NextInv DEF IInv
<1>2. Counters /\ StreamTyped /\ Trees /\ StepTyped /\ OneTask
  BY DEF TypesInv
<1>3. Counters'
  BY <1>1, <1>2, CountersStep
<1>4. Latest <= MaxVersion /\ Latest' <= MaxVersion
  BY <1>2, <1>3 DEF Counters
<1>5. Trees' /\ StreamTyped' /\ StepTyped'
  BY <1>1, <1>2, <1>4, TreesStep, StreamTypedStep, StepTypedStep
<1>6. OneTask'
  BY <1>1, <1>2, OneTaskStep
<1> QED
  BY <1>1, <1>3, <1>5, <1>6 DEF TypesInv

\* What is in the queue of one kind, or of none, is counted.
LEMMA TypesCount ==
    ASSUME IInv, TypesInv
    PROVE  TypeOK
<1>1. DaemonInv /\ SweepTyped /\ TasksInv /\ StreamInv
  BY DEF IInv, DaemonInv
<1>2. Counters /\ StreamTyped /\ Trees /\ StepTyped /\ OneTask
  BY DEF TypesInv
<1>3. /\ Latest \in Versions /\ version \in Versions /\ version <= Latest
      /\ modelVersion \in Versions /\ label \in Versions
  BY <1>1, <1>2, VersionsKnown DEF Counters, DaemonInv, VersionsInv
<1>4. version \in 1..Latest
  BY <1>3 DEF Versions
<1>5. history \in Seq(CheckIns \cup {NoChange})
  BY <1>1 DEF StreamInv, Changes
<1>6. Cardinality({i \in 1..Len(tasks) : tasks[i].sweeps}) = (IF sweep.pc = "updating" THEN 1 ELSE 0)
  <2> DEFINE S == {i \in 1..Len(tasks) : tasks[i].sweeps}
  <2>1. CASE sweep.pc = "updating"
    <3>1. PICK i \in S : TRUE
      BY <1>2, <2>1 DEF OneTask
    <3>2. S = {i}
      BY <1>2, <3>1 DEF OneTask
    <3> QED
      BY <2>1, <3>2, FS_Singleton
  <2>2. CASE sweep.pc # "updating"
    <3>1. S = {}
      BY <1>2, <2>2 DEF OneTask
    <3> QED
      BY <2>2, <3>1, FS_EmptySet
  <2> QED
    BY <2>1, <2>2
<1>7. Cardinality({i \in 1..Len(tasks) : tasks[i].kind = "apply"}) = (IF stream = "batch" THEN 1 ELSE 0)
  <2> DEFINE S == {i \in 1..Len(tasks) : tasks[i].kind = "apply"}
  <2>1. CASE stream = "batch"
    <3>1. PICK i \in S : TRUE
      BY <1>2, <2>1 DEF OneTask
    <3>2. S = {i}
      BY <1>1, <3>1 DEF TasksInv
    <3> QED
      BY <2>1, <3>2, FS_Singleton
  <2>2. CASE stream # "batch"
    <3>1. S = {}
      BY <1>1, <2>2 DEF TasksInv
    <3> QED
      BY <2>2, <3>1, FS_EmptySet
  <2> QED
    BY <2>1, <2>2
<1>8. /\ tasks \in Seq(Task) /\ held \in BOOLEAN
      /\ spoiled \subseteq {"rebuild", "unpublished"} /\ faults \in 0..MaxFaults
  BY <1>1, <1>2 DEF TasksInv, Counters
<1> QED
  BY <1>1, <1>2, <1>3, <1>4, <1>5, <1>6, <1>7, <1>8 DEF TypeOK, StreamTyped, Trees, Records, StepTyped, SweepTyped

\* Server, stream, daemon, queue and sweep are well typed: the queue holds the update of a step
\* exactly while the step waits for it, and one task for the batch in hand.
THEOREM SpecTypeOK == Spec => []TypeOK
<1>1. Init => IInv /\ TypesInv
  BY InitInv, InitTypes
<1>2. (IInv /\ TypesInv) /\ [Next]_vars => (IInv /\ TypesInv)'
  BY NextTypes
<1>3. IInv /\ TypesInv => TypeOK
  BY TypesCount
<1> QED
  BY <1>1, <1>2, <1>3, PTL DEF Spec

=============================================================================
