----------------------------- MODULE RegenPipeline -----------------------------
(***************************************************************************)
(* From a batch of changes to a committed tree: LiveLoop.applyBatch,       *)
(* rebuildAndPublish, applyStale, foreignRebuild and start of              *)
(* packages/live/src/main.ts, with what they keep on disk (snapshot-       *)
(* model.ts, rebuild.ts, the generator's writeProject).                    *)
(*                                                                         *)
(* A unit is one generated file and the one symbol it is generated from;   *)
(* its content is a number, and a generated text is the content and the    *)
(* generator build it came from.  The journal names the changed unit, the  *)
(* content is read from Ghidra when the batch is applied, so the model may *)
(* be ahead of its position.  Work runs one task at a time (WorkQueue).    *)
(*                                                                         *)
(* A crash may come between any two steps.  The generator writes its files *)
(* one by one into the directory it also reuses text from.                 *)
(***************************************************************************)
EXTENDS Integers, Sequences

CONSTANTS
    Units,
    MaxSeq,         \* bound: changes recorded
    MaxContent,     \* bound: contents of a unit
    MaxBuild,       \* bound: generator builds
    Reinstalled,    \* bound: the builds that may be taken back to
    MaxFaults       \* bound: crashes, failed reads, failed generations and commits

ASSUME PipelineAssumption ==
    /\ {MaxSeq, MaxContent, MaxBuild, MaxFaults} \subseteq Nat
    /\ Units \cap {"snapshot", "placed", "generator"} = {}

VARIABLES
    \* Ghidra, its journal, and the generator installed.
    ghidra, journal, gen,
    \* The daemon's memory.
    phase, task,
    model, modelSeq,    \* the model and model.seq
    label,              \* manifest.provenance.programVersion
    position,           \* the stream's appliedSeq
    batchEnd,           \* highest seq of the batch being applied
    toRead,             \* units of the batch not re-read yet
    hashes,             \* hashCache: the contents the last generation was made from
    buildId, builtWith,
    toEmit,             \* units the generation must write
    childGen,           \* the generator the child process loaded
    watchLast,          \* the <<from, to>> of a watch's rebuild, unless it succeeded
    \* Disk.
    snapshot,           \* the snapshot directory
    place,              \* its label
    state,              \* live-state.json
    staging,            \* the generated tree, also the reuse directory
    committed,          \* the regen branch
    \* History.
    missed,             \* units whose re-read failed and kept the previous record,
                        \* "snapshot" once a crash has lost the snapshot, and "placed" once a
                        \* start took its position from a label ahead of its snapshot
    undone,             \* units an edit took back, and "generator"
    fresh,              \* units written since the state was last saved
    left,               \* units whose text may be of a generation that was never recorded
    failed,             \* the last rebuild failed and nothing is scheduled to repeat it
    faults

envVars == <<ghidra, journal, gen>>
modelVars == <<model, modelSeq, label>>
workVars == <<task, batchEnd, toRead, toEmit, childGen>>
builtVars == <<hashes, buildId, builtWith>>
snapVars == <<snapshot, place>>
diskVars == <<snapVars, state, staging, committed>>
textVars == <<fresh, left>>
vars == <<envVars, phase, modelVars, position, workVars, builtVars,
          watchLast, diskVars, missed, undone, textVars, failed, faults>>

None == -1

Contents == 0..MaxContent
Builds == 0..MaxBuild
Models == [Units -> Contents]
Texts == [content : Contents \cup {None}, gen : Builds \cup {None}]
NoText == [content |-> None, gen |-> None]

Change == [unit : Units, content : Contents]

NoHashes == [u \in Units |-> None]
States == [seq : 0..MaxSeq, hashes : Models \cup {NoHashes}, build : Builds \cup {None}]

\* freshState: what a missing live-state.json is read as.
FreshState == [seq |-> 0, hashes |-> NoHashes, build |-> None]

Phases == {"down", "idle", "applying", "selected", "generating", "generated", "committed"}
Tasks == {"none", "batch", "verify", "watch", "rebuild"}

\* The codegen snapshot the daemon's own was seeded from, taken before any change.
Seed == [u \in Units |-> 0]
Missing == NoHashes

TypeOK ==
    /\ ghidra \in Models /\ journal \in Seq(Change) /\ Len(journal) <= MaxSeq
    /\ gen \in Builds
    /\ phase \in Phases /\ task \in Tasks
    /\ model \in Models /\ modelSeq \in 0..MaxSeq /\ label \in 0..MaxSeq
    /\ position \in 0..MaxSeq /\ batchEnd \in 0..MaxSeq
    /\ toRead \subseteq Units /\ toEmit \subseteq Units
    /\ hashes \in Models \cup {NoHashes}
    /\ buildId \in Builds \cup {None} /\ builtWith \in Builds \cup {None}
    /\ childGen \in Builds \cup {None}
    /\ watchLast \in (Builds \cup {None}) \X (Builds \cup {None})
    /\ snapshot \in Models \cup {Missing} /\ place \in 0..MaxSeq
    /\ state \in States
    /\ staging \in [Units -> Texts] /\ committed \in [Units -> Texts]
    /\ missed \subseteq Units \cup {"snapshot", "placed"} /\ undone \subseteq Units \cup {"generator"}
    /\ fresh \subseteq Units /\ left \subseteq Units /\ failed \in BOOLEAN
    /\ faults \in 0..MaxFaults

Init ==
    /\ ghidra = Seed /\ journal = <<>> /\ gen = 0
    /\ phase = "down" /\ task = "none"
    /\ model = Seed /\ modelSeq = 0 /\ label = 0 /\ position = 0 /\ batchEnd = 0
    /\ toRead = {} /\ toEmit = {} /\ childGen = None
    /\ hashes = NoHashes /\ buildId = None /\ builtWith = None
    /\ watchLast = <<None, None>>
    /\ snapshot = Seed /\ place = 0 /\ state = FreshState
    /\ staging = [u \in Units |-> NoText] /\ committed = [u \in Units |-> NoText]
    /\ missed = {} /\ undone = {} /\ fresh = {} /\ left = {} /\ failed = FALSE /\ faults = 0

Larger(a, b) == IF a > b THEN a ELSE b

Fault == faults < MaxFaults /\ faults' = faults + 1

-----------------------------------------------------------------------------
(* What the daemon does not control.                                       *)

\* Contents are only compared, so a new one is the next number, and an edit undone an earlier.
Edit(u, c) ==
    /\ Len(journal) < MaxSeq
    /\ \/ c = ghidra[u] + 1 /\ UNCHANGED undone
       \/ c < ghidra[u] /\ undone' = undone \cup {u}
    /\ ghidra' = [ghidra EXCEPT ![u] = c]
    /\ journal' = Append(journal, [unit |-> u, content |-> c])
    /\ UNCHANGED <<gen, phase, modelVars, position, workVars, builtVars,
                   watchLast, diskVars, missed, textVars, failed, faults>>

\* A build of the generator, an edit of project.json or of an override.
InstallGenerator(g) ==
    /\ \/ g > gen /\ UNCHANGED undone
       \/ g < gen /\ g \in Reinstalled /\ undone' = undone \cup {"generator"}
    /\ gen' = g
    /\ UNCHANGED <<ghidra, journal, phase, modelVars, position, workVars,
                   builtVars, watchLast, diskVars, missed, textVars, failed, faults>>

-----------------------------------------------------------------------------
(* Taking up a task.                                                       *)

Take(kind, end, units) ==
    /\ phase = "idle"
    /\ phase' = "applying"
    /\ task' = kind
    /\ batchEnd' = end
    /\ toRead' = units
    /\ label' = Larger(label, end)
    /\ UNCHANGED <<envVars, model, modelSeq, position, toEmit, childGen, builtVars,
                   diskVars, missed, undone, textVars, failed, faults>>

\* The stream hands over everything after its resume point up to n, which the model is
\* labelled with before anything is read.
TakeBatch(n) ==
    /\ n \in (position + 1)..Len(journal)
    /\ Take("batch", n, {journal[s].unit : s \in (position + 1)..n})
    /\ UNCHANGED watchLast

\* The verifier's seq-0 events leave model.seq where it is.
TakeStale ==
    /\ \E units \in SUBSET {u \in Units : model[u] # ghidra[u]} :
          units # {} /\ Take("verify", modelSeq, units)
    /\ UNCHANGED watchLast

\* ForeignSourceWatch.check over the generator's inputs: a change whose rebuild failed is
\* not tried again.
TakeWatch ==
    /\ builtWith # gen
    /\ watchLast # <<builtWith, gen>>
    /\ watchLast' = <<builtWith, gen>>
    /\ Take("watch", modelSeq, {})

\* The operator's rebuild.
TakeRebuild == Take("rebuild", modelSeq, {}) /\ UNCHANGED watchLast

-----------------------------------------------------------------------------
(* Applying.                                                               *)

Reread(u) ==
    /\ phase = "applying"
    /\ u \in toRead
    /\ toRead' = toRead \ {u}
    /\ \/ /\ model' = [model EXCEPT ![u] = ghidra[u]]
          /\ UNCHANGED <<missed, faults>>
       \/ /\ Fault              \* "re-extract failed; keeping previous"
          /\ missed' = missed \cup {u}
          /\ UNCHANGED model
    /\ UNCHANGED <<envVars, phase, task, modelSeq, label, position, batchEnd, toEmit, childGen,
                   builtVars, watchLast, diskVars, undone, textVars, failed>>

EndTask ==
    /\ phase' = "idle"
    /\ task' = "none"
    /\ batchEnd' = 0 /\ toRead' = {} /\ toEmit' = {} /\ childGen' = None

\* Variant: a batch that failed counts as handled.
ApplyThrowsHandled ==
    /\ phase = "applying"
    /\ toRead # {}
    /\ Fault
    /\ EndTask
    /\ position' = Larger(position, batchEnd)
    /\ UNCHANGED <<envVars, modelVars, builtVars, watchLast, diskVars, missed, undone, textVars, failed>>

\* applyEvents throws, with some of the batch in the model.  As after any exception, the
\* stream keeps the batch.  (A FactsRefreshError also keeps the daemon from applying anything
\* until it is started again: ApplyThrows, then Crash.)
ApplyThrows ==
    /\ phase = "applying"
    /\ toRead # {}
    /\ Fault
    /\ EndTask
    /\ UNCHANGED <<envVars, modelVars, position, builtVars, watchLast, diskVars, missed, undone,
                   textVars, failed>>

-----------------------------------------------------------------------------
(* rebuildAndPublish.                                                      *)

\* Variant: the fingerprint is recorded and never compared.
TrustedAlways(cache, recorded, now) == cache

\* checkBuild: the hashes may be compared against only if the generator is the one they
\* were recorded under.
Trusted(cache, recorded, now) == IF recorded = now THEN cache ELSE NoHashes

\* selectDirtyUnits: everything without a hash cache, else what moved since it.
Dirty(cache) == {u \in Units : model[u] # cache[u]}

\* guardBuild, then the selection; a missing buildinfo or identifier cache widens it to
\* everything.
GuardAndSelect ==
    /\ phase = "applying"
    /\ toRead = {}
    /\ modelSeq' = Larger(modelSeq, batchEnd)
    /\ hashes' = Trusted(hashes, buildId, gen)
    /\ buildId' = gen
    /\ toEmit' \in {Dirty(hashes'), Units}
    /\ phase' = "selected"
    /\ UNCHANGED <<envVars, task, model, label, position, batchEnd, toRead, childGen, builtWith,
                   watchLast, diskVars, missed, undone, textVars, failed, faults>>

\* Variant: the snapshot is left for later.
SpawnWithoutSaving ==
    /\ phase = "selected"
    /\ childGen' = gen
    /\ phase' = "generating"
    /\ UNCHANGED <<envVars, task, modelVars, position, batchEnd, toRead, toEmit,
                   builtVars, watchLast, diskVars, missed, undone, textVars, failed, faults>>

\* saveSnapshotModel, then the child process, which loads the generator as it is now.
SaveAndSpawn ==
    /\ phase = "selected"
    /\ snapshot' = model /\ place' = label
    /\ childGen' = gen
    /\ phase' = "generating"
    /\ UNCHANGED <<envVars, task, modelVars, position, batchEnd, toRead, toEmit, builtVars,
                   watchLast, state, staging, committed, missed, undone, textVars, failed, faults>>

\* writeProject, one file.
Emit(u) ==
    /\ phase = "generating"
    /\ u \in toEmit
    /\ staging' = [staging EXCEPT ![u] = [content |-> snapshot[u], gen |-> childGen]]
    /\ toEmit' = toEmit \ {u}
    /\ fresh' = fresh \cup {u}
    /\ UNCHANGED <<envVars, phase, task, modelVars, position, batchEnd, toRead, childGen,
                   builtVars, watchLast, snapVars, state, committed, missed, undone, left,
                   failed, faults>>

\* Variant: records the generator installed by now, not the one the guard saw.
GeneratedByLatest ==
    /\ phase = "generating"
    /\ toEmit = {}
    /\ builtWith' = gen
    /\ hashes' = model
    /\ failed' = FALSE
    /\ phase' = "generated"
    /\ UNCHANGED <<envVars, modelVars, position, workVars, buildId, watchLast,
                   diskVars, missed, undone, textVars, faults>>

Generated ==
    /\ phase = "generating"
    /\ toEmit = {}
    /\ builtWith' = buildId
    /\ hashes' = model
    /\ failed' = FALSE
    /\ phase' = "generated"
    /\ UNCHANGED <<envVars, modelVars, position, workVars, buildId, watchLast,
                   diskVars, missed, undone, textVars, faults>>

\* The task is over and its caller was told so: the stream moves past a batch.
Advance == position' = IF task = "batch" THEN Larger(position, batchEnd) ELSE position

\* What was written stays where the next generation reuses it from.
BreaksOff == left' = left \cup fresh /\ fresh' = {}

\* Variant: the hash cache moves although the generation failed.
GenerationFailsBelieved ==
    /\ phase = "generating"
    /\ Fault
    /\ failed' = TRUE
    /\ hashes' = model
    /\ Advance
    /\ EndTask
    /\ BreaksOff
    /\ UNCHANGED <<envVars, modelVars, buildId, builtWith, watchLast, diskVars, missed, undone>>

\* rebuild() answers not ok, having written any of the files.  That is no exception, so the
\* batch is not delivered again.
GenerationFails ==
    /\ phase = "generating"
    /\ Fault
    /\ failed' = TRUE
    /\ Advance
    /\ EndTask
    /\ BreaksOff
    /\ UNCHANGED <<envVars, modelVars, builtVars, watchLast, diskVars, missed, undone>>

\* syncTree and commitRegen: the whole staging tree, reused text included.
Commit ==
    /\ phase = "generated"
    /\ committed' = staging
    /\ phase' = "committed"
    /\ UNCHANGED <<envVars, modelVars, position, workVars, builtVars, watchLast,
                   snapVars, state, staging, missed, undone, textVars, failed, faults>>

CommitThrows ==
    /\ phase = "generated"
    /\ Fault
    /\ failed' = (failed \/ task # "batch")
    /\ EndTask
    /\ UNCHANGED <<envVars, modelVars, position, builtVars, watchLast, diskVars, missed, undone,
                   textVars>>

\* saveLiveState, and the end of the task.
SaveState ==
    /\ phase = "committed"
    /\ state' = [seq |-> modelSeq, hashes |-> hashes, build |-> buildId]
    /\ Advance
    /\ EndTask
    /\ watchLast' = IF task = "watch" THEN <<None, None>> ELSE watchLast
    /\ left' = left \ fresh /\ fresh' = {}
    /\ UNCHANGED <<envVars, modelVars, builtVars, snapVars, staging, committed, missed, undone,
                   failed, faults>>

-----------------------------------------------------------------------------
(* Crashes and starts.                                                     *)

\* Nothing in memory survives.
Down ==
    /\ Fault
    /\ phase' = "down"
    /\ task' = "none"
    /\ batchEnd' = 0 /\ toRead' = {} /\ toEmit' = {} /\ childGen' = None
    /\ model' = Seed /\ modelSeq' = 0 /\ label' = 0 /\ position' = 0
    /\ hashes' = NoHashes /\ buildId' = None /\ builtWith' = None
    /\ watchLast' = <<None, None>>
    /\ BreaksOff
    /\ UNCHANGED <<envVars, staging, committed, undone, failed>>

Crash ==
    /\ phase # "down"
    /\ Down
    /\ UNCHANGED <<snapVars, state, missed>>

\* saveLiveState removes the old file before it renames the new one over it.
CrashSavingState ==
    /\ phase = "committed"
    /\ state' = FreshState
    /\ Down
    /\ UNCHANGED <<snapVars, missed>>

\* So does writeSnapshot with the directory.
CrashSavingSnapshot ==
    /\ phase = "selected"
    /\ snapshot' = Missing /\ place' = 0
    /\ missed' = missed \cup {"snapshot"}
    /\ Down
    /\ UNCHANGED state

\* The model, or a tree of it, holds what change s recorded, or what a later one did.
Folded(s, contents) ==
    \/ journal[s].unit \in missed
    \/ \E t \in s..Len(journal) : /\ journal[t].unit = journal[s].unit
                                  /\ journal[t].content = contents[journal[s].unit]

\* Without a state file a local worker's journal is entered at the snapshot's label.
Placed == IF state = FreshState THEN place ELSE state.seq

StartWith(disk) ==
    /\ phase = "down"
    /\ phase' = "idle"
    /\ snapshot' = disk
    /\ model' = snapshot' /\ modelSeq' = Placed /\ label' = place
    /\ position' = Placed
    /\ missed' = IF state = FreshState /\ \E s \in 1..place : ~Folded(s, snapshot')
                  THEN missed \cup {"placed"} ELSE missed
    /\ hashes' = Trusted(state.hashes, state.build, gen)
    /\ buildId' = gen
    /\ builtWith' = state.build
    /\ watchLast' = <<None, None>>
    /\ UNCHANGED <<envVars, workVars, place, state, staging, committed, undone, textVars, failed, faults>>

\* Variant: seeds at every start.
StartReseeding == StartWith(Seed)

\* start(), over a journal that can serve everything after the position.
Start == StartWith(IF snapshot = Missing THEN Seed ELSE snapshot)

Pipeline ==
    \/ GuardAndSelect \/ SaveAndSpawn \/ Generated \/ Commit \/ SaveState
    \/ \E u \in Units : Reread(u) \/ Emit(u)

Next ==
    \/ \E u \in Units, c \in Contents : Edit(u, c)
    \/ \E g \in Builds : InstallGenerator(g)
    \/ \E n \in 1..MaxSeq : TakeBatch(n)
    \/ TakeStale \/ TakeWatch \/ TakeRebuild
    \/ Pipeline
    \/ ApplyThrows \/ GenerationFails \/ CommitThrows
    \/ Crash \/ CrashSavingState \/ CrashSavingSnapshot
    \/ Start

Spec == Init /\ [][Next]_vars

\* The steps of a task follow each other, the stream delivers what is waiting, the watch
\* polls, and a stopped daemon is started again.
Fairness ==
    /\ WF_vars(Pipeline)
    /\ SF_vars(\E n \in 1..MaxSeq : TakeBatch(n))
    /\ WF_vars(TakeWatch)
    /\ WF_vars(Start)

FairSpec == Spec /\ Fairness

-----------------------------------------------------------------------------
(* Properties.                                                             *)

Lost == "snapshot" \in missed
Misplaced == "placed" \in missed

\* A generation that recorded nothing left a text of the unit, and an edit took the unit back:
\* its hash may match again, and the text is kept (against rebuildAndPublish's "a failed one
\* leaves the previous cache in place and the next attempt re-selects the same units").
Stranded == left \cap undone

\* A tree saved as covering every change recorded holds what Ghidra holds, whichever
\* batches failed, generations broke off or processes died on the way, and whatever was
\* undone meanwhile.  Excepted are a symbol whose re-read failed, left to the verifier; one
\* whose newer text was stranded; a lost snapshot; and a position that was ahead of it.
SavedTreeIsCurrent ==
    state.seq = Len(journal) /\ state # FreshState /\ ~Lost /\ ~Misplaced =>
        \A u \in Units \ (missed \cup Stranded) : committed[u].content = ghidra[u]

\* Text is reused only where generating it again from this model would give its content,
\* through edits undone, failed generations and crashes: the selection misses no unit but a
\* stranded one, unless a lost snapshot threw the model back.
ReuseIsSound ==
    phase = "selected" /\ ~Lost =>
        \A u \in Units \ (toEmit \cup Stranded) : staging[u].content = model[u]

\* rebuildAndPublish's comment: after a failed generation "the next attempt re-selects the
\* same units, rather than believing work was done that was not".  It does not where the edit
\* was undone before that attempt.
FailedUnitsAreReselected ==
    phase = "selected" /\ ~Lost => \A u \in Units \ toEmit : staging[u].content = model[u]

\* A tree mixing the texts of two generators is never recorded as the work of the one
\* installed: the watch, or the next start, re-emits it, unless that one was taken back to.
MixedTreeIsNotTrusted ==
    state.build = gen /\ "generator" \notin undone => \A u \in Units : committed[u].gen = gen

\* live-state.json's seq counts changes that are in the snapshot beside it, unless a crash
\* lost that one, or the position was ahead of it.
SeqFoldedIntoSnapshot == ~Lost /\ ~Misplaced => \A s \in 1..state.seq : Folded(s, snapshot)

\* No commit takes a unit back to a content older than the one it replaces, unless it was
\* edited back, or the snapshot was lost.
CommitsNeverRegress ==
    [][Lost \/ \A u \in Units \ undone : committed'[u].content >= committed[u].content]_vars

\* Every edit, and every new generator, reaches the committed tree, unless the last
\* generation failed, a re-read did, a newer text was stranded, a crash lost the snapshot or
\* the position was ahead of it.  Of a generator taken back to nothing is said.
EverythingReachesTheTree ==
    <>[](failed \/ Lost \/ Misplaced
         \/ \A u \in Units \ (missed \cup Stranded) :
               /\ committed[u].content = ghidra[u]
               /\ "generator" \in undone \/ committed[u].gen = gen)

=============================================================================
