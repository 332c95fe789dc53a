---------------------------- MODULE VersionFollower ----------------------------
(***************************************************************************)
(* The version-keyed change journal: VersionFollower of the local worker   *)
(* (Java), which derives changes from the Ghidra Server's history, and     *)
(* PollingChangeStream of packages/live/src/events.ts, which follows it,   *)
(* with the model reduced to the version each function was last read at.   *)
(*                                                                         *)
(* A version records the functions it touched and what the program then    *)
(* holds: what the callers of each function see of it (`signature`: name,  *)
(* call signature, extent of the body) and everything no event of a symbol *)
(* describes (`layout`: memory map, the set of functions, namespaces, type *)
(* categories).  The worker answers one get_changes at a time, in steps    *)
(* between which the server may move; requests wait in its standard input, *)
(* those whose caller gave up included.                                    *)
(*                                                                         *)
(* `spoiled` is history: what has happened that some property does not     *)
(* survive.  Each property names what it assumes away.                     *)
(*   "update"    a step failed after the checkout was updated: another     *)
(*               check-in was found there, or the comparison threw         *)
(*   "start"     a check-in landed between opening the program at a start  *)
(*               and asking which version it is                            *)
(*   "number"    a version number was given out again after a rollback     *)
(*   "rollback"  a version was rolled back during a step                   *)
(*   "left"      a handler threw after some of its batch was read again    *)
(*   "restored"  a version gave a function back a signature it had before  *)
(***************************************************************************)
EXTENDS Integers, FiniteSets, Sequences, SequencesExt

CONSTANTS
    Functions,      \* a set of positive numbers, their order that of addresses
    Callers,        \* Callers[f]: the functions that call f
    CheckIns,       \* what a check-in may leave on the server
    SeqPerVersion,  \* SEQ_PER_VERSION
    Limit,          \* the page the stream asks for
    MaxEvents,      \* MAX_EVENTS
    Modes,          \* of "remote", "copy", "checkout": how the worker may be started
    MaxVersion,     \* bound: versions on the server
    MaxFaults       \* bound: failures, timeouts, exits, restarts, rollbacks and pauses

ASSUME FollowerAssumption ==
    /\ Functions \subseteq Nat \ {0} /\ IsFiniteSet(Functions)
    /\ Callers \in [Functions -> SUBSET Functions]
    /\ \A c \in CheckIns :
          /\ c.touched \subseteq Functions
          /\ c.signature \in [Functions -> Nat] /\ c.layout \in Nat
    /\ SeqPerVersion \in Nat /\ MaxEvents \in 1..SeqPerVersion - 1
    /\ Limit \in Nat \ {0}
    /\ Modes \subseteq {"remote", "copy", "checkout"} /\ Modes # {}
    /\ MaxVersion \in Nat \ {0} /\ MaxFaults \in Nat

VARIABLES
    history,        \* the server: one record per version
    rolledBack,
    \* The worker process.
    mode, dead,
    openVersion,    \* the version it believes its program is at
    program,        \* the version its program is at
    file,           \* the version of its checkout
    cachedFrom, cachedTo, cachedEvents,
    inbox,          \* requests written to it, the head being answered
    work,           \* where it is in computing one step
    \* The stream.
    stream,         \* "starting", "resuming", "idle", "polling", "batch"
    batch, appliedSeq, paused,
    \* The consumer.
    needsResync,
    readAt,         \* program version of each function's record in the model
    savedSeq, savedReadAt,
    spoiled, faults

serverVars == <<history, rolledBack>>
cacheVars == <<cachedFrom, cachedTo, cachedEvents>>
programVars == <<openVersion, program, file>>
workerVars == <<mode, dead, programVars, cacheVars, inbox, work>>
streamVars == <<stream, batch, appliedSeq, paused>>
modelVars == <<readAt, savedSeq, savedReadAt>>
vars == <<serverVars, workerVars, streamVars, needsResync, modelVars, spoiled, faults>>

Latest == Len(history)
Versions == 1..MaxVersion
VersionOf(seq) == seq \div SeqPerVersion

\* The key of an event that names no function: the consumer resynchronises.
Program == 0
Event == [seq : Nat, key : Functions \cup {Program}, callersUnaffected : BOOLEAN]

Nothing == [touched |-> {}, signature |-> [f \in Functions |-> 0], layout |-> 0]
NoWork == [step |-> "none", from |-> 0, to |-> 0, touched |-> {}]
Work == [step : {"none", "read", "check", "open"}, from : Nat, to : Nat, touched : SUBSET Functions]
Request == [since : Nat, limit : Nat, awaited : BOOLEAN]

TypeOK ==
    /\ history \in Seq(CheckIns \cup {Nothing}) /\ Latest \in Versions /\ rolledBack \in BOOLEAN
    /\ mode \in Modes /\ dead \in BOOLEAN
    /\ openVersion \in Versions /\ program \in Versions /\ file \in Versions
    /\ cachedFrom \in {0} \cup Versions /\ cachedTo \in {0} \cup Versions
    /\ cachedEvents \in Seq(Event)
    /\ inbox \in Seq(Request)
    /\ Cardinality({i \in 1..Len(inbox) : inbox[i].awaited}) <= 1
    /\ work \in Work
    /\ stream \in {"starting", "resuming", "idle", "polling", "batch"}
    /\ batch \in Seq(Event) /\ (batch # <<>> <=> stream = "batch")
    /\ appliedSeq \in Nat /\ savedSeq \in Nat
    /\ paused \in BOOLEAN /\ needsResync \in BOOLEAN
    /\ readAt \in [Functions -> Versions] /\ savedReadAt \in [Functions -> Versions]
    /\ spoiled \subseteq {"update", "start", "number", "rollback", "left", "restored"}
    /\ faults \in 0..MaxFaults

\* A model extracted at version 1 and the position start() gives it.
Init ==
    /\ history = <<Nothing>> /\ rolledBack = FALSE
    /\ mode \in Modes /\ dead = FALSE
    /\ openVersion = 1 /\ program = 1 /\ file = 1
    /\ cachedFrom = 0 /\ cachedTo = 0 /\ cachedEvents = <<>>
    /\ inbox = <<>> /\ work = NoWork
    /\ stream = "starting" /\ batch = <<>> /\ appliedSeq = SeqPerVersion /\ paused = FALSE
    /\ needsResync = FALSE
    /\ readAt = [f \in Functions |-> 1] /\ savedReadAt = readAt /\ savedSeq = SeqPerVersion
    /\ spoiled = {} /\ faults = 0

Fault == faults < MaxFaults /\ faults' = faults + 1

-----------------------------------------------------------------------------
(* The server.                                                             *)

\* A function has a signature again that it had before the one it has now.
Restores(c) ==
    \E f \in c.touched, v \in 1..Latest :
        /\ history[v].signature[f] = c.signature[f]
        /\ history[Latest].signature[f] # c.signature[f]

\* A signature changes only with its function among those touched.
CheckIn ==
    /\ Latest < MaxVersion
    /\ \E c \in CheckIns :
          /\ \A f \in Functions \ c.touched : c.signature[f] = history[Latest].signature[f]
          /\ history' = Append(history, c)
          /\ spoiled' = spoiled \cup (IF rolledBack THEN {"number"} ELSE {})
                                \cup (IF Restores(c) THEN {"restored"} ELSE {})
    /\ UNCHANGED <<rolledBack, workerVars, streamVars, needsResync, modelVars, faults>>

Rollback ==
    /\ Latest > 1
    /\ Fault
    /\ history' = Front(history) /\ rolledBack' = TRUE
    /\ spoiled' = spoiled \cup (IF work # NoWork THEN {"rollback"} ELSE {})
    /\ UNCHANGED <<workerVars, streamVars, needsResync, modelVars>>

\* The records of a range of versions, which the server gives only when it ends at the latest.
ChangeSet(from, to) ==
    IF to = Latest THEN UNION {history[v].touched : v \in (from + 1)..to} ELSE {}

\* The functions a step touched, in the order of their addresses.
InOrder(fs) ==
    CHOOSE s \in [1..Cardinality(fs) -> fs] : \A i, j \in 1..Cardinality(fs) : i < j => s[i] < s[j]

\* translate(): what the change set named, compared in two programs as they are, whatever the
\* versions between them held.  The memory map is compared first, what was added, removed,
\* renamed or moved after the functions: the event that stops the consumer may be the last.
Translate(touched, was, now, to) ==
    LET found == InOrder(touched) \o (IF was.layout # now.layout THEN <<Program>> ELSE <<>>)
        keys == IF Len(found) > MaxEvents THEN <<Program>> ELSE found
    IN  [i \in 1..Len(keys) |->
            [seq |-> to * SeqPerVersion + i,
             key |-> keys[i],
             callersUnaffected |-> /\ keys[i] # Program
                                   /\ was.signature[keys[i]] = now.signature[keys[i]]]]

-----------------------------------------------------------------------------
(* The stream's side of a get_changes.                                     *)

\* Variant: a version without events leaves the position where it is.
PollAnsweredInPlace(events, head, version) ==
    IF head < appliedSeq
    THEN /\ paused' = TRUE /\ needsResync' = TRUE
         /\ stream' = "idle"
         /\ UNCHANGED <<batch, appliedSeq>>
    ELSE /\ batch' = events /\ stream' = (IF events = <<>> THEN "idle" ELSE "batch")
         /\ UNCHANGED <<appliedSeq, paused, needsResync>>

\* pollOnce() with an answer: a head behind the position is a journal it cannot follow, no
\* event moves the position to the version reached, anything else is handed over.
PollAnswered(events, head, version) ==
    IF head < appliedSeq
    THEN /\ paused' = TRUE /\ needsResync' = TRUE
         /\ stream' = "idle"
         /\ UNCHANGED <<batch, appliedSeq>>
    ELSE /\ IF events = <<>>
            THEN /\ appliedSeq' = Max({appliedSeq, version * SeqPerVersion})
                 /\ stream' = "idle" /\ UNCHANGED batch
            ELSE batch' = events /\ stream' = "batch" /\ UNCHANGED appliedSeq
         /\ UNCHANGED <<paused, needsResync>>

\* verifyResume() over a version-keyed journal: a head at or above the position is the proof.
ResumeAnswered(head) ==
    /\ stream' = "idle"
    /\ needsResync' = (needsResync \/ head < appliedSeq)
    /\ UNCHANGED <<batch, appliedSeq, paused>>

\* The caller of the request at the head of the inbox learns that it failed.
CallFailed ==
    /\ stream' = "idle"
    /\ needsResync' = (needsResync \/ stream = "resuming")
    /\ UNCHANGED <<batch, appliedSeq, paused>>

\* The worker writes its answer and is free for the next request.  An answer whose caller
\* gave up is dropped.
Answers(events, head, version) ==
    /\ inbox' = Tail(inbox) /\ work' = NoWork
    /\ IF ~Head(inbox).awaited THEN UNCHANGED <<streamVars, needsResync>>
       ELSE IF stream = "resuming" THEN ResumeAnswered(head)
       ELSE PollAnswered(events, head, version)

-----------------------------------------------------------------------------
(* getChanges() and compute().                                             *)

\* The events after `since`, up to the limit, and the last seq of them all.
Page(events, to, since, limit, version) ==
    LET passed == Cardinality({i \in 1..Len(events) : events[i].seq <= since})
        last == IF events = <<>> THEN to * SeqPerVersion ELSE Last(events).seq
    IN  Answers(SubSeq(events, passed + 1, Min({passed + limit, Len(events)})), last, version)

\* The version a step starts from.
From(since) == IF since <= 0 THEN openVersion ELSE VersionOf(since)

\* Caught up, or ahead of the server: the program moves if it is behind.
AnswerCaughtUp ==
    /\ ~dead /\ inbox # <<>> /\ work.step = "none"
    /\ LET since == Head(inbox).since
           from == From(since)
       IN  /\ from >= Latest
           /\ openVersion' = Max({openVersion, Latest})
           /\ program' = IF openVersion < Latest THEN Latest ELSE program
           /\ file' = IF openVersion < Latest /\ mode = "checkout" THEN Latest ELSE file
           /\ Answers(<<>>,
                      IF from > Latest THEN Latest * SeqPerVersion
                                       ELSE Max({since, Latest * SeqPerVersion}),
                      openVersion')
    /\ UNCHANGED <<serverVars, mode, dead, cacheVars, modelVars, spoiled, faults>>

Cached(from) == from = cachedFrom /\ Latest = cachedTo

AnswerCached ==
    /\ ~dead /\ inbox # <<>> /\ work.step = "none"
    /\ LET asked == Head(inbox)
       IN  /\ From(asked.since) < Latest
           /\ Cached(From(asked.since))
           /\ Page(cachedEvents, cachedTo, asked.since, asked.limit, openVersion)
    /\ UNCHANGED <<serverVars, mode, dead, programVars, cacheVars, modelVars, spoiled, faults>>

StartCompute ==
    /\ ~dead /\ inbox # <<>> /\ work.step = "none"
    /\ LET from == From(Head(inbox).since)
       IN  /\ from < Latest
           /\ ~Cached(from)
           /\ work' = [step |-> "read", from |-> from, to |-> Latest, touched |-> {}]
    /\ UNCHANGED <<serverVars, mode, dead, programVars, cacheVars, inbox, streamVars,
                   needsResync, modelVars, spoiled, faults>>

ReadChangeSet ==
    /\ ~dead /\ work.step = "read"
    /\ work' = [work EXCEPT !.step = "check", !.touched = ChangeSet(work.from, work.to)]
    /\ UNCHANGED <<serverVars, mode, dead, programVars, cacheVars, inbox, streamVars,
                   needsResync, modelVars, spoiled, faults>>

\* Variant: the change set is believed as it was read.
CheckLatestNever ==
    /\ ~dead /\ work.step = "check"
    /\ work' = [work EXCEPT !.step = "open"]
    /\ UNCHANGED <<serverVars, mode, dead, programVars, cacheVars, inbox, streamVars,
                   needsResync, modelVars, spoiled, faults>>

\* A change set is believed only if its end is still the latest version.
CheckLatest ==
    /\ ~dead /\ work.step = "check"
    /\ work' = IF work.to = Latest THEN [work EXCEPT !.step = "open"]
               ELSE [work EXCEPT !.step = "read", !.to = Latest]
    /\ UNCHANGED <<serverVars, mode, dead, programVars, cacheVars, inbox, streamVars,
                   needsResync, modelVars, spoiled, faults>>

\* Variant: always the open program.
OldVersionOpen(from) == program

\* The program the step is compared from: the open one if the step starts there, in a
\* checkout a copy of the file as it is, otherwise that version opened anew.
OldVersion(from) ==
    IF openVersion # from THEN from
    ELSE IF mode = "checkout" THEN file ELSE program

\* Variant: the open program is compared and kept.
NewVersionKept(to) == program

\* The program the step is compared to, which becomes the open one.
NewVersion(to) == IF openVersion = to /\ mode # "checkout" THEN program ELSE to

\* What a program at a version holds, for all the model knows of one the server no longer has.
Contents(version) == IF version <= Latest THEN {history[version]} ELSE CheckIns

OpenAndTranslate ==
    /\ ~dead /\ work.step = "open"
    /\ IF mode = "checkout" THEN work.to = Latest ELSE work.to <= Latest
    /\ \E was \in Contents(OldVersion(work.from)) :
       LET new == NewVersion(work.to)
           events == Translate(work.touched, was, history[new], work.to)
           asked == Head(inbox)
       IN  /\ openVersion' = work.to /\ program' = new
           /\ file' = IF mode = "checkout" THEN work.to ELSE file
           /\ cachedFrom' = work.from /\ cachedTo' = work.to /\ cachedEvents' = events
           /\ Page(events, work.to, asked.since, asked.limit, work.to)
    /\ UNCHANGED <<serverVars, mode, dead, modelVars, spoiled, faults>>

-----------------------------------------------------------------------------
(* What fails in the worker.                                               *)

RepliesFailure ==
    /\ inbox' = Tail(inbox) /\ work' = NoWork
    /\ IF Head(inbox).awaited THEN CallFailed ELSE UNCHANGED <<streamVars, needsResync>>
    /\ UNCHANGED <<serverVars, mode, dead, openVersion, program, cacheVars, modelVars>>

\* The server cannot be read, or a copy cannot be opened.
RequestFails ==
    /\ ~dead /\ inbox # <<>>
    /\ Fault
    /\ RepliesFailure
    /\ UNCHANGED <<file, spoiled>>

\* A version rolled back meanwhile cannot be opened.
OpenFails ==
    /\ ~dead /\ work.step = "open" /\ work.to > Latest
    /\ RepliesFailure
    /\ UNCHANGED <<file, spoiled, faults>>

\* updateCheckout() throws when the checkout is not at the version expected, and translate()
\* may throw after it: the file has moved and the step has not.
UpdateFails ==
    /\ ~dead /\ work.step = "open" /\ mode = "checkout" /\ work.to <= Latest
    /\ (work.to # Latest /\ UNCHANGED faults) \/ Fault
    /\ RepliesFailure
    /\ file' = Latest
    /\ spoiled' = spoiled \cup {"update"}

\* The process exits: every call pending on it is rejected, every later one at once.
WorkerExits ==
    /\ ~dead
    /\ Fault
    /\ dead' = TRUE /\ inbox' = <<>> /\ work' = NoWork
    /\ IF stream \in {"resuming", "polling"} THEN CallFailed ELSE UNCHANGED <<streamVars, needsResync>>
    /\ UNCHANGED <<serverVars, mode, programVars, cacheVars, modelVars, spoiled>>

-----------------------------------------------------------------------------
(* PollingChangeStream and its consumer.                                   *)

Asks(limit) ==
    inbox' = Append(inbox, [since |-> appliedSeq, limit |-> limit, awaited |-> TRUE])

\* start(): prove that the journal can be followed before trusting the saved state.
VerifyResume ==
    /\ stream = "starting"
    /\ Asks(1)
    /\ stream' = "resuming"
    /\ UNCHANGED <<serverVars, mode, dead, programVars, cacheVars, work, batch, appliedSeq,
                   paused, needsResync, modelVars, spoiled, faults>>

Poll ==
    /\ stream = "idle" /\ ~paused /\ ~dead
    /\ Asks(Limit)
    /\ stream' = "polling"
    /\ UNCHANGED <<serverVars, mode, dead, programVars, cacheVars, work, batch, appliedSeq,
                   paused, needsResync, modelVars, spoiled, faults>>

\* The caller gives up; the request stays with the worker.
CallTimesOut ==
    /\ stream \in {"resuming", "polling"}
    /\ Fault
    /\ inbox' = [i \in 1..Len(inbox) |-> [inbox[i] EXCEPT !.awaited = FALSE]]
    /\ CallFailed
    /\ UNCHANGED <<serverVars, mode, dead, programVars, cacheVars, work, modelVars, spoiled>>

\* applyEvents() re-reads what an event names, its callers too unless they are unaffected.
Reached(events) ==
    UNION {IF e.key = Program THEN {}
           ELSE {e.key} \cup (IF e.callersUnaffected THEN {} ELSE Callers[e.key]) :
              e \in {events[i] : i \in 1..Len(events)}}

Reread(fs) == readAt' = [f \in Functions |-> IF f \in fs THEN program ELSE readAt[f]]

EndBatch == stream' = "idle" /\ batch' = <<>>

\* A batch applied.  Its generation, commit and save may still fail; the position moves.
BatchApplied ==
    /\ stream = "batch" /\ ~needsResync
    /\ \A i \in 1..Len(batch) : batch[i].key # Program
    /\ Reread(Reached(batch))
    /\ appliedSeq' = Max({appliedSeq, Last(batch).seq})
    /\ \/ savedSeq' = Max({savedSeq, Last(batch).seq}) /\ savedReadAt' = readAt' /\ UNCHANGED faults
       \/ UNCHANGED <<savedSeq, savedReadAt>> /\ Fault
    /\ EndBatch
    /\ UNCHANGED <<serverVars, workerVars, paused, needsResync, spoiled>>

\* Variant: the position is saved with the stop.
BatchStopsLoopSaving ==
    /\ stream = "batch" /\ ~needsResync
    /\ \E i \in 1..Len(batch) : batch[i].key = Program
    /\ needsResync' = TRUE /\ paused' = TRUE
    /\ appliedSeq' = Max({appliedSeq, Last(batch).seq})
    /\ savedSeq' = appliedSeq' /\ savedReadAt' = readAt
    /\ EndBatch
    /\ UNCHANGED <<serverVars, workerVars, readAt, spoiled, faults>>

\* A batch with an event for the whole program: the loop stops, nothing is saved.
BatchStopsLoop ==
    /\ stream = "batch" /\ ~needsResync
    /\ \E i \in 1..Len(batch) : batch[i].key = Program
    /\ needsResync' = TRUE /\ paused' = TRUE
    /\ appliedSeq' = Max({appliedSeq, Last(batch).seq})
    /\ EndBatch
    /\ UNCHANGED <<serverVars, workerVars, modelVars, spoiled, faults>>

BatchIgnored ==
    /\ stream = "batch" /\ needsResync
    /\ appliedSeq' = Max({appliedSeq, Last(batch).seq})
    /\ EndBatch
    /\ UNCHANGED <<serverVars, workerVars, paused, needsResync, modelVars, spoiled, faults>>

\* Variant: the position moves over a batch whose handler threw.
BatchFailsCounted ==
    /\ stream = "batch" /\ ~needsResync
    /\ Fault
    /\ \E fs \in SUBSET Reached(batch) : Reread(fs)
    /\ appliedSeq' = Max({appliedSeq, Last(batch).seq})
    /\ EndBatch
    /\ UNCHANGED <<serverVars, workerVars, paused, needsResync, savedSeq, savedReadAt, spoiled>>

\* The handler throws after any part of it: the batch is asked for again.
BatchFails ==
    /\ stream = "batch" /\ ~needsResync
    /\ Fault
    /\ \E fs \in SUBSET Reached(batch) :
          /\ Reread(fs)
          /\ spoiled' = spoiled \cup (IF fs = {} THEN {} ELSE {"left"})
    /\ EndBatch
    /\ UNCHANGED <<serverVars, workerVars, appliedSeq, paused, needsResync, savedSeq, savedReadAt>>

Pause ==
    /\ ~paused
    /\ Fault
    /\ paused' = TRUE
    /\ UNCHANGED <<serverVars, workerVars, stream, batch, appliedSeq, needsResync, modelVars, spoiled>>

Resume ==
    /\ paused /\ ~needsResync
    /\ paused' = FALSE
    /\ UNCHANGED <<serverVars, workerVars, stream, batch, appliedSeq, needsResync, modelVars, spoiled, faults>>

\* The daemon dies with its child and starts again: a worker at the latest version, without
\* a cache, and a model and position from disk.
Restart ==
    /\ Fault
    /\ openVersion' = Latest /\ file' = Latest
    /\ \/ program' = Latest /\ UNCHANGED spoiled
       \/ /\ mode = "remote" /\ Latest > 1
          /\ program' = Latest - 1 /\ spoiled' = spoiled \cup {"start"}
    /\ cachedFrom' = 0 /\ cachedTo' = 0 /\ cachedEvents' = <<>>
    /\ dead' = FALSE /\ inbox' = <<>> /\ work' = NoWork
    /\ stream' = "starting" /\ batch' = <<>> /\ appliedSeq' = savedSeq
    /\ paused' = FALSE /\ needsResync' = FALSE
    /\ readAt' = savedReadAt
    /\ UNCHANGED <<serverVars, mode, savedSeq, savedReadAt>>

Worker == \/ AnswerCaughtUp \/ AnswerCached \/ StartCompute \/ ReadChangeSet \/ CheckLatest
          \/ OpenAndTranslate \/ OpenFails \/ UpdateFails

Consumer == BatchApplied \/ BatchStopsLoop \/ BatchIgnored

Next ==
    \/ CheckIn \/ Rollback
    \/ Worker \/ RequestFails \/ WorkerExits
    \/ VerifyResume \/ Poll \/ CallTimesOut
    \/ Consumer \/ BatchFails
    \/ Pause \/ Resume \/ Restart

Spec == Init /\ [][Next]_vars

\* The worker's reader thread, the poll timer and a handler go on; the daemon's start
\* does.  Nobody is obliged to check anything in, to pause, to resume or to restart.
Fairness ==
    /\ WF_vars(Worker) /\ WF_vars(VerifyResume) /\ WF_vars(Poll) /\ WF_vars(Consumer)

FairSpec == Spec /\ Fairness

-----------------------------------------------------------------------------
(* Properties.                                                             *)

\* Every version up to a position that exists on the server.
Covered(seq) == {v \in 1..Latest : v <= VersionOf(seq)}

HoldsUpTo(seq, read) ==
    \A v \in Covered(seq) : \A f \in history[v].touched : read[f] >= v

\* Every caller was read at the version of the position or later, or when what it calls looked
\* to it as it does there.
CallersCurrent(seq, read) ==
    VersionOf(seq) <= Latest =>
        \A f \in Functions : \A c \in Callers[f] :
            \/ read[c] >= VersionOf(seq)
            \/ history[read[c]].signature[f] = history[VersionOf(seq)].signature[f]

Free(of) == spoiled \cap of = {}

\* "a worker restart or a fresh machine resumes exactly": neither the running nor the saved
\* position passes a version one of whose functions was not read again at it, through failed
\* and repeated batches, timeouts, check-ins at any moment, exits and restarts.
NothingSkipped ==
    Free({"start", "number", "rollback"}) =>
        /\ needsResync \/ HoldsUpTo(appliedSeq, readAt)
        /\ HoldsUpTo(savedSeq, savedReadAt)

\* The same, with nothing assumed of a start: "the only way to lose a position is a server
\* whose latest version is below it".
ResumesExactly ==
    Free({"number", "rollback"}) => needsResync \/ HoldsUpTo(appliedSeq, readAt)

\* "Functions whose callers decompile exactly as before": no position leaves a caller with a
\* text made for another signature than the one called there, although check-ins were folded
\* into one step, a step was computed twice, or a batch applied in part; excepted is a batch
\* applied in part whose change a later version takes back.
CallersReread ==
    /\ Free({"update", "start", "number", "rollback"})
    /\ ~ ({"left", "restored"} \subseteq spoiled)
    => /\ needsResync \/ CallersCurrent(appliedSeq, readAt)
       /\ CallersCurrent(savedSeq, savedReadAt)

\* What no event describes stops the loop before it is passed on disk: the saved position's
\* version has the layout the model was extracted with.
OtherChangesStop ==
    Free({"update", "start", "number"}) =>
        (VersionOf(savedSeq) <= Latest => history[VersionOf(savedSeq)].layout = history[1].layout)

\* "the re-extraction that follows reads the version the events describe."
BatchReadsItsVersion ==
    Free({"start"}) => \A i \in 1..Len(batch) : VersionOf(batch[i].seq) = program

\* "the journal is a function of the server's history": what is kept as the last answer is
\* what computing it again would give.
AnswersAreTheHistory ==
    /\ Free({"update", "start", "number", "rollback"})
    /\ cachedTo = Latest /\ cachedFrom > 0
    => cachedEvents = Translate(ChangeSet(cachedFrom, cachedTo), history[cachedFrom],
                                history[cachedTo], cachedTo)

\* The consumer catches up with the server again and again, unless it is paused, stopped or
\* without a worker.
CatchesUp ==
    []<>(VersionOf(appliedSeq) >= Latest \/ paused \/ needsResync \/ dead)

=============================================================================
