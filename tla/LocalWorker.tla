------------------------------ MODULE LocalWorker ------------------------------
(***************************************************************************)
(* The transport to the local worker: StdioWorkerProcess of packages/      *)
(* reconstruct/src/local-worker.ts, StdioWorker.java at the other end of   *)
(* its standard input and output, and mapWindowed of extract/pool.ts, the  *)
(* window the extraction keeps in flight over it, beside one poller.       *)
(*                                                                         *)
(* A call is its id.  A request says what it reads: an item of a run of    *)
(* mapWindowed, or Changes.  Reads are answered in the order they are      *)
(* done; get_changes, which may move the program to a newer version, is    *)
(* answered on the reader thread with no read under way.  What a read      *)
(* returns is the item it read and the version it read it at.              *)
(***************************************************************************)
EXTENDS Integers, FiniteSets, Sequences, FiniteSetsExt

CONSTANTS
    Window,         \* the `limit` of mapWindowed
    MaxItems,       \* bound: items of a run
    MaxRuns,        \* bound: runs of mapWindowed
    MaxPolls,       \* bound: calls of get_changes
    MaxVersion,     \* bound: versions on the server
    MaxFaults       \* bound: failed reads, timeouts and exits

ASSUME WorkerAssumption ==
    /\ {Window, MaxItems, MaxRuns, MaxPolls, MaxFaults} \subseteq Nat
    /\ MaxVersion \in Nat \ {0}

VARIABLES
    \* StdioWorkerProcess.
    nextId,
    pending,        \* calls awaited: id, what for, and the version known when it was made
    exited,
    learned,        \* the version the last get_changes answered here told
    \* The pipe, the worker and the way back.
    pipe, inFlight, version, out,
    \* mapWindowed.
    runs,
    polls, faults

clientVars == <<nextId, pending, exited, learned>>
workerVars == <<pipe, inFlight, version, out>>
vars == <<clientVars, workerVars, runs, polls, faults>>

\* A get_changes, as an item of no run.
Changes == 0
NoRun == 0

\* Math.max(1, Math.min(Math.floor(limit) || 1, items.length))
Width(n) == Max({1, Min({IF Window = 0 THEN 1 ELSE Window, n})})

Unread == [item |-> 0, asked |-> 0, version |-> 0]

Ids == Nat \ {0}
Call == [id : Ids, run : Nat, item : Nat, asked : Nat]
Running == {r \in 1..Len(runs) : runs[r].outcome = "running"}

TypeOK ==
    /\ nextId \in Ids /\ exited \in BOOLEAN /\ learned \in 1..MaxVersion
    /\ pending \subseteq Call
    /\ \A p, q \in pending : p.id = q.id => p = q
    /\ pipe \in Seq([id : Ids, item : Nat])
    /\ inFlight \subseteq [id : Ids, item : 1..MaxItems, version : 1..MaxVersion]
    /\ version \in 1..MaxVersion
    /\ out \in Seq([id : Ids, ok : BOOLEAN, item : Nat, version : Nat])
    /\ Cardinality(Running) <= 1
    /\ \A r \in 1..Len(runs) :
          /\ runs[r].lanes \in 0..Width(runs[r].n)
          /\ runs[r].lanes = Cardinality({p \in pending : p.run = r})
    /\ polls \in 0..MaxPolls /\ faults \in 0..MaxFaults

Init ==
    /\ nextId = 1 /\ pending = {} /\ exited = FALSE /\ learned = 1
    /\ pipe = <<>> /\ inFlight = {} /\ version = 1 /\ out = <<>>
    /\ runs = <<>>
    /\ polls = 0 /\ faults = 0

Fault == faults < MaxFaults /\ faults' = faults + 1

-----------------------------------------------------------------------------
(* call(): one more pending id, one more line on the worker's input.       *)

\* The calls a run makes for some items, with ids in the order of the items.
CallsFor(r, items) ==
    {[id |-> nextId + i - Min(items), run |-> r, item |-> i, asked |-> learned] : i \in items}

Lines(calls) ==
    [k \in 1..Cardinality(calls) |->
        LET c == CHOOSE c \in calls : c.id = nextId + k - 1 IN [id |-> c.id, item |-> c.item]]

Sends(kept, calls) ==
    /\ pending' = kept \cup calls
    /\ nextId' = nextId + Cardinality(calls)
    /\ pipe' = pipe \o Lines(calls)

-----------------------------------------------------------------------------
(* mapWindowed.                                                            *)

\* The lanes all start, each up to its first call; once the worker has exited, a call throws.
StartRun ==
    /\ Len(runs) < MaxRuns /\ Running = {}
    /\ \E n \in 0..MaxItems :
          LET first == IF exited THEN {} ELSE 1..Min({n, Width(n)})
          IN  /\ runs' = Append(runs,
                     [n |-> n,
                      next |-> Width(n) + 1,
                      lanes |-> Cardinality(first),
                      outcome |-> IF n = 0 THEN "resolved" ELSE IF exited THEN "rejected" ELSE "running",
                      results |-> [i \in 1..n |-> Unread]])
              /\ IF first = {} THEN UNCHANGED <<pending, nextId, pipe>>
                 ELSE Sends(pending, CallsFor(Len(runs) + 1, first))
    /\ UNCHANGED <<exited, learned, inFlight, version, out, polls, faults>>

\* Variant: results are stored in the order they come.
LaneContinuesInOrder(call, result) ==
    LET r == call.run
        run == runs[r]
        more == run.next <= run.n
        lanes == IF more THEN run.lanes ELSE run.lanes - 1
        place == Min({i \in 1..run.n : run.results[i] = Unread})
    IN  /\ runs' = [runs EXCEPT ![r] =
              [run EXCEPT !.results[place] = result,
                          !.next = @ + 1,
                          !.lanes = lanes,
                          !.outcome = IF lanes = 0 /\ @ = "running" THEN "resolved" ELSE @]]
        /\ Sends(pending \ {call}, IF more THEN CallsFor(r, {run.next}) ELSE {})

\* A lane whose call returned stores the result at its item's place and takes the next item,
\* or ends; the last lane to end resolves the run unless one of them threw.
LaneContinues(call, result) ==
    LET r == call.run
        run == runs[r]
        more == run.next <= run.n
        lanes == IF more THEN run.lanes ELSE run.lanes - 1
    IN  /\ runs' = [runs EXCEPT ![r] =
              [run EXCEPT !.results[call.item] = result,
                          !.next = @ + 1,
                          !.lanes = lanes,
                          !.outcome = IF lanes = 0 /\ @ = "running" THEN "resolved" ELSE @]]
        /\ Sends(pending \ {call}, IF more THEN CallsFor(r, {run.next}) ELSE {})

\* Lanes whose calls threw end, and their runs are rejected; other lanes go on.
LanesThrow(calls) ==
    runs' = [r \in 1..Len(runs) |->
                LET ended == Cardinality({c \in calls : c.run = r})
                IN  IF ended = 0 THEN runs[r]
                    ELSE [runs[r] EXCEPT !.lanes = @ - ended, !.outcome = "rejected"]]

-----------------------------------------------------------------------------
(* StdioWorkerProcess: answers, timeouts and the worker's exit.            *)

\* The poller: one get_changes at a time, beside whatever the extraction has in flight.
Poll ==
    /\ ~exited /\ \A p \in pending : p.run # NoRun
    /\ polls < MaxPolls /\ polls' = polls + 1
    /\ Sends(pending, {[id |-> nextId, run |-> NoRun, item |-> Changes, asked |-> learned]})
    /\ UNCHANGED <<exited, learned, inFlight, version, out, runs, faults>>

Awaiting(id) == {p \in pending : p.id = id}

\* A line of the worker: the call it answers continues, an unknown id is dropped.
AnswerArrives ==
    /\ ~exited /\ out # <<>>
    /\ LET answer == Head(out)
       IN  \/ /\ Awaiting(answer.id) = {}
              /\ UNCHANGED <<pending, nextId, learned, pipe, runs>>
           \/ \E call \in Awaiting(answer.id) :
                 IF ~answer.ok
                 THEN /\ pending' = pending \ {call}
                      /\ LanesThrow({call} \ {c \in pending : c.run = NoRun})
                      /\ UNCHANGED <<nextId, learned, pipe>>
                 ELSE IF call.run = NoRun
                 THEN /\ pending' = pending \ {call}
                      /\ learned' = answer.version
                      /\ UNCHANGED <<nextId, pipe, runs>>
                 ELSE /\ LaneContinues(call, [item |-> answer.item, asked |-> call.asked,
                                              version |-> answer.version])
                      /\ UNCHANGED learned
    /\ out' = Tail(out)
    /\ UNCHANGED <<exited, inFlight, version, polls, faults>>

\* A call's timer: the caller hears of it, the worker does not.
TimesOut ==
    /\ Fault
    /\ \E call \in pending :
          /\ pending' = pending \ {call}
          /\ LanesThrow({call} \ {c \in pending : c.run = NoRun})
    /\ UNCHANGED <<nextId, exited, learned, workerVars, polls>>

\* Variant: only the oldest call is rejected.
ExitRejectingOne ==
    /\ ~exited
    /\ Fault
    /\ exited' = TRUE
    /\ \E first \in {p \in pending : \A q \in pending : p.id <= q.id} :
          /\ pending' = pending \ {first}
          /\ LanesThrow({first} \ {p \in pending : p.run = NoRun})
    /\ pipe' = <<>> /\ inFlight' = {} /\ out' = <<>>
    /\ UNCHANGED <<nextId, learned, version, polls>>

\* The process is gone, with whatever was in its pipes: every pending call is rejected.
Exit ==
    /\ ~exited
    /\ Fault
    /\ exited' = TRUE
    /\ pending' = {}
    /\ LanesThrow({p \in pending : p.run # NoRun})
    /\ pipe' = <<>> /\ inFlight' = {} /\ out' = <<>>
    /\ UNCHANGED <<nextId, learned, version, polls>>

-----------------------------------------------------------------------------
(* StdioWorker: the reader thread and the threads that read.               *)

Replies(id, ok, item, v) == out' = Append(out, [id |-> id, ok |-> ok, item |-> item, version |-> v])

StartRead ==
    /\ pipe # <<>> /\ Head(pipe).item # Changes
    /\ inFlight' = inFlight \cup {[id |-> Head(pipe).id, item |-> Head(pipe).item, version |-> version]}
    /\ pipe' = Tail(pipe)
    /\ UNCHANGED <<clientVars, version, out, runs, polls, faults>>

\* A read is done; it may also have failed, or been refused.
EndRead ==
    /\ \E r \in inFlight :
          /\ inFlight' = inFlight \ {r}
          /\ \/ Replies(r.id, TRUE, r.item, r.version) /\ UNCHANGED faults
             \/ Replies(r.id, FALSE, r.item, r.version) /\ Fault
    /\ UNCHANGED <<clientVars, pipe, version, runs, polls>>

\* Variant: the swap does not wait.
IdleAlways == TRUE

\* awaitIdle(): nothing is under way, and nothing later is started.
Idle == inFlight = {}

\* Variant: the program is moved after the answer, or not at all.
AnswerChangesUnmoved ==
    /\ pipe # <<>> /\ Head(pipe).item = Changes
    /\ Idle
    /\ \E v \in version..MaxVersion : Replies(Head(pipe).id, TRUE, Changes, v)
    /\ pipe' = Tail(pipe)
    /\ UNCHANGED <<clientVars, inFlight, version, runs, polls, faults>>

\* getChanges() moves the program to the latest version, or finds it there.
AnswerChanges ==
    /\ pipe # <<>> /\ Head(pipe).item = Changes
    /\ Idle
    /\ \E v \in version..MaxVersion :
          version' = v /\ Replies(Head(pipe).id, TRUE, Changes, v)
    /\ pipe' = Tail(pipe)
    /\ UNCHANGED <<clientVars, inFlight, runs, polls, faults>>

-----------------------------------------------------------------------------

Client == StartRun \/ Poll \/ AnswerArrives \/ TimesOut \/ Exit
Worker == StartRead \/ EndRead \/ AnswerChanges

Next == Client \/ Worker

Spec == Init /\ [][Next]_vars

\* The worker's threads run and so does the client's event loop; no timer is needed for a
\* call to return.
FairSpec == Spec /\ WF_vars(Worker) /\ WF_vars(AnswerArrives)

-----------------------------------------------------------------------------
(* Properties.                                                             *)

\* "Results come back in INPUT order whatever order the requests completed in": what is at
\* an item's place is an answer to that item, late answers and retries included, and a run
\* that resolved has one at every place.
ResultsAreRight ==
    \A r \in 1..Len(runs) : \A i \in 1..runs[r].n :
        \/ runs[r].results[i].item = i
        \/ runs[r].results[i] = Unread /\ runs[r].outcome # "resolved"

\* "no read ever straddles two versions".
NoReadStraddles == \A r \in inFlight : r.version = version

\* A read asked for after a get_changes was answered is not older than that answer.
ReadsFollowTheChanges ==
    \A r \in 1..Len(runs) : \A i \in 1..runs[r].n :
        runs[r].results[i].asked <= runs[r].results[i].version

\* Every call returns, and so does every run: lanes, the order of the pipe and the wait for
\* idle never wait on each other.
EveryCallReturns == []<>(pending = {})

\* "A window keeps `limit` requests outstanding": also when a run was rejected and begun again.
OneWindow == Cardinality({p \in pending : p.run # NoRun}) <= Width(MaxItems)

=============================================================================
