------------------------ MODULE ProposalBoundaryProofs ------------------------
(***************************************************************************)
(* Theorems about ProposalBoundary.  The types are those whatever happens; *)
(* the rest is proved of surroundings where, of all the circumstances, at  *)
(* most the giving up of an applied window occurs, and the refinement      *)
(* where none does.                                                        *)
(*                                                                         *)
(* Why a window that is published is its proposal's, and the stream held   *)
(* while it waits: a call that is in flight either is the holder's, and    *)
(* the hold began when nothing else was in flight or waiting behind a      *)
(* batch, or there is nothing left for it to publish (Settled).            *)
(***************************************************************************)
EXTENDS ProposalBoundary, SequenceTheorems, TLAPS

InFlight(s) == calls[s].pc \notin {"idle", "reading"}

\* Calls, the hold and the window are of proposals, those of commits of some that began.
OfProposals ==
    /\ \A s \in Slots : calls[s].pc # "idle" => calls[s].proposal \in Proposals
    /\ \A s \in Slots : InFlight(s) => granted[calls[s].proposal] # NotYet
    /\ hold # NoHold => hold.proposal \in Proposals
    /\ unattributed # NoWindow =>
          unattributed.proposal \in Proposals /\ granted[unattributed.proposal] # NotYet

TypeInv == TypeOK /\ OfProposals

\* The edits of a journal between two entries, and those of a proposal.
Window(j, since, until) == {e \in since + 1..until : j[e].kind = "edit"}
EditsBy(j, p) == {e \in 1..Len(j) : j[e] = [by |-> p, kind |-> "edit"]}

\* The first check-in after `since` is at `until`.
EndsAt(j, since, until) ==
    /\ until \in since + 1..Len(j)
    /\ j[until].kind = "checkin"
    /\ \A c \in since + 1..until : c # until => j[c].kind = "edit"

IsOf(j, since, until, p) ==
    /\ Window(j, since, until) # {}
    /\ \A e \in Window(j, since, until) : j[e].by = p

\* The model is past where the proposal began, or what follows there is not the proposal's.
Settled(j, p, since, seq) ==
    since < seq \/ \E c \in Seqs : EndsAt(j, since, c) /\ ~IsOf(j, since, c, p)

\* While begin reads the journal nothing else is in flight, held or written by its proposal.
ReadingInv ==
    \A s \in Slots : calls[s].pc = "reading" =>
        /\ \A t \in Slots : t # s => calls[t] = NoCall
        /\ paused /\ hold = NoHold /\ unattributed = NoWindow
        /\ EditsBy(journal, calls[s].proposal) = {}

\* A call waits once in the queue, and behind a batch if the stream is held.
QueueInv ==
    /\ \A i \in 1..Len(tasks) : tasks[i] \in Slots =>
          /\ calls[tasks[i]].pc \in {"queued", "retrying"}
          /\ \A k \in 1..Len(tasks) : tasks[k] = tasks[i] => k = i
    /\ \A i \in 1..Len(tasks) : tasks[i] = "batch" =>
          /\ unattributed = NoWindow
          /\ hold # NoHold => \A k \in 1..i : tasks[k] \notin Slots
          /\ batchEnd <= Len(journal)

\* A proposal's edits come after its begin, with no check-in between them.
ProposalInv ==
    \A p \in Proposals :
        /\ granted[p] <= Len(journal)
        /\ \A e \in EditsBy(journal, p) : granted[p] # NotYet /\ granted[p] < e
        /\ \A e, f \in EditsBy(journal, p) : \A c \in e..f : journal[c].kind = "edit"
        /\ commitsOf[p] > 0 => EditsBy(journal, p) # {} /\ granted[p] < modelSeq

HoldInv ==
    /\ HeldMeansPaused
    /\ hold # NoHold =>
          /\ hold.since = granted[hold.proposal]
          /\ unattributed # NoWindow => unattributed.proposal = hold.proposal

\* A commit in flight, with the hold, the window, the proposals' starts, the model's seq and
\* the journal: it is the holder's, or there is nothing left for it to publish.
Flight(c, h, u, start, seq, j) ==
    /\ h # NoHold => h.proposal = c.proposal
    /\ u # NoWindow => u.proposal = c.proposal
    /\ h = NoHold \/ c.pc \in {"finishing", "retrying"} => Settled(j, c.proposal, start[c.proposal], seq)
    /\ c.pc \in {"waiting", "queued"} => c.since = start[c.proposal]
    /\ c.pc = "queued" => EndsAt(j, c.since, c.until) /\ IsOf(j, c.since, c.until, c.proposal)
    /\ c.pc = "retrying" => c.until <= seq /\ start[c.proposal] < seq /\ EditsBy(j, c.proposal) # {}

FlightInv ==
    \A s \in Slots : InFlight(s) => Flight(calls[s], hold, unattributed, granted, modelSeq, journal)

\* The window that is left behind is the last in the model, its proposal's, and in no commit.
WindowInv ==
    unattributed # NoWindow =>
        /\ unattributed.since = granted[unattributed.proposal]
        /\ unattributed.until = modelSeq
        /\ EndsAt(journal, unattributed.since, unattributed.until)
        /\ IsOf(journal, unattributed.since, unattributed.until, unattributed.proposal)
        /\ \A e \in Window(journal, unattributed.since, unattributed.until) : credit[e] = None

\* The model holds the edits up to its seq; those in no commit are of that window, or of one
\* that was given up.
ModelInv ==
    /\ modelSeq <= Len(journal) /\ delivered <= modelSeq /\ consumedThrough <= modelSeq
    /\ inModel = Window(journal, 0, modelSeq) /\ ~dirty
    /\ \A e \in Seqs : credit[e] # None => e \in inModel
    /\ \A e \in inModel : credit[e] = None =>
          \/ unattributed # NoWindow /\ e \in Window(journal, unattributed.since, unattributed.until)
          \/ journal[e].by \in abandoned

\* An edit is credited to its author, those of windows given up excepted.
CreditInv ==
    /\ \A e \in 1..Len(journal) :
          credit[e] \in Proposals => journal[e].by \in {credit[e]} \cup abandoned
    /\ \A p \in Proposals \ abandoned : \A e \in windowed[p] :
          e \in inModel /\ (credit[e] = p \/ (credit[e] = None /\ unattributed.proposal = p))
    /\ "abandons" \in Circumstances \/ abandoned = {}

IInv == ReadingInv /\ QueueInv /\ ProposalInv /\ HoldInv /\ FlightInv /\ WindowInv /\ ModelInv /\ CreditInv

-----------------------------------------------------------------------------
(* The types, whatever the circumstances.                                    *)

\* Where a call is, whose it is and between which entries.
LEMMA CallTyped ==
    ASSUME NEW c \in Calls
    PROVE  /\ c.pc \in Places /\ c.proposal \in Proposals \cup {None}
           /\ c.since \in 0..MaxSeq /\ c.until \in 0..MaxSeq
  BY DEF Calls

\* No call, no hold and no window are of no proposal.
LEMMA NothingTyped ==
    /\ NoCall \in Calls /\ NoHold \in Holds /\ NoWindow \in Windows
    /\ NoCall.pc = "idle" /\ NoHold.proposal = None /\ NoWindow.proposal = None
    /\ None \notin Proposals /\ Owner \notin Proposals /\ Owner # None
  BY BoundaryAssumption DEF NoCall, NoHold, NoWindow, Calls, Holds, Windows, Places

\* A call of a proposal, just made.
LEMMA NewCallTyped ==
    ASSUME NEW pc \in Places, NEW p \in Proposals
    PROVE  LET c == [NoCall EXCEPT !.pc = pc, !.proposal = p]
           IN  c \in Calls /\ c.pc = pc /\ c.proposal = p
<1>1. NoCall \in Calls
  BY NothingTyped
<1> QED
  BY <1>1 DEF Calls

\* Entries that are edits are entries.
LEMMA EditsTyped ==
    ASSUME TypeOK, NEW a \in Nat, NEW b \in 0..MaxSeq
    PROVE  Edits(a + 1..b) \subseteq Seqs
  BY BoundaryAssumption DEF Edits, Seqs

\* What is re-read is in the journal.
LEMMA WithTyped ==
    ASSUME TypeOK, NEW a \in Nat, NEW b \in 0..MaxSeq
    PROVE  With(a + 1, b) \subseteq Seqs
<1>1. Edits(a + 1..b) \subseteq Seqs
  BY EditsTyped
<1>2. Len(journal) \in 0..MaxSeq
  BY LenProperties, BoundaryAssumption DEF TypeOK
<1>3. Edits(0 + 1..Len(journal)) \subseteq Seqs
  BY <1>2, EditsTyped
<1> QED
  BY <1>1, <1>3 DEF With, Reread, TypeOK

\* A commit credits its author, and one author at most.
LEMMA CommitTyped ==
    ASSUME TypeOK, NEW M, NEW author \in Writers \cup {None}, Committed(M, author)
    PROVE  /\ credit' \in [Seqs -> Writers \cup {None}] /\ commitsOf' \in [Proposals -> Nat]
           /\ dirty' \in BOOLEAN /\ faults' \in 0..MaxFaults
<1>1. credit' \in [Seqs -> Writers \cup {None}]
  BY DEF Committed, TypeOK
<1>2. commitsOf' \in [Proposals -> Nat]
  BY DEF Committed, TypeOK
<1> QED
  BY <1>1, <1>2 DEF Committed, TypeOK

\* A generation, or git, that fails commits nothing.
LEMMA FailureTyped ==
    ASSUME TypeOK, NEW M, NotGenerated \/ NotCommitted(M)
    PROVE  /\ credit' \in [Seqs -> Writers \cup {None}] /\ commitsOf' \in [Proposals -> Nat]
           /\ dirty' \in BOOLEAN /\ faults' \in 0..MaxFaults
<1>1. faults' \in 0..MaxFaults
  BY BoundaryAssumption DEF NotGenerated, NotCommitted, Fault, TypeOK
<1>2. credit' = credit /\ commitsOf' = commitsOf /\ dirty' \in {dirty, TRUE}
  BY DEF NotGenerated, NotCommitted, gitVars
<1> QED
  BY <1>1, <1>2 DEF TypeOK

\* The end of a commit leaves a hold and a pause.
LEMMA FinishTyped ==
    ASSUME TypeInv, NEW p, NEW u, Finish(p, u)
    PROVE  /\ hold' \in Holds /\ paused' \in BOOLEAN
           /\ hold' \in {hold, NoHold}
  BY NothingTyped DEF Finish, ReleaseUnless, Release, TypeInv, TypeOK

\* A call that moves is a call.
LEMMA CallsTyped ==
    ASSUME TypeOK, NEW s \in Slots, NEW c \in Calls, calls' = [calls EXCEPT ![s] = c]
    PROVE  /\ calls' \in [Slots -> Calls] /\ calls'[s] = c
           /\ \A t \in Slots : t # s => calls'[t] = calls[t]
  BY DEF TypeOK

\* So is one that moves to another place.
LEMMA MoveTyped ==
    ASSUME TypeOK, NEW s \in Slots, NEW pc \in Places, Move(s, pc)
    PROVE  /\ calls' \in [Slots -> Calls]
           /\ calls'[s] = [calls[s] EXCEPT !.pc = pc]
           /\ calls'[s].pc = pc /\ calls'[s].proposal = calls[s].proposal
           /\ calls'[s].since = calls[s].since /\ calls'[s].until = calls[s].until
           /\ \A t \in Slots : t # s => calls'[t] = calls[t]
<1>1. calls[s] \in Calls
  BY DEF TypeOK
<1> DEFINE c == [calls[s] EXCEPT !.pc = pc]
<1>2. c \in Calls /\ c.pc = pc /\ c.proposal = calls[s].proposal /\ c.since = calls[s].since /\ c.until = calls[s].until
  BY <1>1 DEF Calls
<1>3. calls' = [calls EXCEPT ![s] = c]
  BY DEF Move
<1> HIDE DEF c
<1>4. /\ calls' \in [Slots -> Calls] /\ calls'[s] = c
      /\ \A t \in Slots : t # s => calls'[t] = calls[t]
  BY <1>2, <1>3, CallsTyped
<1> QED
  BY <1>2, <1>4 DEF c

\* The queue is one of calls, batches and rebuilds.
LEMMA QueueTyped ==
    ASSUME TypeOK
    PROVE  /\ \A t \in Slots \cup {"batch", "rebuild"} :
                 Append(tasks, t) \in Seq(Slots \cup {"batch", "rebuild"})
           /\ tasks # <<>> => Tail(tasks) \in Seq(Slots \cup {"batch", "rebuild"})
<1>1. tasks \in Seq(Slots \cup {"batch", "rebuild"})
  BY DEF TypeOK
<1> QED
  BY <1>1, AppendProperties, HeadTailProperties


\* An entry is written.
LEMMA WriteTyped ==
    ASSUME TypeInv, NEW w \in Writers, NEW kind \in {"edit", "checkin"}, Write(w, kind)
    PROVE  TypeInv'
<1>1. [by |-> w, kind |-> kind] \in Entry
  BY DEF Entry
<1>2. journal' \in Seq(Entry) /\ Len(journal') = Len(journal) + 1
  BY <1>1, AppendProperties DEF Write, TypeInv, TypeOK
<1>3. Len(journal') <= MaxSeq
  BY <1>2, LenProperties, BoundaryAssumption DEF Write, TypeInv, TypeOK
<1>4. UNCHANGED <<streamVars, operatorPaused, tasks, modelVars, consumedThrough, gitVars,
                  boundaryVars, calls, granted, abandoned, faults>>
  BY DEF Write
<1>5. TypeOK'
  BY <1>2, <1>3, <1>4 DEF TypeInv, TypeOK, streamVars, modelVars, gitVars, boundaryVars
<1>6. OfProposals'
  BY <1>4 DEF TypeInv, OfProposals, InFlight, boundaryVars
<1> QED
  BY <1>5, <1>6 DEF TypeInv

\* A call moves to a place, for a proposal of the boundary's, and nobody else does; grants
\* stay given.
LEMMA OfProposalsKept ==
    ASSUME TypeInv, NEW s \in Slots, \A t \in Slots : t # s => calls'[t] = calls[t],
           calls'[s].pc # "idle" => calls'[s].proposal \in Proposals,
           calls'[s].pc \notin {"idle", "reading"} => granted'[calls'[s].proposal] # NotYet,
           \A p \in Proposals : granted[p] # NotYet => granted'[p] # NotYet,
           hold' \in {hold, NoHold} \/ hold'.proposal \in Proposals,
           \/ unattributed' \in {unattributed, NoWindow}
           \/ unattributed'.proposal \in Proposals /\ granted'[unattributed'.proposal] # NotYet
    PROVE  OfProposals'
<1>1. ASSUME NEW t \in Slots, calls'[t].pc # "idle" PROVE calls'[t].proposal \in Proposals
  BY <1>1 DEF TypeInv, OfProposals
<1>2. ASSUME NEW t \in Slots, calls'[t].pc \notin {"idle", "reading"}
      PROVE  granted'[calls'[t].proposal] # NotYet
  BY <1>2 DEF TypeInv, OfProposals, InFlight
<1>3. /\ hold' # NoHold => hold'.proposal \in Proposals
      /\ unattributed' # NoWindow =>
            unattributed'.proposal \in Proposals /\ granted'[unattributed'.proposal] # NotYet
  BY DEF TypeInv, OfProposals
<1> QED
  BY <1>1, <1>2, <1>3 DEF OfProposals, InFlight

\* What is of no call.
LEMMA OfProposalsStill ==
    ASSUME TypeInv, UNCHANGED <<calls, granted>>,
           hold' \in {hold, NoHold}, unattributed' \in {unattributed, NoWindow}
    PROVE  OfProposals'
  BY DEF TypeInv, OfProposals, InFlight

\* The calls of begin, the hold's timer and abort.
LEMMA BeginTyped ==
    ASSUME TypeInv, NEW s \in Slots, NEW p \in Proposals,
           CallBegin(s, p) \/ BeginAnswers(s) \/ BeginFails(s)
    PROVE  TypeInv'
<1> USE DEF streamVars, modelVars, gitVars, boundaryVars
<1>1. CASE CallBegin(s, p)
  <2> DEFINE c == [NoCall EXCEPT !.pc = "reading", !.proposal = p]
  <2>1. c \in Calls /\ c.pc = "reading" /\ c.proposal = p
    BY NewCallTyped DEF Places
  <2>2. calls' = [calls EXCEPT ![s] = c]
    BY <1>1 DEF CallBegin
  <2> HIDE DEF c
  <2>3. /\ calls' \in [Slots -> Calls] /\ calls'[s] = c
        /\ \A t \in Slots : t # s => calls'[t] = calls[t]
    BY <2>1, <2>2, CallsTyped DEF TypeInv
  <2>4. OfProposals'
    BY <1>1, <2>1, <2>3, OfProposalsKept DEF CallBegin
  <2>5. TypeOK'
    BY <1>1, <2>3 DEF CallBegin, TypeInv, TypeOK
  <2> QED
    BY <2>4, <2>5 DEF TypeInv
<1>2. CASE BeginAnswers(s)
  <2> DEFINE q == calls[s].proposal
  <2>1. q \in Proposals /\ Len(journal) \in 0..MaxSeq
    BY <1>2, LenProperties, BoundaryAssumption DEF BeginAnswers, TypeInv, OfProposals, TypeOK
  <2>2. /\ calls' = [calls EXCEPT ![s] = NoCall]
        /\ hold' = [proposal |-> q, since |-> Len(journal)]
        /\ granted' = [granted EXCEPT ![q] = Len(journal)]
        /\ UNCHANGED <<journal, streamVars, operatorPaused, tasks, modelVars, consumedThrough,
                       gitVars, unattributed, abandoned, faults>>
    BY <1>2 DEF BeginAnswers
  <2> HIDE DEF q
  <2>3. /\ calls' \in [Slots -> Calls] /\ calls'[s] = NoCall
        /\ \A t \in Slots : t # s => calls'[t] = calls[t]
    BY <2>2, CallsTyped, NothingTyped DEF TypeInv
  <2>4. hold' \in Holds /\ hold'.proposal \in Proposals
    BY <2>1, <2>2 DEF Holds
  <2>5. /\ granted' \in [Proposals -> {NotYet} \cup (0..MaxSeq)]
        /\ \A r \in Proposals : granted[r] # NotYet => granted'[r] # NotYet
    BY <2>1, <2>2 DEF TypeInv, TypeOK, NotYet
  <2>6. OfProposals'
    BY <2>2, <2>3, <2>4, <2>5, NothingTyped, OfProposalsKept
  <2>7. TypeOK'
    BY <2>2, <2>3, <2>4, <2>5 DEF TypeInv, TypeOK
  <2> QED
    BY <2>6, <2>7 DEF TypeInv
<1>3. CASE BeginFails(s)
  <2>1. /\ calls' \in [Slots -> Calls] /\ calls'[s] = NoCall
        /\ \A t \in Slots : t # s => calls'[t] = calls[t]
    BY <1>3, CallsTyped, NothingTyped DEF BeginFails, TypeInv
  <2>2. faults' \in 0..MaxFaults /\ paused' \in BOOLEAN
    BY <1>3, BoundaryAssumption DEF BeginFails, Fault, ReleaseUnless, Release, TypeInv, TypeOK
  <2>3. UNCHANGED <<journal, delivered, batchEnd, operatorPaused, tasks, modelVars,
                    consumedThrough, gitVars, boundaryVars, granted, abandoned>>
    BY <1>3 DEF BeginFails
  <2>4. OfProposals'
    BY <2>1, <2>3, NothingTyped, OfProposalsKept
  <2>5. TypeOK'
    BY <2>1, <2>2, <2>3 DEF TypeInv, TypeOK
  <2> QED
    BY <2>4, <2>5 DEF TypeInv
<1> QED
  BY <1>1, <1>2, <1>3

\* A hold ends.
LEMMA EndsTyped ==
    ASSUME TypeInv, (\E p \in Proposals : Abort(p)) \/ Expire
    PROVE  TypeInv'
<1>1. /\ hold' \in {hold, NoHold} /\ unattributed' \in {unattributed, NoWindow}
      /\ abandoned' \subseteq Proposals /\ paused' \in BOOLEAN
      /\ UNCHANGED <<journal, delivered, batchEnd, operatorPaused, tasks, modelVars,
                     consumedThrough, gitVars, calls, granted, faults>>
  BY DEF Abort, Expire, ReleaseUnless, Release, TypeInv, TypeOK
<1>2. TypeOK'
  BY <1>1, NothingTyped DEF TypeInv, TypeOK, modelVars, gitVars
<1>3. OfProposals'
  BY <1>1, OfProposalsStill
<1> QED
  BY <1>2, <1>3 DEF TypeInv


\* A call that is over.
LEMMA IdleTyped ==
    ASSUME TypeInv, NEW s \in Slots, Idle(s)
    PROVE  /\ calls' \in [Slots -> Calls] /\ calls'[s] = NoCall
           /\ \A t \in Slots : t # s => calls'[t] = calls[t]
  BY CallsTyped, NothingTyped DEF Idle, TypeInv

\* proposal_commit up to the queue.
LEMMA CommitCallTyped ==
    ASSUME TypeInv, NEW s \in Slots, NEW p \in Proposals,
           CallCommit(s, p) \/ ExistingFound(s) \/ ExistingNone(s)
    PROVE  TypeInv'
<1> USE DEF streamVars, modelVars, gitVars, boundaryVars
<1>1. CASE CallCommit(s, p)
  <2> DEFINE c == [NoCall EXCEPT !.pc = "asking", !.proposal = p]
  <2>1. c \in Calls /\ c.pc = "asking" /\ c.proposal = p
    BY NewCallTyped DEF Places
  <2>2. calls' = [calls EXCEPT ![s] = c]
    BY <1>1 DEF CallCommit
  <2> HIDE DEF c
  <2>3. /\ calls' \in [Slots -> Calls] /\ calls'[s] = c
        /\ \A t \in Slots : t # s => calls'[t] = calls[t]
    BY <2>1, <2>2, CallsTyped DEF TypeInv
  <2>4. OfProposals'
    BY <1>1, <2>1, <2>3, OfProposalsKept DEF CallCommit
  <2>5. TypeOK'
    BY <1>1, <2>3 DEF CallCommit, TypeInv, TypeOK
  <2> QED
    BY <2>4, <2>5 DEF TypeInv
<1>2. CASE ExistingFound(s)
  <2>1. /\ calls' \in [Slots -> Calls] /\ calls'[s] = NoCall
        /\ \A t \in Slots : t # s => calls'[t] = calls[t]
    BY <1>2, IdleTyped DEF ExistingFound
  <2>2. hold' \in Holds /\ paused' \in BOOLEAN /\ hold' \in {hold, NoHold}
    BY <1>2, FinishTyped DEF ExistingFound
  <2>3. UNCHANGED <<journal, delivered, batchEnd, operatorPaused, tasks, modelVars,
                    consumedThrough, gitVars, unattributed, granted, abandoned, faults>>
    BY <1>2 DEF ExistingFound
  <2>4. OfProposals'
    BY <2>1, <2>2, <2>3, NothingTyped, OfProposalsKept
  <2>5. TypeOK'
    BY <2>1, <2>2, <2>3 DEF TypeInv, TypeOK
  <2> QED
    BY <2>4, <2>5 DEF TypeInv
<1>3. CASE ExistingNone(s)
  <2> DEFINE q == calls[s].proposal
  <2>1. /\ q \in Proposals /\ granted[q] \in 0..MaxSeq /\ calls[s] \in Calls
        /\ unattributed \in Windows /\ hold \in Holds
    <3>1. q \in Proposals /\ granted[q] # NotYet
      BY <1>3 DEF ExistingNone, TypeInv, OfProposals, InFlight
    <3> QED
      BY <3>1 DEF TypeInv, TypeOK
  <2>2. UNCHANGED <<journal, streamVars, operatorPaused, modelVars, consumedThrough, gitVars,
                    boundaryVars, granted, abandoned, faults>>
    BY <1>3 DEF ExistingNone
  <2>3. CASE unattributed = NoWindow
    <3>1. PICK since \in Starts(q) : calls' = [calls EXCEPT ![s].pc = "waiting", ![s].since = since]
      BY <1>3, <2>3 DEF ExistingNone
    <3>2. since \in 0..MaxSeq
      BY <2>1 DEF Starts, Holds
    <3> DEFINE c == [calls[s] EXCEPT !.pc = "waiting", !.since = since]
    <3>3. c \in Calls /\ c.pc = "waiting" /\ c.proposal = q
      BY <2>1, <3>2 DEF Calls, Places
    <3>4. calls' = [calls EXCEPT ![s] = c]
      BY <3>1
    <3> HIDE DEF c, q
    <3>5. /\ calls' \in [Slots -> Calls] /\ calls'[s] = c
          /\ \A t \in Slots : t # s => calls'[t] = calls[t]
      BY <3>3, <3>4, CallsTyped DEF TypeInv
    <3>6. OfProposals'
      BY <2>1, <2>2, <3>3, <3>5, OfProposalsKept DEF NotYet
    <3>7. tasks' = tasks
      BY <1>3, <2>3 DEF ExistingNone
    <3>8. TypeOK'
      BY <2>2, <3>5, <3>7 DEF TypeInv, TypeOK
    <3> QED
      BY <3>6, <3>8 DEF TypeInv
  <2>4. CASE unattributed # NoWindow
    <3> DEFINE c == [pc |-> "retrying", proposal |-> unattributed.proposal,
                     since |-> unattributed.since, until |-> unattributed.until]
    <3>1. /\ calls' = [calls EXCEPT ![s] = c] /\ tasks' = Append(tasks, s)
      BY <1>3, <2>4 DEF ExistingNone
    <3>2. /\ c \in Calls /\ c.pc = "retrying" /\ c.proposal \in Proposals
          /\ granted[c.proposal] # NotYet
      <4>1. unattributed.proposal \in Proposals /\ granted[unattributed.proposal] # NotYet
        BY <2>4 DEF TypeInv, OfProposals
      <4> QED
        BY <2>1, <4>1 DEF Calls, Places, Windows
    <3> HIDE DEF c, q
    <3>3. /\ calls' \in [Slots -> Calls] /\ calls'[s] = c
          /\ \A t \in Slots : t # s => calls'[t] = calls[t]
      BY <3>1, <3>2, CallsTyped DEF TypeInv
    <3>4. OfProposals'
      BY <2>2, <3>2, <3>3, OfProposalsKept
    <3>5. tasks' \in Seq(Slots \cup {"batch", "rebuild"})
      BY <3>1, QueueTyped DEF TypeInv
    <3>6. TypeOK'
      BY <2>2, <3>3, <3>5 DEF TypeInv, TypeOK
    <3> QED
      BY <3>4, <3>6 DEF TypeInv
  <2> QED
    BY <2>3, <2>4
<1> QED
  BY <1>1, <1>2, <1>3

\* The check-in is found, or not in time.
LEMMA CheckinTyped ==
    ASSUME TypeInv, NEW s \in Slots, CheckinFound(s) \/ WaitTimesOut(s)
    PROVE  TypeInv'
<1> USE DEF streamVars, modelVars, gitVars, boundaryVars
<1>1. /\ calls[s].proposal \in Proposals /\ granted[calls[s].proposal] # NotYet
      /\ calls[s] \in Calls
  BY DEF CheckinFound, WaitTimesOut, TypeInv, TypeOK, OfProposals, InFlight
<1>2. UNCHANGED <<journal, delivered, batchEnd, operatorPaused, modelVars, consumedThrough,
                  gitVars, unattributed, granted, abandoned, faults>>
  BY DEF CheckinFound, WaitTimesOut
<1>3. ASSUME Idle(s), tasks' = tasks, hold' \in Holds, paused' \in BOOLEAN, hold' \in {hold, NoHold}
      PROVE  TypeInv'
  <2>1. /\ calls' \in [Slots -> Calls] /\ calls'[s] = NoCall
        /\ \A t \in Slots : t # s => calls'[t] = calls[t]
    BY <1>3, IdleTyped
  <2>2. OfProposals'
    BY <1>2, <1>3, <2>1, NothingTyped, OfProposalsKept
  <2>3. TypeOK'
    BY <1>2, <1>3, <2>1 DEF TypeInv, TypeOK
  <2> QED
    BY <2>2, <2>3 DEF TypeInv
<1>4. CASE WaitTimesOut(s)
  <2>1. hold' \in Holds /\ paused' \in BOOLEAN /\ hold' = hold
    BY <1>4 DEF WaitTimesOut, TypeInv, TypeOK
  <2> QED
    BY <1>3, <1>4, <2>1 DEF WaitTimesOut
<1>5. CASE CheckinFound(s)
  <2>1. PICK until \in CheckinsAfter(calls[s].since) :
           \/ /\ calls' = [calls EXCEPT ![s].pc = "queued", ![s].until = until]
              /\ tasks' = Append(tasks, s)
              /\ UNCHANGED <<paused, hold>>
           \/ /\ Finish(calls[s].proposal, unattributed)
              /\ Idle(s)
              /\ UNCHANGED tasks
    BY <1>5 DEF CheckinFound
  <2>2. CASE Finish(calls[s].proposal, unattributed) /\ Idle(s) /\ UNCHANGED tasks
    BY <1>3, <2>2, FinishTyped
  <2>3. CASE /\ calls' = [calls EXCEPT ![s].pc = "queued", ![s].until = until]
             /\ tasks' = Append(tasks, s)
             /\ UNCHANGED <<paused, hold>>
    <3>1. until \in 0..MaxSeq
      <4>1. Len(journal) \in Nat /\ Len(journal) <= MaxSeq /\ calls[s].since \in Nat
        BY <1>1, LenProperties DEF TypeInv, TypeOK, Calls
      <4> QED
        BY <4>1, BoundaryAssumption DEF CheckinsAfter
    <3> DEFINE c == [calls[s] EXCEPT !.pc = "queued", !.until = until]
    <3>2. c \in Calls /\ c.pc = "queued" /\ c.proposal = calls[s].proposal
      BY <1>1, <3>1 DEF Calls, Places
    <3>3. calls' = [calls EXCEPT ![s] = c]
      BY <2>3
    <3> HIDE DEF c
    <3>4. /\ calls' \in [Slots -> Calls] /\ calls'[s] = c
          /\ \A t \in Slots : t # s => calls'[t] = calls[t]
      BY <3>2, <3>3, CallsTyped DEF TypeInv
    <3>5. OfProposals'
      BY <1>1, <1>2, <2>3, <3>2, <3>4, OfProposalsKept
    <3>6. tasks' \in Seq(Slots \cup {"batch", "rebuild"})
      BY <2>3, QueueTyped DEF TypeInv
    <3>7. TypeOK'
      BY <1>2, <2>3, <3>4, <3>6 DEF TypeInv, TypeOK
    <3> QED
      BY <3>5, <3>7 DEF TypeInv
  <2> QED
    BY <2>1, <2>2, <2>3
<1> QED
  BY <1>4, <1>5


\* A call at its turn leaves the queue, and moves or is over.
LEMMA TurnTyped ==
    ASSUME TypeInv, NEW s \in Slots, NEW place, Turn(s, place), EndTask
    PROVE  tasks' \in Seq(Slots \cup {"batch", "rebuild"})
  BY QueueTyped DEF Turn, EndTask, TypeInv

\* A commit's exclusive section: nothing is published, or only what comes before.
LEMMA SectionTyped ==
    ASSUME TypeInv, NEW s \in Slots, AlreadyBatched(s) \/ PublishBefore(s) \/ TreeDirty(s)
    PROVE  TypeInv'
<1> USE DEF streamVars, boundaryVars
<1>1. /\ calls[s].proposal \in Proposals /\ granted[calls[s].proposal] # NotYet
      /\ calls[s] \in Calls
  BY DEF AlreadyBatched, PublishBefore, TreeDirty, Turn, TypeInv, TypeOK, OfProposals, InFlight
<1>2. /\ UNCHANGED <<journal, streamVars, operatorPaused, windowed, consumedThrough,
                     boundaryVars, granted, abandoned>>
      /\ \/ Move(s, "finishing") /\ EndTask
         \/ UNCHANGED <<calls, tasks>>
  BY DEF AlreadyBatched, PublishBefore, TreeDirty, modelVars
<1>3. /\ inModel' \subseteq Seqs /\ modelSeq' \in 0..MaxSeq
      /\ credit' \in [Seqs -> Writers \cup {None}] /\ commitsOf' \in [Proposals -> Nat]
      /\ dirty' \in BOOLEAN /\ faults' \in 0..MaxFaults
  <2>1. CASE AlreadyBatched(s) \/ TreeDirty(s)
    BY <2>1 DEF AlreadyBatched, TreeDirty, modelVars, gitVars, TypeInv, TypeOK
  <2>2. CASE PublishBefore(s)
    <3> DEFINE M == With(modelSeq + 1, calls[s].since)
    <3>1. inModel' = M /\ modelSeq' = calls[s].since
      BY <2>2 DEF PublishBefore
    <3>2. modelSeq \in Nat /\ calls[s].since \in 0..MaxSeq
      BY <1>1, CallTyped, BoundaryAssumption DEF TypeInv, TypeOK
    <3>3. M \subseteq Seqs
      BY <3>2, WithTyped DEF TypeInv
    <3>4. Committed(M, Owner) \/ NotGenerated \/ NotCommitted(M)
      BY <2>2 DEF PublishBefore, OrdinaryNotGenerated
    <3> HIDE DEF M
    <3>5. /\ credit' \in [Seqs -> Writers \cup {None}] /\ commitsOf' \in [Proposals -> Nat]
          /\ dirty' \in BOOLEAN /\ faults' \in 0..MaxFaults
      BY <3>4, CommitTyped, FailureTyped DEF TypeInv, Writers
    <3> QED
      BY <3>1, <3>2, <3>3, <3>5
  <2> QED
    BY <2>1, <2>2
<1>4. CASE UNCHANGED <<calls, tasks>>
  <2>1. OfProposals'
    BY <1>2, <1>4, OfProposalsStill
  <2>2. TypeOK'
    BY <1>2, <1>3, <1>4 DEF TypeInv, TypeOK
  <2> QED
    BY <2>1, <2>2 DEF TypeInv
<1>5. CASE Move(s, "finishing") /\ EndTask
  <2>1. /\ calls' \in [Slots -> Calls]
        /\ calls'[s].pc = "finishing" /\ calls'[s].proposal = calls[s].proposal
        /\ \A t \in Slots : t # s => calls'[t] = calls[t]
    BY <1>5, MoveTyped DEF Places, TypeInv
  <2>2. tasks' \in Seq(Slots \cup {"batch", "rebuild"})
    BY <1>5, TurnTyped DEF AlreadyBatched, PublishBefore, TreeDirty
  <2>3. OfProposals'
    BY <1>1, <1>2, <2>1, OfProposalsKept
  <2>4. TypeOK'
    BY <1>2, <1>3, <2>1, <2>2 DEF TypeInv, TypeOK
  <2> QED
    BY <2>3, <2>4 DEF TypeInv
<1> QED
  BY <1>2, <1>4, <1>5

\* The window is published, or left behind.
LEMMA PublishWindowTyped ==
    ASSUME TypeInv, NEW s \in Slots, PublishWindow(s)
    PROVE  TypeInv'
<1> USE DEF streamVars
<1> DEFINE call == calls[s]
           M == With(call.since + 1, call.until)
<1>1. /\ call.proposal \in Proposals /\ granted[call.proposal] # NotYet
      /\ call \in Calls /\ call.since \in 0..MaxSeq /\ call.until \in 0..MaxSeq
  <2>1. call.proposal \in Proposals /\ granted[call.proposal] # NotYet /\ call \in Calls
    BY DEF PublishWindow, Turn, TypeInv, TypeOK, OfProposals, InFlight
  <2> QED
    BY <2>1, CallTyped
<1>2. call.since \in Nat
  BY <1>1, BoundaryAssumption
<1>3. /\ inModel' = M /\ modelSeq' = call.until
      /\ windowed' = [windowed EXCEPT ![call.proposal] = Edits(call.since + 1..call.until)]
      /\ Committed(M, call.proposal) \/ NotGenerated \/ NotCommitted(M)
      /\ consumedThrough' \in {consumedThrough, call.until}
      /\ unattributed' \in {unattributed, [proposal |-> call.proposal, since |-> call.since,
                                           until |-> call.until]}
      /\ Move(s, "finishing") /\ EndTask
      /\ UNCHANGED <<journal, streamVars, operatorPaused, hold, granted, abandoned>>
  BY DEF PublishWindow, Larger
<1>4. M \subseteq Seqs /\ Edits(call.since + 1..call.until) \subseteq Seqs
  BY <1>1, <1>2, WithTyped, EditsTyped DEF TypeInv
<1>5. [proposal |-> call.proposal, since |-> call.since, until |-> call.until] \in Windows
  BY <1>1 DEF Windows
<1>6. /\ calls' \in [Slots -> Calls]
      /\ calls'[s].pc = "finishing" /\ calls'[s].proposal = call.proposal
      /\ \A t \in Slots : t # s => calls'[t] = calls[t]
  BY <1>3, MoveTyped DEF Places, TypeInv
<1>7. tasks' \in Seq(Slots \cup {"batch", "rebuild"})
  BY <1>3, TurnTyped DEF PublishWindow
<1> HIDE DEF call, M
<1>8. /\ credit' \in [Seqs -> Writers \cup {None}] /\ commitsOf' \in [Proposals -> Nat]
      /\ dirty' \in BOOLEAN /\ faults' \in 0..MaxFaults
  BY <1>1, <1>3, CommitTyped, FailureTyped DEF TypeInv, Writers
<1>9. OfProposals'
  BY <1>1, <1>3, <1>6, OfProposalsKept
<1>10. TypeOK'
  <2>1. windowed' \in [Proposals -> SUBSET Seqs] /\ unattributed' \in Windows
    BY <1>3, <1>4, <1>5 DEF TypeInv, TypeOK
  <2>2. consumedThrough' \in 0..MaxSeq /\ modelSeq' \in 0..MaxSeq /\ inModel' \subseteq Seqs
    BY <1>1, <1>3, <1>4 DEF TypeInv, TypeOK
  <2> QED
    BY <1>3, <1>6, <1>7, <1>8, <2>1, <2>2 DEF TypeInv, TypeOK
<1> QED
  BY <1>9, <1>10 DEF TypeInv

\* A commit, or a retry, is over.
LEMMA OverTyped ==
    ASSUME TypeInv, NEW s \in Slots, Finishes(s) \/ RetryFails(s) \/ RetrySucceeds(s)
    PROVE  TypeInv'
<1>1. /\ calls[s].proposal \in Proposals /\ calls[s] \in Calls /\ calls[s].until \in 0..MaxSeq
  <2>1. calls[s].proposal \in Proposals /\ calls[s] \in Calls
    BY DEF Finishes, RetryFails, RetrySucceeds, Turn, TypeInv, TypeOK, OfProposals
  <2> QED
    BY <2>1, CallTyped
<1>2. /\ Idle(s)
      /\ UNCHANGED <<journal, delivered, batchEnd, operatorPaused, modelVars, granted, abandoned>>
  BY DEF Finishes, RetryFails, RetrySucceeds, streamVars
<1>3. /\ calls' \in [Slots -> Calls] /\ calls'[s] = NoCall
      /\ \A t \in Slots : t # s => calls'[t] = calls[t]
  BY <1>2, IdleTyped
<1>4. tasks' \in Seq(Slots \cup {"batch", "rebuild"})
  BY TurnTyped DEF Finishes, RetryFails, RetrySucceeds, TypeInv, TypeOK
<1>5. /\ hold' \in Holds /\ paused' \in BOOLEAN /\ hold' \in {hold, NoHold}
  BY FinishTyped DEF Finishes, RetryFails, RetrySucceeds, streamVars, boundaryVars, TypeInv, TypeOK
<1>6. unattributed' \in {unattributed, NoWindow} /\ consumedThrough' \in {consumedThrough, calls[s].until}
  BY DEF Finishes, RetryFails, RetrySucceeds, boundaryVars, Larger
<1>7. /\ credit' \in [Seqs -> Writers \cup {None}] /\ commitsOf' \in [Proposals -> Nat]
      /\ dirty' \in BOOLEAN /\ faults' \in 0..MaxFaults
  <2>1. CASE UNCHANGED <<gitVars, faults>>
    BY <2>1 DEF gitVars, TypeInv, TypeOK
  <2>2. CASE Committed(inModel, calls[s].proposal)
    BY <1>1, <2>2, CommitTyped DEF TypeInv, Writers
  <2>3. CASE NotGenerated \/ NotCommitted(inModel)
    BY <2>3, FailureTyped DEF TypeInv
  <2> QED
    BY <2>1, <2>2, <2>3 DEF Finishes, RetryFails, RetrySucceeds
<1>8. OfProposals'
  BY <1>2, <1>3, <1>5, <1>6, NothingTyped, OfProposalsKept
<1>9. TypeOK'
  <2>1. unattributed' \in Windows /\ consumedThrough' \in 0..MaxSeq
    BY <1>1, <1>6, NothingTyped DEF TypeInv, TypeOK
  <2> QED
    BY <1>2, <1>3, <1>4, <1>5, <1>7, <2>1 DEF modelVars, TypeInv, TypeOK
<1> QED
  BY <1>8, <1>9 DEF TypeInv

\* The rest of the loop.
LEMMA LoopTyped ==
    ASSUME TypeInv, Drain \/ RunBatch \/ CallRebuild \/ RunRebuild \/ OperatorPause \/ OperatorResume
    PROVE  TypeInv'
<1> USE DEF streamVars, modelVars, boundaryVars
<1>1. UNCHANGED <<journal, windowed, consumedThrough, hold, unattributed, calls, granted, abandoned>>
  BY DEF Drain, RunBatch, CallRebuild, RunRebuild, OperatorPause, OperatorResume
<1>2. OfProposals'
  BY <1>1, OfProposalsStill
<1>3. tasks' \in Seq(Slots \cup {"batch", "rebuild"})
  BY QueueTyped DEF Drain, RunBatch, CallRebuild, RunRebuild, OperatorPause, OperatorResume,
                    EndTask, TypeInv, TypeOK
<1>4. CASE Drain \/ CallRebuild \/ OperatorPause \/ OperatorResume
  <2>1. Len(journal) \in 0..MaxSeq
    BY LenProperties, BoundaryAssumption DEF TypeInv, TypeOK
  <2>2. /\ batchEnd' \in 0..MaxSeq /\ paused' \in BOOLEAN /\ operatorPaused' \in BOOLEAN
        /\ UNCHANGED <<delivered, inModel, modelSeq, gitVars, faults>>
    BY <1>4, <2>1 DEF Drain, CallRebuild, OperatorPause, OperatorResume, TypeInv, TypeOK
  <2>3. TypeOK'
    BY <1>1, <1>3, <2>2 DEF gitVars, TypeInv, TypeOK
  <2> QED
    BY <1>2, <2>3 DEF TypeInv
<1>5. CASE RunRebuild
  <2>1. /\ credit' \in [Seqs -> Writers \cup {None}] /\ commitsOf' \in [Proposals -> Nat]
        /\ dirty' \in BOOLEAN /\ faults' \in 0..MaxFaults
    <3>1. CASE UNCHANGED <<gitVars, faults>>
      BY <3>1 DEF gitVars, TypeInv, TypeOK
    <3>2. CASE Committed(inModel, Owner)
      BY <3>2, CommitTyped DEF TypeInv, Writers
    <3>3. CASE OrdinaryNotGenerated \/ NotCommitted(inModel)
      BY <3>3, FailureTyped DEF OrdinaryNotGenerated, TypeInv
    <3> QED
      BY <1>5, <3>1, <3>2, <3>3 DEF RunRebuild
  <2>2. UNCHANGED <<paused, delivered, batchEnd, operatorPaused, inModel, modelSeq>>
    BY <1>5 DEF RunRebuild
  <2>3. TypeOK'
    BY <1>1, <1>3, <2>1, <2>2 DEF TypeInv, TypeOK
  <2> QED
    BY <1>2, <2>3 DEF TypeInv
<1>6. CASE RunBatch
  <2> DEFINE first == Larger(delivered, consumedThrough)
             M == With(first + 1, batchEnd)
  <2>1. first \in Nat /\ batchEnd \in 0..MaxSeq /\ delivered \in 0..MaxSeq /\ modelSeq \in 0..MaxSeq
    BY BoundaryAssumption DEF Larger, TypeInv, TypeOK
  <2>2. M \subseteq Seqs
    BY <2>1, WithTyped DEF TypeInv
  <2>3. /\ \/ UNCHANGED <<inModel, modelSeq, gitVars, faults>>
           \/ /\ inModel' = M /\ modelSeq' = Larger(modelSeq, batchEnd)
              /\ Committed(M, Owner) \/ NotGenerated \/ NotCommitted(M)
        /\ delivered' \in {delivered, batchEnd}
        /\ UNCHANGED <<paused, batchEnd, operatorPaused>>
    BY <1>6 DEF RunBatch, OrdinaryNotGenerated
  <2> HIDE DEF first, M
  <2>4. /\ credit' \in [Seqs -> Writers \cup {None}] /\ commitsOf' \in [Proposals -> Nat]
        /\ dirty' \in BOOLEAN /\ faults' \in 0..MaxFaults
    <3>1. CASE UNCHANGED <<gitVars, faults>>
      BY <3>1 DEF gitVars, TypeInv, TypeOK
    <3>2. CASE Committed(M, Owner)
      BY <3>2, CommitTyped DEF TypeInv, Writers
    <3>3. CASE NotGenerated \/ NotCommitted(M)
      BY <3>3, FailureTyped DEF TypeInv
    <3> QED
      BY <2>3, <3>1, <3>2, <3>3
  <2>5. inModel' \subseteq Seqs /\ modelSeq' \in 0..MaxSeq /\ delivered' \in 0..MaxSeq
    BY <2>1, <2>2, <2>3 DEF Larger, TypeInv, TypeOK
  <2>6. TypeOK'
    BY <1>1, <1>3, <2>3, <2>4, <2>5 DEF TypeInv, TypeOK
  <2> QED
    BY <1>2, <2>6 DEF TypeInv
<1> QED
  BY <1>4, <1>5, <1>6

\* Every step keeps the types.
LEMMA NextTyped == TypeInv /\ [Next]_vars => TypeInv'
<1> SUFFICES ASSUME TypeInv, [Next]_vars PROVE TypeInv'
  OBVIOUS
<1>1. ASSUME NEW w \in Writers, NEW kind \in {"edit", "checkin"}, Write(w, kind) PROVE TypeInv'
  BY <1>1, WriteTyped
<1>2. ASSUME NEW s \in Slots, NEW p \in Proposals, CallBegin(s, p) \/ CallCommit(s, p) PROVE TypeInv'
  BY <1>2, BeginTyped, CommitCallTyped
<1>3. ASSUME NEW s \in Slots, CallSteps(s) PROVE TypeInv'
  <2>1. CASE BeginAnswers(s) \/ BeginFails(s) \/ ExistingFound(s) \/ ExistingNone(s)
    <3>1. PICK p \in Proposals : TRUE
      BY <2>1 DEF BeginAnswers, BeginFails, ExistingFound, ExistingNone, TypeInv, OfProposals
    <3> QED
      BY <2>1, <3>1, BeginTyped, CommitCallTyped
  <2>2. CASE CheckinFound(s) \/ WaitTimesOut(s)
    BY <2>2, CheckinTyped
  <2>3. CASE AlreadyBatched(s) \/ PublishBefore(s) \/ TreeDirty(s) \/ PublishWindow(s)
    BY <2>3, SectionTyped, PublishWindowTyped
  <2>4. CASE RetryFails(s) \/ RetrySucceeds(s) \/ Finishes(s)
    BY <2>4, OverTyped
  <2> QED
    BY <1>3, <2>1, <2>2, <2>3, <2>4 DEF CallSteps
<1>4. CASE (\E p \in Proposals : Abort(p)) \/ Expire
  BY <1>4, EndsTyped
<1>5. CASE Drain \/ RunBatch \/ CallRebuild \/ RunRebuild \/ OperatorPause \/ OperatorResume
  BY <1>5, LoopTyped
<1>6. CASE UNCHANGED vars
  <2>1. OfProposals'
    BY <1>6, OfProposalsStill DEF vars, boundaryVars
  <2>2. TypeOK'
    BY <1>6 DEF vars, streamVars, modelVars, gitVars, boundaryVars, TypeInv, TypeOK
  <2> QED
    BY <2>1, <2>2 DEF TypeInv
<1> QED
  BY <1>1, <1>2, <1>3, <1>4, <1>5, <1>6 DEF Next

\* Nothing is recorded, held or asked for.
LEMMA InitTyped == Init => TypeInv
<1> SUFFICES ASSUME Init PROVE TypeInv
  OBVIOUS
<1>1. journal \in Seq(Entry) /\ Len(journal) = 0 /\ tasks \in Seq(Slots \cup {"batch", "rebuild"})
  BY EmptySeq DEF Init
<1>2. calls \in [Slots -> Calls] /\ hold \in Holds /\ unattributed \in Windows
  BY NothingTyped DEF Init
<1>3. 0 \in 0..MaxSeq /\ 0 \in 0..MaxFaults /\ 0 <= MaxSeq
  BY BoundaryAssumption
<1>4. TypeOK
  BY <1>1, <1>2, <1>3 DEF Init, TypeOK
<1>5. OfProposals
  BY NothingTyped DEF Init, OfProposals, InFlight
<1> QED
  BY <1>4, <1>5 DEF TypeInv

\* Well typed, whatever the circumstances.
THEOREM SpecTypeOK == Spec => []TypeOK
<1>1. TypeInv => TypeOK
  BY DEF TypeInv
<1> QED
  BY <1>1, InitTyped, NextTyped, PTL DEF Spec


-----------------------------------------------------------------------------
(* Windows of the journal.                                                   *)

\* An entry is an edit or a check-in of a writer's.
LEMMA Entries ==
    ASSUME TypeInv
    PROVE  /\ Len(journal) \in Nat /\ Len(journal) <= MaxSeq /\ MaxSeq \in Nat
           /\ \A e \in 1..Len(journal) : /\ journal[e].kind \in {"edit", "checkin"}
                                         /\ journal[e].by \in Writers
                                         /\ journal[e] = [by |-> journal[e].by, kind |-> journal[e].kind]
<1>1. journal \in Seq(Entry) /\ Len(journal) <= MaxSeq /\ MaxSeq \in Nat
  BY BoundaryAssumption DEF TypeInv, TypeOK
<1>2. Len(journal) \in Nat /\ \A e \in 1..Len(journal) : journal[e] \in Entry
  BY <1>1, LenProperties, ElementOfSeq
<1> QED
  BY <1>1, <1>2 DEF Entry

\* The numbers of the state.
LEMMA BoundaryNumbers ==
    ASSUME TypeInv
    PROVE  /\ modelSeq \in Nat /\ delivered \in Nat /\ consumedThrough \in Nat /\ batchEnd \in Nat
           /\ \A p \in Proposals : granted[p] \in Int /\ (granted[p] # NotYet => granted[p] \in Nat)
           /\ \A s \in Slots : calls[s].since \in Nat /\ calls[s].until \in Nat
           /\ unattributed.since \in Nat /\ unattributed.until \in Nat /\ hold.since \in Nat
           /\ \A p \in Proposals : commitsOf[p] \in Nat
  BY BoundaryAssumption DEF TypeInv, TypeOK, Calls, Windows, Holds, NotYet

\* Edits by the model's names and by the proofs'.
LEMMA EditsAre ==
    /\ \A a, b : Edits(a + 1..b) = Window(journal, a, b)
    /\ \A p : EntriesOf(p, "edit") = EditsBy(journal, p)
  BY DEF Edits, Window, EntriesOf, EditsBy

\* The edits of a proposal that its window holds.
LEMMA WindowBy ==
    ASSUME TypeInv, NEW g \in Nat, NEW c \in Nat, c <= Len(journal), NEW p,
           NEW e \in Window(journal, g, c), journal[e].by = p
    PROVE  e \in EditsBy(journal, p)
<1>1. e \in 1..Len(journal) /\ journal[e].kind = "edit"
  BY Entries DEF Window
<1> QED
  BY <1>1, Entries DEF EditsBy

\* The first check-in is one.
LEMMA EndsOnce ==
    ASSUME NEW j, Len(j) \in Nat, NEW g \in Nat, NEW c, NEW d, EndsAt(j, g, c), EndsAt(j, g, d)
    PROVE  c = d
  BY DEF EndsAt

\* A window that may be published is not settled.
LEMMA NotSettled ==
    ASSUME NEW j, Len(j) \in Nat, NEW g \in Nat, NEW c, NEW p, NEW seq \in Nat,
           EndsAt(j, g, c), IsOf(j, g, c, p), seq <= g
    PROVE  ~Settled(j, p, g, seq)
  BY EndsOnce DEF Settled

\* A proposal's window is all it wrote.
LEMMA WindowIsAll ==
    ASSUME TypeInv, ProposalInv, NEW p \in Proposals, NEW c, granted[p] \in Nat,
           EndsAt(journal, granted[p], c), IsOf(journal, granted[p], c, p)
    PROVE  Window(journal, granted[p], c) = EditsBy(journal, p) /\ EditsBy(journal, p) # {}
<1> DEFINE g == granted[p]
           W == Window(journal, g, c)
<1>1. /\ Len(journal) \in Nat /\ g \in Nat /\ c \in g + 1..Len(journal) /\ journal[c].kind = "checkin"
  BY Entries DEF EndsAt
<1>2. \A e \in W : e \in EditsBy(journal, p)
  BY <1>1, WindowBy DEF IsOf
<1>3. PICK f \in W : TRUE
  BY DEF IsOf
<1>4. f \in Nat /\ f <= c /\ f \in EditsBy(journal, p)
  BY <1>1, <1>2, <1>3 DEF Window
<1>5. ASSUME NEW e \in EditsBy(journal, p) PROVE e \in W
  <2>1. e \in 1..Len(journal) /\ journal[e].kind = "edit" /\ g < e
    BY <1>5 DEF EditsBy, ProposalInv
  <2>2. c \notin f..e
    BY <1>1, <1>4, <1>5 DEF ProposalInv
  <2>3. e <= c
    BY <1>1, <1>4, <2>1, <2>2
  <2> QED
    BY <1>1, <2>1, <2>3 DEF Window
<1> QED
  BY <1>2, <1>4, <1>5

\* An entry more leaves what is closed as it is.
LEMMA EndsKept ==
    ASSUME NEW j \in Seq(Entry), NEW x \in Entry, NEW k, k = Append(j, x),
           NEW g \in Nat, NEW c, EndsAt(j, g, c), NEW p
    PROVE  /\ EndsAt(k, g, c) /\ Window(k, g, c) = Window(j, g, c)
           /\ IsOf(k, g, c, p) <=> IsOf(j, g, c, p)
<1>1. /\ Len(j) \in Nat /\ Len(k) = Len(j) + 1 /\ \A e \in 1..Len(j) : k[e] = j[e]
  BY LenProperties, AppendProperties
<1>2. c \in g + 1..Len(j) /\ \A e \in g + 1..c : e \in 1..Len(j)
  BY <1>1 DEF EndsAt
<1>3. EndsAt(k, g, c)
  BY <1>1, <1>2 DEF EndsAt
<1>4. Window(k, g, c) = Window(j, g, c)
  BY <1>1, <1>2 DEF Window
<1>5. \A e \in Window(j, g, c) : k[e] = j[e]
  BY <1>1, <1>2 DEF Window
<1> QED
  BY <1>3, <1>4, <1>5 DEF IsOf

\* What is settled stays so, as the journal and the model grow.
LEMMA SettledKept ==
    ASSUME NEW j \in Seq(Entry), NEW k, k = j \/ \E x \in Entry : k = Append(j, x),
           NEW g \in Nat, NEW p, NEW m \in Nat, NEW n \in Nat, m <= n, Settled(j, p, g, m)
    PROVE  Settled(k, p, g, n)
<1>1. CASE g < m
  BY <1>1 DEF Settled
<1>2. CASE ~(g < m)
  <2>1. PICK c \in Seqs : EndsAt(j, g, c) /\ ~IsOf(j, g, c, p)
    BY <1>2 DEF Settled
  <2>2. EndsAt(k, g, c) /\ ~IsOf(k, g, c, p)
    BY <2>1, EndsKept
  <2> QED
    BY <2>2 DEF Settled
<1> QED
  BY <1>1, <1>2

\* So does a call, as the hold ends over a settled one or the window is committed.
LEMMA FlightKept ==
    ASSUME NEW c, NEW start, start[c.proposal] \in Nat, c.since \in Nat,
           NEW j \in Seq(Entry), NEW k, k = j \/ \E x \in Entry : k = Append(j, x),
           NEW m \in Nat, NEW n \in Nat, m <= n, c.until \in Nat,
           NEW h, NEW g, g = h \/ (g = NoHold /\ Settled(k, c.proposal, start[c.proposal], n)),
           NEW u, NEW v, v \in {u, NoWindow} \/ v.proposal = c.proposal,
           Flight(c, h, u, start, m, j)
    PROVE  Flight(c, g, v, start, n, k)
<1>1. c.pc = "queued" => EndsAt(k, c.since, c.until) /\ IsOf(k, c.since, c.until, c.proposal)
  BY EndsKept DEF Flight
<1>2. Settled(j, c.proposal, start[c.proposal], m) => Settled(k, c.proposal, start[c.proposal], n)
  BY SettledKept
<1>3. c.pc = "retrying" => c.until <= n /\ start[c.proposal] < n /\ EditsBy(k, c.proposal) # {}
  <2>1. EditsBy(j, c.proposal) \subseteq EditsBy(k, c.proposal)
    <3>1. \A e \in 1..Len(j) : e \in 1..Len(k) /\ k[e] = j[e]
      BY LenProperties, AppendProperties
    <3> QED
      BY <3>1 DEF EditsBy
  <2> QED
    BY <2>1 DEF Flight
<1> QED
  BY <1>1, <1>2, <1>3 DEF Flight

-----------------------------------------------------------------------------
(* What a step that leaves them alone keeps.                                 *)

\* A call in flight is of a proposal that began.
LEMMA FlightStarts ==
    ASSUME TypeInv, NEW s \in Slots, InFlight(s)
    PROVE  /\ calls[s].proposal \in Proposals /\ granted[calls[s].proposal] \in Nat
           /\ calls[s].since \in Nat /\ calls[s].until \in Nat
<1>1. calls[s].proposal \in Proposals /\ granted[calls[s].proposal] # NotYet
  BY DEF TypeInv, OfProposals, InFlight
<1> QED
  BY <1>1, BoundaryNumbers

\* The calls that do not move are what they were, as the journal and the model grow, as long
\* as a hold ends over calls that have nothing left to publish.
LEMMA FlightStill ==
    ASSUME TypeInv, FlightInv, NEW s \in Slots, InFlight(s), calls'[s] = calls[s],
           granted' = granted, journal' = journal \/ (\E x \in Entry : journal' = Append(journal, x)),
           modelSeq' \in Nat, modelSeq <= modelSeq',
           \/ hold' = hold
           \/ /\ hold' = NoHold
              /\ Settled(journal', calls[s].proposal, granted[calls[s].proposal], modelSeq'),
           unattributed' \in {unattributed, NoWindow} \/ unattributed'.proposal = calls[s].proposal
    PROVE  Flight(calls'[s], hold', unattributed', granted', modelSeq', journal')
<1> DEFINE c == calls[s]
<1>1. /\ granted[c.proposal] \in Nat /\ c.since \in Nat /\ c.until \in Nat
  BY FlightStarts
<1>2. Flight(c, hold, unattributed, granted, modelSeq, journal)
  BY DEF FlightInv
<1>3. journal \in Seq(Entry) /\ modelSeq \in Nat
  BY BoundaryNumbers DEF TypeInv, TypeOK
<1>4. Flight(c, hold', unattributed', granted, modelSeq', journal')
  <2> HIDE DEF c
  <2> QED
    BY <1>1, <1>2, <1>3, FlightKept DEF c
<1> QED
  BY <1>4

\* Nothing that concerns the proposals' writing and the model has changed.
LEMMA ProposalStill ==
    ASSUME TypeInv, ProposalInv, UNCHANGED <<journal, granted, commitsOf>>,
           modelSeq' \in Nat, modelSeq <= modelSeq'
    PROVE  ProposalInv'
<1>1. \A p \in Proposals : granted[p] \in Int /\ modelSeq \in Nat
  BY BoundaryNumbers
<1> QED
  BY <1>1 DEF ProposalInv

\* Neither the model nor git has changed.
LEMMA ModelStill ==
    ASSUME TypeInv, WindowInv, ModelInv, CreditInv,
           UNCHANGED <<journal, unattributed, modelVars, gitVars, abandoned>>,
           granted' = granted \/ unattributed = NoWindow,
           delivered' <= modelSeq, consumedThrough' <= modelSeq
    PROVE  WindowInv' /\ ModelInv' /\ CreditInv'
<1>1. WindowInv'
  BY DEF WindowInv, modelVars, gitVars
<1>2. ModelInv'
  BY DEF ModelInv, modelVars, gitVars
<1>3. CreditInv'
  BY DEF CreditInv, modelVars, gitVars
<1> QED
  BY <1>1, <1>2, <1>3

\* The queue has changed by nothing, a task at its end that is no batch and no call of a hold
\* on the stream's, or the end of the one at its head.
LEMMA QueueStill ==
    ASSUME QueueInv, UNCHANGED <<journal, batchEnd, tasks>>,
           \A s \in Slots : calls[s].pc \in {"queued", "retrying"} => calls'[s].pc \in {"queued", "retrying"},
           hold' \in {hold, NoHold}, unattributed' \in {unattributed, NoWindow}
    PROVE  QueueInv'
  BY DEF QueueInv

\* The task at the head is over.
LEMMA QueueEnds ==
    ASSUME TypeInv, QueueInv, tasks # <<>>, EndTask, UNCHANGED <<journal, batchEnd>>,
           \A s \in Slots : s # Head(tasks) /\ calls[s].pc \in {"queued", "retrying"}
                               => calls'[s].pc \in {"queued", "retrying"},
           hold' \in {hold, NoHold},
           unattributed' \in {unattributed, NoWindow} \/ ~Queued("batch")
    PROVE  QueueInv'
<1>1. /\ tasks' = Tail(tasks) /\ Len(tasks') = Len(tasks) - 1 /\ Head(tasks) = tasks[1]
      /\ \A i \in 1..Len(tasks') : tasks'[i] = tasks[i + 1]
      /\ Len(tasks) \in Nat /\ Len(tasks) >= 1
  BY HeadTailProperties, LenProperties, EmptySeq DEF EndTask, TypeInv, TypeOK
<1>2. \A i \in 1..Len(tasks') : i + 1 \in 1..Len(tasks) /\ i + 1 # 1 /\ i \in Int
  BY <1>1
<1>3. ASSUME NEW i \in 1..Len(tasks'), tasks'[i] \in Slots
      PROVE  /\ calls'[tasks'[i]].pc \in {"queued", "retrying"}
             /\ \A k \in 1..Len(tasks') : tasks'[k] = tasks'[i] => k = i
  <2>1. tasks[i + 1] \in Slots /\ i + 1 \in 1..Len(tasks) /\ i + 1 # 1 /\ tasks'[i] = tasks[i + 1]
    BY <1>1, <1>2, <1>3
  <2>2. /\ calls[tasks[i + 1]].pc \in {"queued", "retrying"}
        /\ \A k \in 1..Len(tasks) : tasks[k] = tasks[i + 1] => k = i + 1
    BY <2>1 DEF QueueInv
  <2>3. tasks[1] # tasks[i + 1]
    BY <1>1, <2>1, <2>2
  <2>4. ASSUME NEW k \in 1..Len(tasks'), tasks'[k] = tasks'[i] PROVE k = i
    <3>1. k + 1 = i + 1
      BY <1>1, <1>2, <2>1, <2>2, <2>4
    <3> QED
      BY <1>2, <3>1
  <2> QED
    BY <1>1, <2>1, <2>2, <2>3, <2>4
<1>4. ASSUME NEW i \in 1..Len(tasks'), tasks'[i] = "batch"
      PROVE  /\ unattributed' = NoWindow
             /\ hold' # NoHold => \A k \in 1..i : tasks'[k] \notin Slots
             /\ batchEnd' <= Len(journal')
  <2>1. tasks[i + 1] = "batch" /\ i + 1 \in 1..Len(tasks)
    BY <1>1, <1>2, <1>4
  <2>2. /\ unattributed = NoWindow /\ batchEnd <= Len(journal)
        /\ hold # NoHold => \A k \in 1..i + 1 : tasks[k] \notin Slots
    BY <2>1 DEF QueueInv
  <2>3. Queued("batch")
    BY <2>1 DEF Queued
  <2>4. \A k \in 1..i : k + 1 \in 1..i + 1 /\ tasks'[k] = tasks[k + 1]
    BY <1>1
  <2> QED
    BY <2>2, <2>3, <2>4
<1> QED
  BY <1>3, <1>4 DEF QueueInv

\* A task more: a call that was nowhere in the queue, a rebuild, or a batch of a stream that
\* nobody holds.
LEMMA QueueGrows ==
    ASSUME TypeInv, QueueInv, NEW t \in Slots \cup {"batch", "rebuild"}, tasks' = Append(tasks, t),
           UNCHANGED <<journal, hold, unattributed>>,
           batchEnd' \in {batchEnd, Len(journal)},
           t \in Slots => /\ calls[t].pc \notin {"queued", "retrying"}
                          /\ calls'[t].pc \in {"queued", "retrying"},
           \A s \in Slots : calls[s].pc \in {"queued", "retrying"} => calls'[s].pc \in {"queued", "retrying"},
           t = "batch" => hold = NoHold /\ unattributed = NoWindow /\ batchEnd' = Len(journal)
    PROVE  QueueInv'
<1>1. /\ Len(tasks') = Len(tasks) + 1 /\ Len(tasks) \in Nat /\ tasks'[Len(tasks) + 1] = t
      /\ \A i \in 1..Len(tasks) : tasks'[i] = tasks[i]
  BY AppendProperties, LenProperties DEF TypeInv, TypeOK
<1>2. \A i \in 1..Len(tasks') : i \in 1..Len(tasks) \/ i = Len(tasks) + 1
  BY <1>1
<1>3. "batch" \notin Slots /\ "rebuild" \notin Slots
  BY BoundaryAssumption
<1>4. ASSUME NEW i \in 1..Len(tasks'), tasks'[i] \in Slots
      PROVE  /\ calls'[tasks'[i]].pc \in {"queued", "retrying"}
             /\ \A k \in 1..Len(tasks') : tasks'[k] = tasks'[i] => k = i
  <2>1. \A k \in 1..Len(tasks) : tasks[k] \in Slots => calls[tasks[k]].pc \in {"queued", "retrying"}
    BY DEF QueueInv
  <2>2. \A k \in 1..Len(tasks) : t \in Slots => tasks[k] # t
    BY <2>1
  <2>3. CASE i \in 1..Len(tasks)
    BY <1>1, <1>2, <1>4, <2>1, <2>2, <2>3 DEF QueueInv
  <2>4. CASE i = Len(tasks) + 1
    BY <1>1, <1>2, <1>4, <2>2, <2>4
  <2> QED
    BY <1>2, <2>3, <2>4
<1>5. ASSUME NEW i \in 1..Len(tasks'), tasks'[i] = "batch"
      PROVE  /\ unattributed' = NoWindow
             /\ hold' # NoHold => \A k \in 1..i : tasks'[k] \notin Slots
             /\ batchEnd' <= Len(journal')
  <2>1. CASE i \in 1..Len(tasks)
    <3>1. /\ unattributed = NoWindow /\ batchEnd <= Len(journal)
          /\ hold # NoHold => \A k \in 1..i : tasks[k] \notin Slots
      BY <1>1, <1>5, <2>1 DEF QueueInv
    <3>2. \A k \in 1..i : k \in 1..Len(tasks)
      BY <1>1, <2>1
    <3>3. Len(journal) <= Len(journal)
      BY Entries
    <3> QED
      BY <1>1, <3>1, <3>2, <3>3
  <2>2. CASE i = Len(tasks) + 1
    BY <1>1, <1>5, <2>2, Entries
  <2> QED
    BY <1>2, <2>1, <2>2
<1> QED
  BY <1>4, <1>5 DEF QueueInv

-----------------------------------------------------------------------------
(* Steps, with no circumstance but that an applied window may be given up.   *)

\* What is left of the model where the circumstances that disturb it do not occur.
LEMMA Plain ==
    ASSUME Circumstances \subseteq {"abandons"}
    PROVE  /\ \A first, last : With(first, last) = inModel \cup Edits(first..last)
           /\ ~OrdinaryNotGenerated /\ \A M : ~NotCommitted(M)
           /\ \A S, p : Isolated(S, p) <=> S # {} /\ \A e \in S : journal[e].by = p
           /\ Quiet <=> Reading = {}
  BY DEF With, Reread, OrdinaryNotGenerated, NotCommitted, Isolated, Quiet

\* While a commit is in flight no begin is reading the journal.
LEMMA NoReading ==
    ASSUME ReadingInv, NEW s \in Slots, InFlight(s)
    PROVE  \A t \in Slots : calls[t].pc # "reading"
<1>1. calls[s] # NoCall /\ calls[s].pc # "reading"
  BY DEF InFlight, NoCall
<1> QED
  BY <1>1 DEF ReadingInv

\* Commits in flight while the boundary is held are all the holder's.
LEMMA Together ==
    ASSUME FlightInv, NEW s \in Slots, NEW t \in Slots, InFlight(s), InFlight(t), hold # NoHold
    PROVE  calls[s].proposal = calls[t].proposal
  BY DEF FlightInv, Flight

\* A commit moves on: the others stay as they are, also where it ends the hold, with nothing
\* left to publish, or leaves a window.
LEMMA CallMoves ==
    ASSUME TypeInv, ReadingInv, FlightInv, NEW s \in Slots, InFlight(s),
           \A t \in Slots : t # s => calls'[t] = calls[t], calls'[s].pc # "reading",
           UNCHANGED <<journal, granted>>, modelSeq' \in Nat, modelSeq <= modelSeq',
           \/ hold' = hold
           \/ /\ hold' = NoHold
              /\ Settled(journal, calls[s].proposal, granted[calls[s].proposal], modelSeq'),
           \/ unattributed' \in {unattributed, NoWindow}
           \/ hold # NoHold /\ unattributed'.proposal = calls[s].proposal,
           calls'[s].pc # "idle" => Flight(calls'[s], hold', unattributed', granted', modelSeq', journal')
    PROVE  ReadingInv' /\ FlightInv'
<1>1. \A t \in Slots : calls[t].pc # "reading"
  BY NoReading
<1>2. ReadingInv'
  BY <1>1 DEF ReadingInv
<1>3. ASSUME NEW t \in Slots, t # s, calls[t].pc \notin {"idle", "reading"}
      PROVE  Flight(calls'[t], hold', unattributed', granted', modelSeq', journal')
  <2>1. InFlight(t) /\ calls'[t] = calls[t]
    BY <1>3 DEF InFlight
  <2>2. hold # NoHold => calls[t].proposal = calls[s].proposal
    BY <2>1, Together
  <2>3. /\ \/ hold' = hold
           \/ /\ hold' = NoHold
              /\ Settled(journal', calls[t].proposal, granted[calls[t].proposal], modelSeq')
        /\ unattributed' \in {unattributed, NoWindow} \/ unattributed'.proposal = calls[t].proposal
    BY <2>2
  <2>4. granted' = granted /\ journal' = journal
    OBVIOUS
  <2> QED
    BY <2>1, <2>3, <2>4, FlightStill
<1>4. \A t \in Slots : t # s => calls'[t].pc = calls[t].pc
  OBVIOUS
<1>5. FlightInv'
  BY <1>3, <1>4 DEF FlightInv, InFlight
<1> QED
  BY <1>2, <1>5

\* The end of a commit ends its own hold, and sets the stream going if nothing is held.
LEMMA FinishHolds ==
    ASSUME TypeInv, HoldInv, NEW p, NEW u, Finish(p, u), unattributed' = u,
           u \in {unattributed, NoWindow}, granted' = granted
    PROVE  HoldInv' /\ hold' \in {hold, NoHold}
<1>1. hold' \in {hold, NoHold}
  BY DEF Finish
<1>2. Holding(hold', u) => paused' = paused
  BY DEF Finish, ReleaseUnless
<1>3. Holding(hold', u) => Holding(hold, unattributed)
  BY <1>1 DEF Holding
<1>4. HeldMeansPaused'
  BY <1>2, <1>3 DEF HoldInv, HeldMeansPaused
<1> QED
  BY <1>1, <1>4 DEF HoldInv

\* An ordinary commit is no proposal's.
LEMMA OwnerCommits ==
    ASSUME TypeInv, NEW M, Committed(M, Owner)
    PROVE  commitsOf' = commitsOf
<1>1. commitsOf' = [p \in Proposals |-> commitsOf[p] + IF p = Owner /\ Uncommitted(M) # {} THEN 1 ELSE 0]
  BY DEF Committed
<1>2. \A p \in Proposals : commitsOf'[p] = commitsOf[p]
  BY <1>1, NothingTyped, BoundaryNumbers
<1> QED
  BY <1>1, <1>2 DEF TypeInv, TypeOK

\* Nothing uncommitted is in the model unless a window waits or was given up.
LEMMA NothingWaits ==
    ASSUME ModelInv, unattributed = NoWindow, abandoned = {}
    PROVE  Uncommitted(inModel) = {}
  BY DEF ModelInv, Uncommitted

\* An entry more, and whose edit it is.
LEMMA EntryWritten ==
    ASSUME TypeInv, NEW w \in Writers, NEW kind \in {"edit", "checkin"}, Write(w, kind)
    PROVE  LET n == Len(journal) + 1
               x == [by |-> w, kind |-> kind]
           IN  /\ x \in Entry /\ journal' = Append(journal, x)
               /\ Len(journal') = n /\ n \in Seqs /\ Len(journal) \in Nat
               /\ journal'[n] = x /\ \A e \in 1..Len(journal) : journal'[e] = journal[e]
               /\ \A p : EditsBy(journal', p) =
                             EditsBy(journal, p) \cup (IF p = w /\ kind = "edit" THEN {n} ELSE {})
               /\ UNCHANGED <<paused, delivered, batchEnd, operatorPaused, tasks, inModel, modelSeq,
                              windowed, consumedThrough, dirty, credit, commitsOf, hold,
                              unattributed, calls, granted, abandoned, faults>>
<1> DEFINE n == Len(journal) + 1
           x == [by |-> w, kind |-> kind]
<1>1. x \in Entry /\ journal' = Append(journal, x) /\ Len(journal) < MaxSeq
  BY DEF Entry, Write
<1>2. /\ Len(journal') = n /\ Len(journal) \in Nat /\ MaxSeq \in Nat
      /\ journal'[n] = x /\ \A e \in 1..Len(journal) : journal'[e] = journal[e]
  BY <1>1, LenProperties, AppendProperties, BoundaryAssumption DEF TypeInv, TypeOK
<1>3. n \in Seqs
  BY <1>1, <1>2 DEF Seqs
<1>4. ASSUME NEW p
      PROVE  EditsBy(journal', p) = EditsBy(journal, p) \cup (IF p = w /\ kind = "edit" THEN {n} ELSE {})
  <2>1. 1..Len(journal') = 1..Len(journal) \cup {n} /\ n \notin 1..Len(journal)
    BY <1>2
  <2>2. x = [by |-> p, kind |-> "edit"] <=> p = w /\ kind = "edit"
    OBVIOUS
  <2> HIDE DEF x, n
  <2> QED
    BY <1>2, <2>1, <2>2 DEF EditsBy
<1>5. UNCHANGED <<paused, delivered, batchEnd, operatorPaused, tasks, inModel, modelSeq,
                  windowed, consumedThrough, dirty, credit, commitsOf, hold,
                  unattributed, calls, granted, abandoned, faults>>
  BY DEF Write, streamVars, modelVars, gitVars, boundaryVars
<1> QED
  BY <1>1, <1>2, <1>3, <1>4, <1>5

\* A proposal writes after its begin and before any check-in that follows its edits.
LEMMA WriteKeepsProposals ==
    ASSUME TypeInv, ProposalInv, NEW w \in Writers, NEW kind \in {"edit", "checkin"}, Write(w, kind)
    PROVE  ProposalInv'
<1> DEFINE n == Len(journal) + 1
<1>0. /\ Len(journal') = n /\ Len(journal) \in Nat
      /\ journal'[n] = [by |-> w, kind |-> kind]
      /\ \A e \in 1..Len(journal) : journal'[e] = journal[e]
      /\ \A p : EditsBy(journal', p) =
                    EditsBy(journal, p) \cup (IF p = w /\ kind = "edit" THEN {n} ELSE {})
      /\ UNCHANGED <<modelSeq, commitsOf, granted>>
  BY EntryWritten
<1>1. /\ Len(journal') = n /\ Len(journal) \in Nat
      /\ journal'[n].kind = kind /\ \A e \in 1..Len(journal) : journal'[e] = journal[e]
      /\ \A p : EditsBy(journal', p) =
                    EditsBy(journal, p) \cup (IF p = w /\ kind = "edit" THEN {n} ELSE {})
      /\ UNCHANGED <<modelSeq, commitsOf, granted>>
  BY <1>0
<1> SUFFICES ASSUME NEW p \in Proposals
             PROVE  /\ granted[p] <= Len(journal')
                    /\ \A e \in EditsBy(journal', p) : granted[p] # NotYet /\ granted[p] < e
                    /\ \A e, f \in EditsBy(journal', p) : \A c \in e..f : journal'[c].kind = "edit"
                    /\ commitsOf[p] > 0 => EditsBy(journal', p) # {} /\ granted[p] < modelSeq
  BY <1>1 DEF ProposalInv
<1>2. /\ granted[p] <= Len(journal) /\ granted[p] \in Int
      /\ \A e \in EditsBy(journal, p) : granted[p] # NotYet /\ granted[p] < e
      /\ \A e, f \in EditsBy(journal, p) : \A c \in e..f : journal[c].kind = "edit"
      /\ commitsOf[p] > 0 => EditsBy(journal, p) # {} /\ granted[p] < modelSeq
  BY BoundaryNumbers DEF ProposalInv
<1>3. /\ EditsBy(journal, p) \subseteq 1..Len(journal)
  BY DEF EditsBy
<1>4. granted[p] <= Len(journal')
  BY <1>1, <1>2
<1>5. commitsOf[p] > 0 => EditsBy(journal', p) # {} /\ granted[p] < modelSeq
  BY <1>1, <1>2
<1>6. CASE ~(p = w /\ kind = "edit")
  <2>1. EditsBy(journal', p) = EditsBy(journal, p)
    BY <1>1, <1>6
  <2>2. ASSUME NEW e \in EditsBy(journal, p), NEW f \in EditsBy(journal, p), NEW c \in e..f
        PROVE  journal'[c].kind = "edit"
    <3>1. c \in 1..Len(journal)
      BY <1>1, <1>3
    <3> QED
      BY <1>1, <1>2, <3>1
  <2> QED
    BY <1>2, <1>4, <1>5, <2>1, <2>2
<1>7. CASE p = w /\ kind = "edit"
  <2>1. MayApply(p)
    BY <1>7 DEF Write
  <2>2. /\ granted[p] # NotYet
        /\ \A e \in EditsBy(journal, p) : \A c \in e..Len(journal) : journal[c].kind = "edit"
    BY <2>1, EditsAre DEF MayApply
  <2>3. \A e \in EditsBy(journal', p) : e \in EditsBy(journal, p) \/ e = n
    BY <1>1, <1>7
  <2>4. granted[p] < n
    BY <1>1, <1>2
  <2>5. ASSUME NEW e \in EditsBy(journal', p), NEW f \in EditsBy(journal', p), NEW c \in e..f
        PROVE  journal'[c].kind = "edit"
    <3>1. e \in 1..n /\ f \in 1..n /\ e \in Int /\ f \in Int
      BY <1>1, <1>3, <2>3
    <3>2. CASE c = n
      BY <1>1, <1>7, <3>2
    <3>3. CASE c # n
      <4>1. c \in 1..Len(journal) /\ e # n /\ c \in e..Len(journal)
        BY <1>1, <3>1, <3>3
      <4>2. e \in EditsBy(journal, p)
        BY <2>3, <4>1
      <4> QED
        BY <1>1, <2>2, <4>1, <4>2
    <3> QED
      BY <3>2, <3>3
  <2> QED
    BY <1>2, <1>4, <1>5, <2>2, <2>3, <2>4, <2>5
<1> QED
  BY <1>6, <1>7

\* What is written concerns no window that is closed, no model and no commit.
LEMMA WriteHolds ==
    ASSUME TypeInv, IInv, NEW w \in Writers, NEW kind \in {"edit", "checkin"}, Write(w, kind)
    PROVE  IInv'
<1> USE DEF IInv
<1> DEFINE n == Len(journal) + 1
           x == [by |-> w, kind |-> kind]
<1>0. x \in Entry /\ journal' = Append(journal, x)
  BY DEF Entry, Write
<1>1. /\ Len(journal') = n /\ n \in Seqs /\ Len(journal) \in Nat
      /\ \A e \in 1..Len(journal) : journal'[e] = journal[e]
      /\ \A p : EditsBy(journal', p) =
                    EditsBy(journal, p) \cup (IF p = w /\ kind = "edit" THEN {n} ELSE {})
      /\ UNCHANGED <<paused, delivered, batchEnd, operatorPaused, tasks, inModel, modelSeq,
                     windowed, consumedThrough, dirty, credit, commitsOf, hold,
                     unattributed, calls, granted, abandoned, faults>>
  BY EntryWritten
<1>a. journal \in Seq(Entry) /\ modelSeq \in Nat /\ modelSeq <= Len(journal)
  BY BoundaryNumbers DEF TypeInv, TypeOK, ModelInv
<1>2. ReadingInv'
  <2>1. ASSUME NEW s \in Slots, calls[s].pc = "reading" PROVE EditsBy(journal', calls[s].proposal) = {}
    <3>1. EditsBy(journal, calls[s].proposal) = {}
      BY <2>1 DEF ReadingInv
    <3>2. calls[s].proposal \in Proposals
      BY <2>1 DEF TypeInv, OfProposals
    <3>3. ~(calls[s].proposal = w /\ kind = "edit")
      BY <2>1, <3>2 DEF Write, MayApply, Reading
    <3> QED
      BY <1>1, <3>1, <3>3
  <2> QED
    BY <1>1, <2>1 DEF ReadingInv
<1>3. QueueInv'
  <2>1. \A b \in Nat : b <= Len(journal) => b <= Len(journal')
    BY <1>1
  <2> QED
    BY <1>1, <2>1, BoundaryNumbers DEF QueueInv
<1>4. ProposalInv'
  BY WriteKeepsProposals
<1>5. HoldInv'
  BY <1>1 DEF HoldInv, HeldMeansPaused
<1>6. FlightInv'
  <2>1. ASSUME NEW s \in Slots, InFlight(s)
        PROVE  Flight(calls'[s], hold', unattributed', granted', modelSeq', journal')
    <3>1. /\ calls'[s] = calls[s] /\ granted' = granted /\ modelSeq' \in Nat /\ modelSeq <= modelSeq'
          /\ \E y \in Entry : journal' = Append(journal, y)
          /\ hold' = hold /\ unattributed' \in {unattributed, NoWindow}
      BY <1>0, <1>1, <1>a
    <3> QED
      BY <2>1, <3>1, FlightStill
  <2> QED
    BY <1>1, <2>1 DEF FlightInv, InFlight
<1>7. \A a \in Nat, b \in Nat : b <= Len(journal) => Window(journal', a, b) = Window(journal, a, b)
  BY <1>1 DEF Window
<1>8. unattributed # NoWindow =>
         LET u == unattributed
         IN  /\ Window(journal', u.since, u.until) = Window(journal, u.since, u.until)
             /\ EndsAt(journal', u.since, u.until)
             /\ IsOf(journal', u.since, u.until, u.proposal)
  <2> SUFFICES ASSUME unattributed # NoWindow
               PROVE  LET u == unattributed
                      IN  /\ Window(journal', u.since, u.until) = Window(journal, u.since, u.until)
                          /\ EndsAt(journal', u.since, u.until)
                          /\ IsOf(journal', u.since, u.until, u.proposal)
    OBVIOUS
  <2> DEFINE a == unattributed.since
             b == unattributed.until
             p == unattributed.proposal
  <2>1. a \in Nat /\ EndsAt(journal, a, b) /\ IsOf(journal, a, b, p)
    BY BoundaryNumbers DEF WindowInv
  <2>2. b \in Nat /\ b <= Len(journal)
    BY <2>1, BoundaryNumbers DEF EndsAt
  <2> HIDE DEF x, a, b, p
  <2>3. EndsAt(journal', a, b) /\ IsOf(journal', a, b, p)
    BY <1>0, <1>a, <2>1, EndsKept
  <2> QED
    BY <1>7, <2>1, <2>2, <2>3 DEF a, b, p
<1>9. WindowInv'
  BY <1>1, <1>8 DEF WindowInv
<1>10. ModelInv'
  <2>1. inModel = Window(journal', 0, modelSeq) /\ modelSeq <= Len(journal')
        /\ \A e \in inModel : journal'[e] = journal[e]
    BY <1>1, <1>7, <1>a DEF ModelInv, Window
  <2> QED
    BY <1>1, <1>8, <2>1 DEF ModelInv
<1>11. CreditInv'
  <2>1. credit[n] = None
    BY <1>1, <1>a DEF ModelInv, Window
  <2>2. ASSUME NEW e \in 1..n, credit[e] \in Proposals PROVE journal'[e].by \in {credit[e]} \cup abandoned
    <3>1. e \in 1..Len(journal)
      BY <1>1, <2>1, <2>2, NothingTyped
    <3> QED
      BY <1>1, <2>2, <3>1 DEF CreditInv
  <2> QED
    BY <1>1, <2>2 DEF CreditInv
<1> QED
  BY <1>2, <1>3, <1>4, <1>5, <1>6, <1>9, <1>10, <1>11

\* begin is called when nobody holds and nothing is in flight.
LEMMA CallBeginHolds ==
    ASSUME Circumstances \subseteq {"abandons"}, TypeInv, IInv, NEW s \in Slots, NEW p \in Proposals, CallBegin(s, p)
    PROVE  IInv'
<1>1. /\ hold = NoHold /\ paused' = TRUE /\ \A t \in Slots : calls[t] = NoCall
      /\ EditsBy(journal, p) = {} /\ ~Busy(p)
      /\ UNCHANGED <<journal, delivered, batchEnd, operatorPaused, tasks, modelVars,
                     consumedThrough, gitVars, boundaryVars, granted, abandoned, faults>>
  BY EditsAre DEF CallBegin
<1>2. unattributed = NoWindow
  <2> SUFFICES ASSUME unattributed # NoWindow PROVE FALSE
    OBVIOUS
  <2>1. unattributed.proposal = p
    BY <1>1, NothingTyped DEF Busy, TypeInv, OfProposals
  <2>2. granted[p] \in Nat
    BY <2>1, BoundaryNumbers DEF TypeInv, OfProposals
  <2>3. EndsAt(journal, granted[p], unattributed.until) /\ IsOf(journal, granted[p], unattributed.until, p)
    BY <2>1 DEF IInv, WindowInv
  <2> QED
    BY <1>1, <2>2, <2>3, WindowIsAll DEF IInv
<1>3. /\ calls'[s].pc = "reading" /\ calls'[s].proposal = p
      /\ \A t \in Slots : t # s => calls'[t] = NoCall
  <2> DEFINE c == [NoCall EXCEPT !.pc = "reading", !.proposal = p]
  <2>1. c \in Calls /\ c.pc = "reading" /\ c.proposal = p
    BY NewCallTyped DEF Places
  <2>2. calls' = [calls EXCEPT ![s] = c]
    BY DEF CallBegin
  <2> HIDE DEF c
  <2> QED
    BY <1>1, <2>1, <2>2, CallsTyped DEF TypeInv
<1>4. ReadingInv'
  <2>1. \A t \in Slots : calls'[t].pc = "reading" => t = s
    BY <1>3, NothingTyped
  <2> QED
    BY <1>1, <1>2, <1>3, <2>1 DEF ReadingInv, boundaryVars
<1>5. QueueInv'
  <2>1. \A t \in Slots : calls[t].pc \notin {"queued", "retrying"}
    BY <1>1, NothingTyped
  <2> QED
    BY <1>1, <2>1, QueueStill DEF IInv, boundaryVars
<1>6. ProposalInv'
  BY <1>1, BoundaryNumbers, ProposalStill DEF IInv, modelVars, gitVars
<1>7. HoldInv'
  BY <1>1, <1>2 DEF HoldInv, HeldMeansPaused, Holding, boundaryVars
<1>8. FlightInv'
  BY <1>3, NothingTyped DEF FlightInv, InFlight
<1>9. WindowInv' /\ ModelInv' /\ CreditInv'
  BY <1>1, ModelStill DEF IInv, ModelInv, boundaryVars
<1> QED
  BY <1>4, <1>5, <1>6, <1>7, <1>8, <1>9 DEF IInv

\* Its answer gives the hold, and the proposal its start; or nothing is held any more.
LEMMA BeginHolds ==
    ASSUME TypeInv, IInv, NEW s \in Slots, BeginAnswers(s) \/ BeginFails(s)
    PROVE  IInv'
<1> DEFINE q == calls[s].proposal
<1>1. /\ calls[s].pc = "reading" /\ q \in Proposals /\ calls[s] # NoCall
      /\ hold = NoHold /\ unattributed = NoWindow /\ paused /\ EditsBy(journal, q) = {}
      /\ \A t \in Slots : t # s => calls[t] = NoCall
  BY NothingTyped DEF BeginAnswers, BeginFails, IInv, ReadingInv, TypeInv, OfProposals
<1>2. /\ calls' = [calls EXCEPT ![s] = NoCall]
      /\ UNCHANGED <<journal, delivered, batchEnd, operatorPaused, tasks, modelVars,
                     consumedThrough, gitVars, unattributed, abandoned>>
  BY DEF BeginAnswers, BeginFails, streamVars, boundaryVars
<1>3. \A t \in Slots : calls'[t] = NoCall
  BY <1>1, <1>2, CallsTyped, NothingTyped DEF TypeInv
<1>4. ReadingInv' /\ FlightInv'
  BY <1>3, NothingTyped DEF ReadingInv, FlightInv, InFlight
<1>5. \A i \in 1..Len(tasks) : tasks[i] \notin Slots
  <2>1. \A t \in Slots : calls[t].pc \notin {"queued", "retrying"}
    BY <1>1, NothingTyped
  <2> QED
    BY <2>1 DEF IInv, QueueInv
<1>6. QueueInv'
  <2>1. Len(tasks) \in Nat
    BY LenProperties DEF TypeInv, TypeOK
  <2>2. \A i \in 1..Len(tasks) : \A k \in 1..i : tasks[k] \notin Slots
    BY <1>5, <2>1
  <2> QED
    BY <1>2, <1>5, <2>2 DEF IInv, QueueInv
<1>7. WindowInv' /\ ModelInv' /\ CreditInv'
  BY <1>1, <1>2, ModelStill DEF IInv, ModelInv
<1>8. CASE BeginAnswers(s)
  <2>1. /\ hold' = [proposal |-> q, since |-> Len(journal)] /\ paused' = paused
        /\ granted' = [granted EXCEPT ![q] = Len(journal)]
    BY <1>8 DEF BeginAnswers, streamVars
  <2>2. /\ granted'[q] = Len(journal)
        /\ \A p \in Proposals : p # q => granted'[p] = granted[p]
    BY <1>1, <2>1 DEF TypeInv, TypeOK
  <2>3. HoldInv'
    <3>1. hold'.since = granted'[hold'.proposal] /\ paused' /\ unattributed' = NoWindow
      BY <1>1, <1>2, <2>1, <2>2
    <3> QED
      BY <3>1 DEF HoldInv, HeldMeansPaused
  <2>4. ProposalInv'
    <3>1. commitsOf[q] \in Nat /\ ~(commitsOf[q] > 0) /\ Len(journal) <= Len(journal)
      BY <1>1, BoundaryNumbers, Entries DEF IInv, ProposalInv
    <3>2. UNCHANGED <<journal, modelSeq, commitsOf>>
      BY <1>2 DEF modelVars, gitVars
    <3>3. ASSUME NEW p \in Proposals
          PROVE  /\ granted'[p] <= Len(journal)
                 /\ \A e \in EditsBy(journal, p) : granted'[p] # NotYet /\ granted'[p] < e
                 /\ \A e, f \in EditsBy(journal, p) : \A c \in e..f : journal[c].kind = "edit"
                 /\ commitsOf[p] > 0 => EditsBy(journal, p) # {} /\ granted'[p] < modelSeq
      <4>1. CASE p = q
        BY <1>1, <2>2, <3>1, <4>1
      <4>2. CASE p # q
        BY <2>2, <4>2 DEF IInv, ProposalInv
      <4> QED
        BY <4>1, <4>2
    <3> QED
      BY <3>2, <3>3 DEF ProposalInv
  <2> QED
    BY <1>4, <1>6, <1>7, <2>3, <2>4 DEF IInv
<1>9. CASE BeginFails(s)
  <2>1. hold' = hold /\ granted' = granted
    BY <1>9 DEF BeginFails, boundaryVars
  <2>2. HoldInv'
    BY <1>1, <1>2, <2>1 DEF HoldInv, HeldMeansPaused, Holding
  <2>3. ProposalInv'
    BY <1>2, <2>1, BoundaryNumbers, ProposalStill DEF IInv, modelVars, gitVars
  <2> QED
    BY <1>4, <1>6, <1>7, <2>2, <2>3 DEF IInv
<1> QED
  BY <1>8, <1>9

\* A window is given up when no commit is in flight, and with it the hold.
LEMMA AbandonHolds ==
    ASSUME Circumstances \subseteq {"abandons"}, TypeInv, IInv, NEW p \in Proposals, Abort(p),
           unattributed.proposal = p
    PROVE  IInv'
<1>1. /\ unattributed # NoWindow /\ unattributed' = NoWindow /\ abandoned' = abandoned \cup {p}
      /\ ~CommitInFlight(p) /\ "abandons" \in Circumstances
      /\ UNCHANGED <<journal, delivered, batchEnd, operatorPaused, tasks, modelVars,
                     consumedThrough, gitVars, calls, granted, faults>>
  BY NothingTyped DEF Abort
<1>2. hold' = NoHold
  BY <1>1 DEF Abort, IInv, HoldInv
<1>3. \A s \in Slots : ~InFlight(s)
  BY <1>1 DEF CommitInFlight, InFlight, IInv, FlightInv, Flight
<1>4. ReadingInv' /\ FlightInv'
  BY <1>1, <1>3 DEF IInv, ReadingInv, FlightInv, InFlight
<1>5. QueueInv'
  BY <1>1, <1>2, QueueStill DEF IInv
<1>6. ProposalInv'
  BY <1>1, BoundaryNumbers, ProposalStill DEF IInv, modelVars, gitVars
<1>7. HoldInv' /\ WindowInv'
  BY <1>1, <1>2 DEF HoldInv, HeldMeansPaused, Holding, WindowInv
<1>8. UNCHANGED <<inModel, modelSeq, windowed, dirty, credit>>
  BY <1>1 DEF modelVars, gitVars
<1>9. ModelInv'
  <2>1. ASSUME NEW e \in inModel, credit[e] = None PROVE journal[e].by \in abandoned'
    <3>1. CASE e \in Window(journal, unattributed.since, unattributed.until)
      BY <1>1, <3>1 DEF IInv, WindowInv, IsOf
    <3>2. CASE journal[e].by \in abandoned
      BY <1>1, <3>2
    <3> QED
      BY <2>1, <3>1, <3>2 DEF IInv, ModelInv
  <2> QED
    BY <1>1, <1>8, <2>1 DEF IInv, ModelInv
<1>10. CreditInv'
  <2>1. ASSUME NEW q \in Proposals \ abandoned', NEW e \in windowed[q] PROVE e \in inModel /\ credit[e] = q
    BY <1>1, <2>1 DEF IInv, CreditInv
  <2> QED
    BY <1>1, <1>8, <2>1 DEF IInv, CreditInv
<1> QED
  BY <1>4, <1>5, <1>6, <1>7, <1>9, <1>10 DEF IInv

\* The hold ends, its proposal's or its timer's, when no commit is in flight.
LEMMA EndsHold ==
    ASSUME TypeInv, IInv,
           (\E p \in Proposals : Abort(p) /\ unattributed.proposal # p) \/ Expire,
           "no-hold" \notin Circumstances
    PROVE  IInv'
<1>1. /\ hold # NoHold /\ hold' = NoHold /\ unattributed' = unattributed
      /\ ~CommitInFlight(hold.proposal)
      /\ unattributed # NoWindow => paused' = paused
      /\ UNCHANGED <<journal, delivered, batchEnd, operatorPaused, tasks, modelVars,
                     consumedThrough, gitVars, calls, granted, abandoned, faults>>
  <2>1. CASE Expire
    BY <2>1 DEF Expire, ReleaseUnless
  <2>2. ASSUME NEW p \in Proposals, Abort(p), unattributed.proposal # p
        PROVE  /\ hold # NoHold /\ hold' = NoHold /\ unattributed' = unattributed
               /\ ~CommitInFlight(hold.proposal)
               /\ unattributed # NoWindow => paused' = paused
    <3>1. hold.proposal = p /\ ~CommitInFlight(p)
      BY <2>2 DEF Abort
    <3>2. hold # NoHold /\ hold' = NoHold /\ unattributed' = unattributed
      BY <2>2, <3>1, NothingTyped DEF Abort
    <3> QED
      BY <2>2, <3>1, <3>2 DEF Abort, IInv, HoldInv
  <2>3. ASSUME NEW p \in Proposals, Abort(p), unattributed.proposal # p
        PROVE  UNCHANGED <<journal, delivered, batchEnd, operatorPaused, tasks, modelVars,
                           consumedThrough, gitVars, calls, granted, abandoned, faults>>
    BY <2>3 DEF Abort
  <2> QED
    BY <2>1, <2>2, <2>3
<1>2. \A s \in Slots : ~InFlight(s)
  BY <1>1 DEF CommitInFlight, InFlight, IInv, FlightInv, Flight
<1>3. ReadingInv' /\ FlightInv'
  BY <1>1, <1>2 DEF IInv, ReadingInv, FlightInv, InFlight
<1>4. QueueInv'
  BY <1>1, QueueStill DEF IInv
<1>5. ProposalInv'
  BY <1>1, BoundaryNumbers, ProposalStill DEF IInv, modelVars, gitVars
<1>6. HoldInv'
  <2>1. unattributed # NoWindow => paused
    BY DEF IInv, HoldInv, HeldMeansPaused, Holding
  <2>2. unattributed' # NoWindow => paused'
    BY <1>1, <2>1
  <2> QED
    BY <1>1, <2>2 DEF HoldInv, HeldMeansPaused, Holding
<1>7. WindowInv' /\ ModelInv' /\ CreditInv'
  BY <1>1, ModelStill DEF IInv, ModelInv
<1> QED
  BY <1>3, <1>4, <1>5, <1>6, <1>7 DEF IInv

\* The operator's calls and the stream's batch: no batch is queued while the stream is held,
\* and a resume leaves a held stream paused.
LEMMA StreamHolds ==
    ASSUME Circumstances \subseteq {"abandons"}, TypeInv, IInv, Drain \/ CallRebuild \/ OperatorPause \/ OperatorResume
    PROVE  IInv'
<1>1. UNCHANGED <<journal, delivered, modelVars, consumedThrough, gitVars,
                  hold, unattributed, calls, granted, abandoned, faults>>
  BY DEF Drain, CallRebuild, OperatorPause, OperatorResume, boundaryVars, streamVars
<1>2. FlightInv'
  BY <1>1 DEF IInv, FlightInv, InFlight, modelVars
<1>3. ProposalInv'
  BY <1>1, BoundaryNumbers, ProposalStill DEF IInv, modelVars, gitVars
<1>4. WindowInv' /\ ModelInv' /\ CreditInv'
  BY <1>1, ModelStill DEF IInv, ModelInv
<1>5. HeldMeansPaused'
  BY <1>1 DEF Drain, CallRebuild, OperatorPause, OperatorResume, streamVars,
              IInv, HoldInv, HeldMeansPaused
<1>6. HoldInv'
  BY <1>1, <1>5 DEF IInv, HoldInv
<1>7. ReadingInv'
  <2>1. paused' \/ paused' = paused \/ Reading = {}
    BY Plain DEF Drain, CallRebuild, OperatorPause, OperatorResume, streamVars
  <2> QED
    BY <1>1, <2>1 DEF IInv, ReadingInv, Reading
<1>8. QueueInv'
  <2>1. CASE OperatorPause \/ OperatorResume
    <3>1. UNCHANGED <<batchEnd, tasks>>
      BY <2>1 DEF OperatorPause, OperatorResume
    <3> QED
      BY <1>1, <3>1, QueueStill DEF IInv
  <2>2. CASE CallRebuild
    <3>1. tasks' = Append(tasks, "rebuild") /\ batchEnd' = batchEnd
      BY <2>2 DEF CallRebuild, streamVars
    <3> QED
      BY <1>1, <3>1, BoundaryAssumption, QueueGrows DEF IInv
  <2>3. CASE Drain
    <3>1. tasks' = Append(tasks, "batch") /\ batchEnd' = Len(journal) /\ ~paused
      BY <2>3 DEF Drain
    <3>2. hold = NoHold /\ unattributed = NoWindow
      BY <3>1 DEF IInv, HoldInv, HeldMeansPaused, Holding
    <3> QED
      BY <1>1, <3>1, <3>2, BoundaryAssumption, QueueGrows DEF IInv
  <2> QED
    BY <2>1, <2>2, <2>3
<1> QED
  BY <1>2, <1>3, <1>4, <1>6, <1>7, <1>8 DEF IInv

\* A commit that is called is the holder's or of the window, or its proposal is in a commit.
LEMMA CallCommitHolds ==
    ASSUME Circumstances \subseteq {"abandons"}, TypeInv, IInv, NEW s \in Slots, NEW p \in Proposals, CallCommit(s, p)
    PROVE  IInv'
<1>1. /\ calls[s] = NoCall /\ Reading = {} /\ granted[p] # NotYet /\ ~Busy(p)
      /\ p \in {hold.proposal, unattributed.proposal} \/ commitsOf[p] > 0
      /\ UNCHANGED <<journal, paused, delivered, batchEnd, operatorPaused, tasks, modelVars,
                     consumedThrough, gitVars, hold, unattributed, granted, abandoned, faults>>
  BY Plain DEF CallCommit, streamVars, boundaryVars
<1>2. /\ calls'[s].pc = "asking" /\ calls'[s].proposal = p
      /\ \A t \in Slots : t # s => calls'[t] = calls[t]
  <2> DEFINE c == [NoCall EXCEPT !.pc = "asking", !.proposal = p]
  <2>1. c \in Calls /\ c.pc = "asking" /\ c.proposal = p
    BY NewCallTyped DEF Places
  <2>2. calls' = [calls EXCEPT ![s] = c]
    BY DEF CallCommit
  <2> HIDE DEF c
  <2> QED
    BY <2>1, <2>2, CallsTyped DEF TypeInv
<1>3. ReadingInv'
  <2>1. \A t \in Slots : calls'[t].pc # "reading"
    BY <1>1, <1>2 DEF Reading
  <2> QED
    BY <2>1 DEF ReadingInv
<1>4. QueueInv'
  <2>1. calls[s].pc = "idle"
    BY <1>1, NothingTyped
  <2>2. \A t \in Slots : calls[t].pc \in {"queued", "retrying"} => calls'[t].pc \in {"queued", "retrying"}
    BY <1>2, <2>1
  <2> QED
    BY <1>1, <2>2, QueueStill DEF IInv
<1>5. ProposalInv'
  BY <1>1, BoundaryNumbers, ProposalStill DEF IInv, modelVars, gitVars
<1>6. HoldInv'
  BY <1>1 DEF IInv, HoldInv, HeldMeansPaused
<1>7. WindowInv' /\ ModelInv' /\ CreditInv'
  BY <1>1, ModelStill DEF IInv, ModelInv
<1>8. hold # NoHold => hold.proposal = p
  BY <1>1, NothingTyped DEF Busy, TypeInv, OfProposals
<1>9. unattributed # NoWindow => unattributed.proposal = p
  BY <1>1, <1>8, NothingTyped DEF Busy, TypeInv, OfProposals, IInv, HoldInv
<1>10. hold = NoHold => Settled(journal, p, granted[p], modelSeq)
  <2>1. CASE commitsOf[p] > 0
    BY <2>1 DEF Settled, IInv, ProposalInv
  <2>2. CASE unattributed # NoWindow
    <3>1. granted[p] = unattributed.since /\ unattributed.until = modelSeq /\ granted[p] \in Nat
      BY <1>9, <2>2, BoundaryNumbers DEF IInv, WindowInv
    <3>2. unattributed.since < unattributed.until
      BY <2>2, BoundaryNumbers DEF IInv, WindowInv, EndsAt
    <3> QED
      BY <3>1, <3>2 DEF Settled
  <2> QED
    BY <1>1, <2>1, <2>2, NothingTyped
<1>11. FlightInv'
  <2>1. \A t \in Slots : t # s /\ InFlight(t) =>
           Flight(calls'[t], hold', unattributed', granted', modelSeq', journal')
    BY <1>1, <1>2 DEF IInv, FlightInv, modelVars
  <2>2. Flight(calls'[s], hold', unattributed', granted', modelSeq', journal')
    BY <1>1, <1>2, <1>8, <1>9, <1>10 DEF Flight, modelVars
  <2>3. \A t \in Slots : t # s => calls'[t].pc = calls[t].pc
    BY <1>2
  <2> QED
    BY <2>1, <2>2, <2>3 DEF FlightInv, InFlight
<1> QED
  BY <1>3, <1>4, <1>5, <1>6, <1>7, <1>11 DEF IInv

\* A commit that has nothing left to publish gives up its hold.
LEMMA FinishesHold ==
    ASSUME TypeInv, IInv, NEW s \in Slots, InFlight(s), calls[s].pc \notin {"queued", "retrying"},
           Settled(journal, calls[s].proposal, granted[calls[s].proposal], modelSeq),
           Finish(calls[s].proposal, unattributed), Idle(s),
           UNCHANGED <<journal, delivered, batchEnd, operatorPaused, tasks, modelVars,
                       consumedThrough, gitVars, unattributed, granted, abandoned, faults>>
    PROVE  IInv'
<1>1. /\ calls'[s] = NoCall /\ \A t \in Slots : t # s => calls'[t] = calls[t]
      /\ calls'[s].pc = "idle"
  BY IdleTyped, NothingTyped
<1>2. HoldInv' /\ hold' \in {hold, NoHold}
  BY FinishHolds DEF IInv
<1>3. ReadingInv' /\ FlightInv'
  <2>1. UNCHANGED <<journal, granted, modelSeq>> /\ modelSeq \in Nat
    BY BoundaryNumbers DEF modelVars
  <2>2. modelSeq' \in Nat /\ modelSeq <= modelSeq'
    BY <2>1
  <2>3. Settled(journal, calls[s].proposal, granted[calls[s].proposal], modelSeq')
    BY <2>1
  <2> QED
    BY <1>1, <1>2, <2>1, <2>2, <2>3, CallMoves DEF IInv
<1>4. QueueInv'
  BY <1>1, <1>2, QueueStill DEF IInv
<1>5. ProposalInv'
  BY BoundaryNumbers, ProposalStill DEF IInv, modelVars, gitVars
<1>6. WindowInv' /\ ModelInv' /\ CreditInv'
  BY ModelStill DEF IInv, ModelInv
<1> QED
  BY <1>2, <1>3, <1>4, <1>5, <1>6 DEF IInv

\* A commit that moves on, to a place of its own or into the queue, and no more.
LEMMA MovesHold ==
    ASSUME TypeInv, IInv, NEW s \in Slots, InFlight(s),
           calls'[s].pc # "reading", \A t \in Slots : t # s => calls'[t] = calls[t],
           calls'[s].pc # "idle" => Flight(calls'[s], hold, unattributed, granted, modelSeq, journal),
           UNCHANGED <<journal, streamVars, operatorPaused, modelVars, consumedThrough, gitVars,
                       boundaryVars, granted, abandoned>>,
           QueueInv'
    PROVE  IInv'
<1>1. UNCHANGED <<hold, unattributed, paused, delivered, modelSeq>>
  BY DEF boundaryVars, streamVars, modelVars
<1>2. ReadingInv' /\ FlightInv'
  <2>1. modelSeq \in Nat /\ modelSeq' \in Nat /\ modelSeq <= modelSeq'
    BY <1>1, BoundaryNumbers
  <2>2. calls'[s].pc # "idle" => Flight(calls'[s], hold', unattributed', granted', modelSeq', journal')
    BY <1>1
  <2>3. UNCHANGED <<journal, granted, hold, unattributed>>
    BY <1>1
  <2> QED
    BY <2>1, <2>2, <2>3, CallMoves DEF IInv
<1>3. HoldInv'
  BY <1>1 DEF IInv, HoldInv, HeldMeansPaused
<1>4. ProposalInv'
  BY BoundaryNumbers, ProposalStill DEF IInv, modelVars, gitVars
<1>5. WindowInv' /\ ModelInv' /\ CreditInv'
  BY <1>1, ModelStill DEF IInv, ModelInv
<1> QED
  BY <1>2, <1>3, <1>4, <1>5 DEF IInv

\* git log finds the commit, and nothing is left to do; or the commit waits for its check-in,
\* or publishes the window that was left behind.
LEMMA ExistingHolds ==
    ASSUME TypeInv, IInv, NEW s \in Slots, ExistingFound(s) \/ ExistingNone(s)
    PROVE  IInv'
<1> DEFINE q == calls[s].proposal
<1>1. /\ calls[s].pc = "asking" /\ InFlight(s) /\ calls[s] \in Calls
      /\ q \in Proposals /\ granted[q] \in Nat
  <2>1. calls[s].pc = "asking" /\ InFlight(s) /\ calls[s] \in Calls
    BY DEF ExistingFound, ExistingNone, InFlight, TypeInv, TypeOK
  <2> QED
    BY <2>1, FlightStarts
<1>2. Flight(calls[s], hold, unattributed, granted, modelSeq, journal)
  BY <1>1 DEF IInv, FlightInv
<1>3. CASE ExistingFound(s)
  <2>1. Settled(journal, q, granted[q], modelSeq)
    BY <1>1, <1>3 DEF ExistingFound, IInv, ProposalInv, Settled
  <2> QED
    BY <1>1, <1>3, <2>1, FinishesHold DEF ExistingFound
<1>4. CASE ExistingNone(s)
  <2>1. UNCHANGED <<journal, streamVars, operatorPaused, modelVars, consumedThrough, gitVars,
                    boundaryVars, granted, abandoned, faults>>
    BY <1>4 DEF ExistingNone
  <2>2. CASE unattributed = NoWindow
    <3>1. PICK since \in Starts(q) : calls' = [calls EXCEPT ![s].pc = "waiting", ![s].since = since]
      BY <1>4, <2>2 DEF ExistingNone
    <3>2. since = granted[q] /\ since \in 0..MaxSeq
      <4>1. since = granted[q]
        BY <1>2 DEF Starts, Flight, IInv, HoldInv
      <4> QED
        BY <1>1, <4>1 DEF TypeInv, TypeOK, NotYet
    <3> DEFINE c == [calls[s] EXCEPT !.pc = "waiting", !.since = since]
    <3>3. c \in Calls /\ c.pc = "waiting" /\ c.proposal = q /\ c.since = since
      BY <1>1, <3>2 DEF Calls, Places
    <3>4. calls' = [calls EXCEPT ![s] = c]
      BY <3>1
    <3> HIDE DEF c
    <3>5. calls'[s] = c /\ \A t \in Slots : t # s => calls'[t] = calls[t]
      BY <3>3, <3>4, CallsTyped DEF TypeInv
    <3>6. Flight(calls'[s], hold, unattributed, granted, modelSeq, journal)
      BY <1>2, <3>2, <3>3, <3>5 DEF Flight
    <3>7. QueueInv'
      <4>1. \A t \in Slots : calls[t].pc \in {"queued", "retrying"} => calls'[t].pc \in {"queued", "retrying"}
        BY <1>1, <3>5
      <4>2. UNCHANGED <<journal, batchEnd, tasks, hold, unattributed>>
        BY <1>4, <2>1, <2>2 DEF ExistingNone, streamVars, boundaryVars
      <4> QED
        BY <4>1, <4>2, QueueStill DEF IInv
    <3>8. calls'[s].pc # "reading"
      BY <3>3, <3>5
    <3> QED
      BY <1>1, <2>1, <3>5, <3>6, <3>7, <3>8, MovesHold
  <2>3. CASE unattributed # NoWindow
    <3> DEFINE c == [pc |-> "retrying", proposal |-> unattributed.proposal,
                     since |-> unattributed.since, until |-> unattributed.until]
    <3>1. calls' = [calls EXCEPT ![s] = c] /\ tasks' = Append(tasks, s)
      BY <1>4, <2>3 DEF ExistingNone
    <3>2. /\ unattributed.proposal = q /\ unattributed.since = granted[q]
          /\ unattributed.until = modelSeq /\ unattributed.since < unattributed.until
          /\ unattributed \in Windows
      <4>1. unattributed.proposal = q /\ unattributed \in Windows
        BY <1>2, <2>3 DEF Flight, TypeInv, TypeOK
      <4>2. /\ unattributed.since = granted[q] /\ unattributed.until = modelSeq
            /\ EndsAt(journal, unattributed.since, unattributed.until)
        BY <2>3, <4>1 DEF IInv, WindowInv
      <4>3. unattributed.since < unattributed.until
        BY <4>2, BoundaryNumbers DEF EndsAt
      <4> QED
        BY <4>1, <4>2, <4>3
    <3>3. c \in Calls /\ c.pc = "retrying" /\ c.proposal = q /\ c.until = modelSeq
      BY <3>2 DEF Windows, Calls, Places
    <3> HIDE DEF c
    <3>4. calls'[s] = c /\ \A t \in Slots : t # s => calls'[t] = calls[t]
      BY <3>1, <3>3, CallsTyped DEF TypeInv
    <3>5. Flight(calls'[s], hold, unattributed, granted, modelSeq, journal)
      <4>1. Settled(journal, q, granted[q], modelSeq)
        BY <3>2 DEF Settled
      <4>2. c.until <= modelSeq /\ granted[q] < modelSeq /\ EditsBy(journal, q) # {}
        <5>1. /\ EndsAt(journal, granted[q], modelSeq) /\ IsOf(journal, granted[q], modelSeq, q)
          BY <2>3, <3>2 DEF IInv, WindowInv
        <5>2. EditsBy(journal, q) # {}
          BY <1>1, <5>1, WindowIsAll DEF IInv
        <5> QED
          BY <3>2, <3>3, <5>2, BoundaryNumbers
      <4> QED
        BY <1>2, <3>3, <3>4, <4>1, <4>2 DEF Flight
    <3>6. QueueInv'
      <4>1. \A t \in Slots : calls[t].pc \in {"queued", "retrying"} => calls'[t].pc \in {"queued", "retrying"}
        BY <1>1, <3>4
      <4>2. UNCHANGED <<journal, batchEnd, hold, unattributed>>
        BY <2>1 DEF streamVars, boundaryVars
      <4>3. s # "batch"
        BY BoundaryAssumption
      <4> QED
        BY <1>1, <3>1, <3>3, <3>4, <4>1, <4>2, <4>3, QueueGrows DEF IInv
    <3>7. calls'[s].pc # "reading"
      BY <3>3, <3>4
    <3> QED
      BY <1>1, <2>1, <3>4, <3>5, <3>6, <3>7, MovesHold
  <2> QED
    BY <2>2, <2>3
<1> QED
  BY <1>3, <1>4

\* The first check-in after a proposal's start ends its window, or what is not its own.
LEMMA CheckinHolds ==
    ASSUME Circumstances \subseteq {"abandons"}, TypeInv, IInv, NEW s \in Slots, CheckinFound(s) \/ WaitTimesOut(s)
    PROVE  IInv'
<1> DEFINE q == calls[s].proposal
           since == calls[s].since
<1>1. /\ calls[s].pc = "waiting" /\ InFlight(s) /\ calls[s] \in Calls
      /\ q \in Proposals /\ granted[q] \in Nat
  <2>1. calls[s].pc = "waiting" /\ InFlight(s) /\ calls[s] \in Calls
    BY DEF CheckinFound, WaitTimesOut, InFlight, TypeInv, TypeOK
  <2> QED
    BY <2>1, FlightStarts
<1>2. Flight(calls[s], hold, unattributed, granted, modelSeq, journal) /\ since = granted[q]
  BY <1>1 DEF IInv, FlightInv, Flight
<1>3. CASE WaitTimesOut(s)
  <2>1. Idle(s)
    BY <1>3 DEF WaitTimesOut
  <2>2. /\ calls'[s] = NoCall /\ \A t \in Slots : t # s => calls'[t] = calls[t]
        /\ calls'[s].pc = "idle"
    BY <2>1, IdleTyped, NothingTyped
  <2>3. /\ UNCHANGED <<journal, streamVars, operatorPaused, modelVars, consumedThrough, gitVars,
                       boundaryVars, granted, abandoned, faults>>
        /\ tasks' = tasks
    BY <1>3 DEF WaitTimesOut
  <2>4. QueueInv'
    <3>1. \A t \in Slots : calls[t].pc \in {"queued", "retrying"} => calls'[t].pc \in {"queued", "retrying"}
      BY <1>1, <2>2
    <3>2. UNCHANGED <<journal, batchEnd, tasks, hold, unattributed>>
      BY <2>3 DEF streamVars, boundaryVars
    <3> QED
      BY <3>1, <3>2, QueueStill DEF IInv
  <2> QED
    BY <1>1, <2>2, <2>3, <2>4, MovesHold
<1>4. CASE CheckinFound(s)
  <2>1. PICK until \in CheckinsAfter(since) :
           /\ \A c \in CheckinsAfter(since) : until <= c
           /\ IF Isolated(Edits(since + 1..until), q)
              THEN /\ calls' = [calls EXCEPT ![s].pc = "queued", ![s].until = until]
                   /\ tasks' = Append(tasks, s)
                   /\ UNCHANGED <<paused, hold>>
              ELSE /\ Finish(q, unattributed)
                   /\ Idle(s)
                   /\ UNCHANGED tasks
    BY <1>4 DEF CheckinFound
  <2>2. UNCHANGED <<journal, delivered, batchEnd, operatorPaused, modelVars, consumedThrough,
                    gitVars, unattributed, granted, abandoned, faults>>
    BY <1>4 DEF CheckinFound
  <2>3. EndsAt(journal, since, until) /\ until \in Seqs /\ until \in Nat /\ until <= MaxSeq
    <3>1. since \in Nat /\ Len(journal) \in Nat /\ Len(journal) <= MaxSeq /\ MaxSeq \in Nat
      BY BoundaryNumbers, Entries
    <3>2. until \in since + 1..Len(journal) /\ journal[until].kind = "checkin"
      BY <2>1 DEF CheckinsAfter
    <3>3. ASSUME NEW c \in since + 1..until, c # until PROVE journal[c].kind = "edit"
      <4>1. c \in since + 1..Len(journal) /\ ~(until <= c) /\ c \in 1..Len(journal)
        BY <3>1, <3>2, <3>3
      <4>2. journal[c].kind # "checkin"
        BY <2>1, <4>1 DEF CheckinsAfter
      <4> QED
        BY <4>1, <4>2, Entries
    <3> QED
      BY <3>1, <3>2, <3>3 DEF EndsAt, Seqs
  <2>4. Isolated(Edits(since + 1..until), q) <=> IsOf(journal, since, until, q)
    <3>1. Edits(since + 1..until) = Window(journal, since, until)
      BY EditsAre
    <3> QED
      BY <3>1, Plain DEF IsOf
  <2>5. CASE Isolated(Edits(since + 1..until), q)
    <3> DEFINE c == [calls[s] EXCEPT !.pc = "queued", !.until = until]
    <3>1. calls' = [calls EXCEPT ![s] = c] /\ tasks' = Append(tasks, s) /\ UNCHANGED <<paused, hold>>
      BY <2>1, <2>5
    <3>2. c \in Calls /\ c.pc = "queued" /\ c.proposal = q /\ c.since = since /\ c.until = until
      <4>1. until \in 0..MaxSeq
        BY <2>3, BoundaryAssumption
      <4> QED
        BY <1>1, <4>1 DEF Calls, Places
    <3> HIDE DEF c
    <3>3. calls'[s] = c /\ \A t \in Slots : t # s => calls'[t] = calls[t]
      BY <3>1, <3>2, CallsTyped DEF TypeInv
    <3>4. Flight(calls'[s], hold, unattributed, granted, modelSeq, journal)
      BY <1>1, <1>2, <2>3, <2>4, <2>5, <3>2, <3>3 DEF Flight
    <3>5. QueueInv'
      <4>1. \A t \in Slots : calls[t].pc \in {"queued", "retrying"} => calls'[t].pc \in {"queued", "retrying"}
        BY <1>1, <3>3
      <4>2. UNCHANGED <<journal, batchEnd, hold, unattributed>>
        BY <2>2, <3>1
      <4>3. s # "batch"
        BY BoundaryAssumption
      <4> QED
        BY <1>1, <3>1, <3>2, <3>3, <4>1, <4>2, <4>3, QueueGrows DEF IInv
    <3>6. calls'[s].pc # "reading"
      BY <3>2, <3>3
    <3>7. UNCHANGED <<journal, streamVars, operatorPaused, modelVars, consumedThrough, gitVars,
                      boundaryVars, granted, abandoned, faults>>
      BY <2>2, <3>1 DEF streamVars, boundaryVars
    <3> QED
      BY <1>1, <3>3, <3>4, <3>5, <3>6, <3>7, MovesHold
  <2>6. CASE ~Isolated(Edits(since + 1..until), q)
    <3>1. Finish(q, unattributed) /\ Idle(s) /\ UNCHANGED tasks
      BY <2>1, <2>6
    <3>2. Settled(journal, q, granted[q], modelSeq)
      BY <1>2, <2>3, <2>4, <2>6 DEF Settled
    <3> QED
      BY <1>1, <2>2, <3>1, <3>2, FinishesHold
  <2> QED
    BY <2>5, <2>6
<1> QED
  BY <1>3, <1>4

\* A turn that publishes nothing, and the end of a commit after its turn.
LEMMA TurnHolds ==
    ASSUME TypeInv, IInv, NEW s \in Slots, AlreadyBatched(s) \/ TreeDirty(s) \/ Finishes(s)
    PROVE  IInv'
<1> DEFINE q == calls[s].proposal
<1>1. calls[s].pc \in {"queued", "finishing"} /\ InFlight(s)
  BY DEF AlreadyBatched, TreeDirty, Finishes, Turn, InFlight
<1>2. /\ Flight(calls[s], hold, unattributed, granted, modelSeq, journal)
      /\ q \in Proposals /\ granted[q] \in Nat
  BY <1>1, FlightStarts DEF IInv, FlightInv
<1>3. CASE Finishes(s)
  <2>1. calls[s].pc = "finishing"
    BY <1>3 DEF Finishes
  <2>2. Settled(journal, q, granted[q], modelSeq)
    BY <1>2, <2>1 DEF Flight
  <2> QED
    BY <1>1, <1>3, <2>1, <2>2, FinishesHold DEF Finishes
<1>4. CASE AlreadyBatched(s)
  <2>1. /\ Turn(s, "queued") /\ modelSeq > calls[s].since /\ Move(s, "finishing") /\ EndTask
        /\ UNCHANGED <<journal, streamVars, operatorPaused, modelVars, consumedThrough, gitVars,
                       boundaryVars, granted, abandoned, faults>>
    BY <1>4 DEF AlreadyBatched
  <2>2. /\ calls'[s].pc = "finishing" /\ calls'[s].proposal = q
        /\ \A t \in Slots : t # s => calls'[t] = calls[t]
    BY <2>1, MoveTyped DEF TypeInv, Places
  <2>3. Flight(calls'[s], hold, unattributed, granted, modelSeq, journal)
    <3>1. granted[q] < modelSeq
      BY <1>2, <2>1, BoundaryNumbers DEF Flight, Turn
    <3> QED
      BY <1>2, <2>2, <3>1 DEF Flight, Settled
  <2>4. QueueInv'
    <3>1. tasks # <<>> /\ Head(tasks) = s
      BY <2>1 DEF Turn
    <3>2. UNCHANGED <<journal, batchEnd, hold, unattributed>>
      BY <2>1 DEF streamVars, boundaryVars
    <3> QED
      BY <2>1, <2>2, <3>1, <3>2, QueueEnds DEF IInv
  <2> QED
    BY <1>1, <2>1, <2>2, <2>3, <2>4, MovesHold
<1>5. CASE TreeDirty(s)
  BY <1>5 DEF TreeDirty, IInv, ModelInv
<1> QED
  BY <1>3, <1>4, <1>5

\* What is applied on top of the model is all of the journal up to there.
LEMMA AppliedTo ==
    ASSUME Circumstances \subseteq {"abandons"}, TypeInv, ModelInv, NEW a \in Nat, a <= modelSeq, NEW b \in Nat
    PROVE  With(a + 1, b) = Window(journal, 0, Larger(modelSeq, b))
<1>1. With(a + 1, b) = inModel \cup Window(journal, a, b) /\ inModel = Window(journal, 0, modelSeq)
  BY Plain, EditsAre DEF ModelInv
<1>2. modelSeq \in Nat
  BY BoundaryNumbers
<1>3. CASE modelSeq > b
  BY <1>1, <1>2, <1>3 DEF Larger, Window
<1>4. CASE ~(modelSeq > b)
  BY <1>1, <1>2, <1>4 DEF Larger, Window
<1> QED
  BY <1>3, <1>4

\* What a commit credits.
LEMMA Credited ==
    ASSUME NEW M, NEW author, Committed(M, author)
    PROVE  \A e \in Seqs : credit'[e] = IF e \in M /\ credit[e] = None THEN author ELSE credit[e]
  BY DEF Committed, Uncommitted

\* A later edit is not in the model.
LEMMA WindowsGrow ==
    ASSUME TypeInv, NEW a \in Nat, NEW b \in Nat, a <= b, b <= Len(journal)
    PROVE  /\ Window(journal, 0, a) \subseteq Window(journal, 0, b) /\ Window(journal, 0, b) \subseteq Seqs
           /\ \A e \in Window(journal, 0, b) : e \in Window(journal, 0, a) \/ e \in Window(journal, a, b)
           /\ Window(journal, a, b) \subseteq Window(journal, 0, b)
           /\ \A e \in Window(journal, a, b) : e \notin Window(journal, 0, a)
<1>1. b <= MaxSeq /\ MaxSeq \in Nat
  BY Entries
<1> QED
  BY <1>1 DEF Window, Seqs

\* An ordinary commit, with no window left behind, takes all the model has in no commit.
LEMMA OwnerPublishes ==
    ASSUME TypeInv, ModelInv, CreditInv, unattributed = NoWindow,
           UNCHANGED <<journal, windowed, unattributed, abandoned>>,
           NEW n \in Nat, modelSeq <= n, n <= Len(journal),
           inModel' = Window(journal, 0, n), modelSeq' = n, Committed(inModel', Owner),
           delivered' <= n, consumedThrough' <= n
    PROVE  WindowInv' /\ ModelInv' /\ CreditInv'
<1> DEFINE M == Window(journal, 0, n)
<1>1. inModel \subseteq M /\ M \subseteq Seqs /\ inModel' = M
  BY WindowsGrow, BoundaryNumbers DEF ModelInv
<1>2. \A e \in Seqs : credit'[e] = IF e \in M /\ credit[e] = None THEN Owner ELSE credit[e]
  BY <1>1, Credited
<1> HIDE DEF M
<1>3. WindowInv'
  BY DEF WindowInv
<1>4. ModelInv'
  <2>1. ASSUME NEW e \in Seqs, credit'[e] # None PROVE e \in M
    BY <1>1, <1>2, <2>1 DEF ModelInv
  <2>2. ASSUME NEW e \in M PROVE credit'[e] # None
    BY <1>1, <1>2, NothingTyped
  <2>3. modelSeq' <= Len(journal') /\ delivered' <= modelSeq' /\ consumedThrough' <= modelSeq'
        /\ inModel' = Window(journal', 0, modelSeq') /\ ~dirty'
    BY DEF Committed
  <2> QED
    BY <1>1, <2>1, <2>2, <2>3 DEF ModelInv
<1>5. CreditInv'
  <2>1. ASSUME NEW e \in 1..Len(journal), credit'[e] \in Proposals
        PROVE  journal[e].by \in {credit'[e]} \cup abandoned
    <3>1. e \in Seqs
      BY Entries DEF Seqs
    <3>2. credit'[e] = credit[e]
      BY <1>2, <2>1, <3>1, NothingTyped
    <3> QED
      BY <2>1, <3>2 DEF CreditInv
  <2>2. ASSUME NEW p \in Proposals \ abandoned, NEW e \in windowed[p] PROVE e \in M /\ credit'[e] = p
    <3>1. e \in inModel /\ credit[e] = p
      BY <2>2, NothingTyped DEF CreditInv
    <3> QED
      BY <1>1, <1>2, <3>1, NothingTyped
  <2> QED
    BY <1>1, <2>1, <2>2 DEF CreditInv
<1> QED
  BY <1>3, <1>4, <1>5

\* What comes before the window is published in a commit of its own.
LEMMA PublishBeforeHolds ==
    ASSUME Circumstances \subseteq {"abandons"}, TypeInv, IInv, NEW s \in Slots, PublishBefore(s)
    PROVE  IInv'
<1> DEFINE q == calls[s].proposal
           since == calls[s].since
<1>1. /\ calls[s].pc = "queued" /\ InFlight(s) /\ modelSeq < since
      /\ inModel' = With(modelSeq + 1, since) /\ modelSeq' = since
      /\ Committed(inModel', Owner) /\ UNCHANGED <<calls, tasks>>
      /\ UNCHANGED <<journal, streamVars, operatorPaused, windowed, consumedThrough,
                     boundaryVars, granted, abandoned>>
  BY Plain DEF PublishBefore, Turn, InFlight
<1>2. /\ Flight(calls[s], hold, unattributed, granted, modelSeq, journal)
      /\ since = granted[q] /\ EndsAt(journal, since, calls[s].until)
  BY <1>1 DEF IInv, FlightInv, Flight
<1>3. since \in Nat /\ modelSeq \in Nat /\ since <= Len(journal) /\ Len(journal) \in Nat
  <2>1. since \in Nat /\ modelSeq \in Nat /\ Len(journal) \in Nat
    BY BoundaryNumbers, Entries
  <2>2. calls[s].until \in since + 1..Len(journal)
    BY <1>2 DEF EndsAt
  <2> QED
    BY <2>1, <2>2
<1>4. unattributed = NoWindow
  <2> SUFFICES ASSUME unattributed # NoWindow PROVE FALSE
    OBVIOUS
  <2>1. unattributed.since = granted[q] /\ unattributed.until = modelSeq
    BY <1>2 DEF Flight, IInv, WindowInv
  <2>2. unattributed.since < unattributed.until
    BY BoundaryNumbers DEF IInv, WindowInv, EndsAt
  <2> QED
    BY <1>1, <1>2, <1>3, <2>1, <2>2
<1>5. UNCHANGED <<paused, delivered, batchEnd, hold, unattributed, commitsOf>>
  BY <1>1, OwnerCommits DEF streamVars, boundaryVars
<1>6. inModel' = Window(journal, 0, since)
  <2>1. With(modelSeq + 1, since) = Window(journal, 0, Larger(modelSeq, since))
    BY <1>3, AppliedTo DEF IInv
  <2>2. Larger(modelSeq, since) = since
    BY <1>1, <1>3 DEF Larger
  <2> QED
    BY <1>1, <2>1, <2>2
<1>7. WindowInv' /\ ModelInv' /\ CreditInv'
  <2>1. delivered' <= since /\ consumedThrough' <= since
    BY <1>1, <1>3, <1>5, BoundaryNumbers DEF IInv, ModelInv
  <2> QED
    BY <1>1, <1>3, <1>4, <1>5, <1>6, <2>1, OwnerPublishes DEF IInv
<1>8. modelSeq' \in Nat /\ modelSeq <= modelSeq'
  BY <1>1, <1>3
<1>9. ReadingInv' /\ FlightInv'
  <2>1. Flight(calls'[s], hold', unattributed', granted', modelSeq', journal')
    BY <1>1, <1>5, <1>8, FlightStill DEF IInv
  <2>2. calls'[s].pc # "reading"
    BY <1>1
  <2> QED
    BY <1>1, <1>5, <1>8, <2>1, <2>2, CallMoves DEF IInv
<1>10. QueueInv'
  BY <1>1, <1>5, QueueStill DEF IInv
<1>11. ProposalInv'
  BY <1>1, <1>5, <1>8, ProposalStill DEF IInv
<1>12. HoldInv'
  BY <1>1, <1>5 DEF IInv, HoldInv, HeldMeansPaused
<1> QED
  BY <1>7, <1>9, <1>10, <1>11, <1>12 DEF IInv

\* The stream's batch and the operator's rebuild commit when no window is left behind.
LEMMA OrdinaryHolds ==
    ASSUME Circumstances \subseteq {"abandons"}, TypeInv, IInv, RunBatch \/ RunRebuild
    PROVE  IInv'
<1>1. /\ tasks # <<>> /\ Head(tasks) \notin Slots /\ EndTask
      /\ UNCHANGED <<journal, paused, batchEnd, operatorPaused, windowed, consumedThrough,
                     hold, unattributed, calls, granted, abandoned>>
  BY BoundaryAssumption DEF RunBatch, RunRebuild, streamVars, modelVars, boundaryVars
<1>2. /\ modelSeq \in Nat /\ modelSeq <= Len(journal) /\ Len(journal) \in Nat
      /\ delivered \in Nat /\ consumedThrough \in Nat /\ batchEnd \in Nat
      /\ delivered <= modelSeq /\ consumedThrough <= modelSeq
  BY BoundaryNumbers, Entries DEF IInv, ModelInv
<1>3. QueueInv'
  BY <1>1, QueueEnds DEF IInv
<1>4. HoldInv' /\ ReadingInv'
  BY <1>1 DEF IInv, HoldInv, HeldMeansPaused, ReadingInv
<1>5. ASSUME NEW n \in Nat, modelSeq <= n, n <= Len(journal), unattributed = NoWindow,
             inModel' = Window(journal, 0, n), modelSeq' = n, Committed(inModel', Owner),
             delivered' <= n
      PROVE  /\ WindowInv' /\ ModelInv' /\ CreditInv'
             /\ commitsOf' = commitsOf /\ modelSeq' \in Nat /\ modelSeq <= modelSeq'
  <2>1. consumedThrough' <= n
    BY <1>1, <1>2, <1>5
  <2>2. WindowInv' /\ ModelInv' /\ CreditInv'
    BY <1>1, <1>5, <2>1, OwnerPublishes DEF IInv
  <2> QED
    BY <1>5, <2>2, OwnerCommits
<1>6. ASSUME UNCHANGED <<modelVars, gitVars>>, delivered' <= modelSeq
      PROVE  /\ WindowInv' /\ ModelInv' /\ CreditInv'
             /\ commitsOf' = commitsOf /\ modelSeq' \in Nat /\ modelSeq <= modelSeq'
  <2>1. WindowInv' /\ ModelInv' /\ CreditInv'
    BY <1>1, <1>2, <1>6, ModelStill DEF IInv
  <2> QED
    BY <1>2, <1>6, <2>1 DEF modelVars, gitVars
<1>7. /\ WindowInv' /\ ModelInv' /\ CreditInv'
      /\ commitsOf' = commitsOf /\ modelSeq' \in Nat /\ modelSeq <= modelSeq'
  <2>1. CASE RunRebuild
    <3>1. UNCHANGED modelVars /\ delivered' = delivered
      BY <2>1 DEF RunRebuild, streamVars
    <3>2. CASE unattributed # NoWindow
      <4>1. UNCHANGED gitVars
        BY <2>1, <3>2 DEF RunRebuild
      <4> QED
        BY <1>2, <1>6, <3>1, <4>1
    <3>3. CASE unattributed = NoWindow
      <4>1. Committed(inModel, Owner)
        BY <2>1, <3>3, Plain DEF RunRebuild
      <4>2. inModel' = inModel /\ modelSeq' = modelSeq /\ inModel = Window(journal, 0, modelSeq)
        BY <3>1 DEF IInv, ModelInv, modelVars
      <4> QED
        BY <1>2, <1>5, <3>1, <3>3, <4>1, <4>2
    <3> QED
      BY <3>2, <3>3
  <2>2. CASE RunBatch
    <3> DEFINE a == Larger(delivered, consumedThrough)
    <3>1. a \in Nat /\ a <= modelSeq
      BY <1>2 DEF Larger
    <3>2. unattributed = NoWindow /\ batchEnd <= Len(journal)
      <4>1. Head(tasks) = "batch" /\ tasks \in Seq(Slots \cup {"batch", "rebuild"}) /\ tasks # <<>>
        BY <2>2 DEF RunBatch, TypeInv, TypeOK
      <4>2. 1 \in 1..Len(tasks) /\ tasks[1] = "batch"
        BY <4>1, HeadTailProperties, LenProperties, EmptySeq
      <4> QED
        BY <4>2 DEF IInv, QueueInv
    <3>3. CASE a + 1 > batchEnd
      <4>1. delivered' = batchEnd /\ UNCHANGED <<modelVars, gitVars>>
        BY <2>2, <3>3 DEF RunBatch, modelVars
      <4> QED
        BY <1>2, <1>6, <3>1, <3>3, <4>1
    <3>4. CASE ~(a + 1 > batchEnd)
      <4> DEFINE n == Larger(modelSeq, batchEnd)
      <4>1. /\ inModel' = With(a + 1, batchEnd) /\ modelSeq' = n /\ delivered' = batchEnd
            /\ Committed(inModel', Owner)
        BY <2>2, <3>4, Plain DEF RunBatch
      <4>2. inModel' = Window(journal, 0, n)
        <5> HIDE DEF a
        <5> QED
          BY <1>2, <3>1, <4>1, AppliedTo DEF IInv
      <4>3. n \in Nat /\ modelSeq <= n /\ n <= Len(journal) /\ batchEnd <= n
        BY <1>2, <3>2 DEF Larger
      <4> HIDE DEF n
      <4> QED
        BY <1>5, <3>2, <4>1, <4>2, <4>3
    <3> QED
      BY <3>3, <3>4
  <2> QED
    BY <2>1, <2>2
<1>8. ProposalInv'
  BY <1>1, <1>7, ProposalStill DEF IInv
<1>9. FlightInv'
  <2>1. ASSUME NEW s \in Slots, InFlight(s)
        PROVE  Flight(calls'[s], hold', unattributed', granted', modelSeq', journal')
    BY <1>1, <1>7, <2>1, FlightStill DEF IInv
  <2> QED
    BY <1>1, <2>1 DEF FlightInv, InFlight
<1> QED
  BY <1>3, <1>4, <1>7, <1>8, <1>9 DEF IInv

\* When a window is published it is what its proposal wrote, all of it and no more, and what
\* the commit takes: its hold is still there, with no other window and no batch behind it.
LEMMA WindowIsOwn ==
    ASSUME Circumstances \subseteq {"abandons"}, TypeInv, IInv, NEW s \in Slots, PublishWindow(s)
    PROVE  LET c == calls[s]
               W == Window(journal, c.since, c.until)
               M == Window(journal, 0, c.until)
           IN  /\ InFlight(s) /\ c.proposal \in Proposals
               /\ c.since = granted[c.proposal] /\ c.since = modelSeq /\ modelSeq \in Nat
               /\ c.until \in Nat /\ modelSeq < c.until /\ c.until <= Len(journal)
               /\ EndsAt(journal, c.since, c.until) /\ IsOf(journal, c.since, c.until, c.proposal)
               /\ hold # NoHold /\ hold.proposal = c.proposal
               /\ unattributed = NoWindow /\ ~Queued("batch")
               /\ With(c.since + 1, c.until) = M /\ Edits(c.since + 1..c.until) = W
               /\ EditsBy(journal, c.proposal) = W /\ W # {}
               /\ inModel \subseteq M /\ M \subseteq Seqs /\ W \subseteq M
               /\ \A e \in W : credit[e] = None
               /\ \A e \in M : credit[e] = None => e \in W \/ journal[e].by \in abandoned
<1> DEFINE c == calls[s]
           q == c.proposal
           W == Window(journal, c.since, c.until)
           M == Window(journal, 0, c.until)
<1>1. c.pc = "queued" /\ InFlight(s) /\ modelSeq = c.since /\ tasks # <<>> /\ Head(tasks) = s
  BY DEF PublishWindow, Turn, InFlight
<1>2. /\ q \in Proposals /\ granted[q] \in Nat /\ c.until \in Nat /\ modelSeq \in Nat
      /\ Len(journal) \in Nat
  BY <1>1, FlightStarts, BoundaryNumbers, Entries
<1>3. /\ Flight(c, hold, unattributed, granted, modelSeq, journal)
      /\ c.since = granted[q] /\ EndsAt(journal, c.since, c.until) /\ IsOf(journal, c.since, c.until, q)
  BY <1>1 DEF IInv, FlightInv, Flight
<1>4. modelSeq < c.until /\ c.until <= Len(journal)
  BY <1>1, <1>2, <1>3 DEF EndsAt
<1>5. ~Settled(journal, q, granted[q], modelSeq)
  <2> HIDE DEF q, c
  <2>1. modelSeq <= granted[q] /\ EndsAt(journal, granted[q], c.until) /\ IsOf(journal, granted[q], c.until, q)
    BY <1>1, <1>2, <1>3
  <2> QED
    BY <1>2, <2>1, NotSettled
<1>6. hold # NoHold /\ hold.proposal = q
  BY <1>3, <1>5 DEF Flight
<1>7. unattributed = NoWindow
  <2> SUFFICES ASSUME unattributed # NoWindow PROVE FALSE
    OBVIOUS
  <2>1. unattributed.since = granted[q] /\ unattributed.until = modelSeq
    BY <1>3 DEF Flight, IInv, WindowInv
  <2>2. unattributed.since < unattributed.until
    BY BoundaryNumbers DEF IInv, WindowInv, EndsAt
  <2> QED
    BY <1>1, <1>2, <1>3, <2>1, <2>2
<1>8. ~Queued("batch")
  <2> SUFFICES ASSUME NEW i \in 1..Len(tasks), tasks[i] = "batch" PROVE FALSE
    BY DEF Queued
  <2>1. \A k \in 1..i : tasks[k] \notin Slots
    BY <1>6 DEF IInv, QueueInv
  <2>2. tasks[1] = s /\ 1 \in 1..i
    BY <1>1, HeadTailProperties, LenProperties DEF TypeInv, TypeOK
  <2> QED
    BY <2>1, <2>2
<1>9. With(c.since + 1, c.until) = M /\ Edits(c.since + 1..c.until) = W
  <2>1. Edits(c.since + 1..c.until) = W
    BY EditsAre
  <2>2. Larger(modelSeq, c.until) = c.until
    BY <1>2, <1>4 DEF Larger
  <2>3. c.since \in Nat /\ c.since <= modelSeq
    BY <1>1, <1>2
  <2>4. With(c.since + 1, c.until) = Window(journal, 0, Larger(modelSeq, c.until))
    BY <1>2, <2>3, AppliedTo DEF IInv
  <2> QED
    BY <2>1, <2>2, <2>4
<1>10. EditsBy(journal, q) = W /\ W # {}
  <2>1. EndsAt(journal, granted[q], c.until) /\ IsOf(journal, granted[q], c.until, q)
    BY <1>3
  <2>2. Window(journal, granted[q], c.until) = EditsBy(journal, q) /\ EditsBy(journal, q) # {}
    BY <1>2, <2>1, WindowIsAll DEF IInv
  <2> QED
    BY <1>3, <2>2
<1>11. /\ inModel = Window(journal, 0, modelSeq) /\ inModel \subseteq M /\ M \subseteq Seqs /\ W \subseteq M
       /\ \A e \in M : e \in inModel \/ e \in W
       /\ \A e \in W : e \notin inModel
  <2>1. inModel = Window(journal, 0, modelSeq) /\ W = Window(journal, modelSeq, c.until)
    BY <1>1 DEF IInv, ModelInv
  <2> HIDE DEF c
  <2> QED
    BY <1>2, <1>4, <2>1, WindowsGrow
<1>12. /\ \A e \in W : credit[e] = None
       /\ \A e \in M : credit[e] = None => e \in W \/ journal[e].by \in abandoned
  BY <1>7, <1>11 DEF IInv, ModelInv
<1> QED
  BY <1>1, <1>2, <1>3, <1>4, <1>6, <1>7, <1>8, <1>9, <1>10, <1>11, <1>12

\* A window that is published holds its proposal's edits in its proposal's commit, or in none
\* and is left behind.
LEMMA PublishWindowHolds ==
    ASSUME Circumstances \subseteq {"abandons"}, TypeInv, IInv, NEW s \in Slots, PublishWindow(s)
    PROVE  IInv'
<1> DEFINE c == calls[s]
           q == c.proposal
           W == Window(journal, c.since, c.until)
           M == Window(journal, 0, c.until)
           left == [proposal |-> q, since |-> c.since, until |-> c.until]
<1>1. /\ InFlight(s) /\ q \in Proposals
      /\ c.since = granted[q] /\ c.since = modelSeq /\ modelSeq \in Nat
      /\ c.until \in Nat /\ modelSeq < c.until /\ c.until <= Len(journal)
      /\ EndsAt(journal, c.since, c.until) /\ IsOf(journal, c.since, c.until, q)
  BY WindowIsOwn
<1>2. /\ hold # NoHold /\ hold.proposal = q
      /\ unattributed = NoWindow /\ ~Queued("batch")
  BY WindowIsOwn
<1>3. /\ With(c.since + 1, c.until) = M /\ Edits(c.since + 1..c.until) = W
      /\ EditsBy(journal, q) = W /\ W # {}
      /\ inModel \subseteq M /\ M \subseteq Seqs /\ W \subseteq M
      /\ \A e \in W : credit[e] = None
      /\ \A e \in M : credit[e] = None => e \in W \/ journal[e].by \in abandoned
  BY WindowIsOwn
<1>4. /\ inModel' = M /\ modelSeq' = c.until
      /\ windowed' = [windowed EXCEPT ![q] = W]
      /\ \/ /\ Committed(M, q) /\ consumedThrough' = Larger(consumedThrough, c.until)
            /\ unattributed' = unattributed
         \/ /\ UNCHANGED gitVars /\ unattributed' = left /\ consumedThrough' = consumedThrough
  BY <1>3, Plain DEF PublishWindow, NotGenerated
<1>5. /\ Move(s, "finishing") /\ EndTask /\ tasks # <<>> /\ Head(tasks) = s
      /\ UNCHANGED <<journal, paused, delivered, batchEnd, operatorPaused, hold, granted, abandoned>>
  BY DEF PublishWindow, Turn, streamVars
<1>6. /\ calls'[s].pc = "finishing" /\ calls'[s].proposal = q
      /\ \A t \in Slots : t # s => calls'[t] = calls[t]
  BY <1>5, MoveTyped DEF TypeInv, Places
<1>7. unattributed' = NoWindow \/ (unattributed' = left /\ unattributed'.proposal = q /\ left # NoWindow)
  <2>1. left # NoWindow /\ left.proposal = q
    <3>1. left.proposal = q
      OBVIOUS
    <3> HIDE DEF left
    <3> QED
      BY <1>1, <3>1, NothingTyped
  <2> HIDE DEF left
  <2> QED
    BY <1>2, <1>4, <2>1
<1>8. modelSeq' \in Nat /\ modelSeq <= modelSeq'
  BY <1>1, <1>4
<1>9. ReadingInv' /\ FlightInv'
  <2>1. Settled(journal, q, granted[q], modelSeq')
    BY <1>1, <1>4 DEF Settled
  <2>2. Flight(calls'[s], hold', unattributed', granted', modelSeq', journal')
    BY <1>2, <1>5, <1>6, <1>7, <2>1 DEF Flight
  <2>3. unattributed' \in {unattributed, NoWindow} \/ (hold # NoHold /\ unattributed'.proposal = q)
    BY <1>2, <1>7
  <2>4. calls'[s].pc # "reading"
    BY <1>6
  <2>5. UNCHANGED <<journal, granted, hold>>
    BY <1>5
  <2> HIDE DEF left
  <2> QED
    BY <1>1, <1>6, <1>8, <2>2, <2>3, <2>4, <2>5, CallMoves DEF IInv
<1>10. QueueInv'
  BY <1>2, <1>5, <1>6, QueueEnds DEF IInv
<1>11. HoldInv'
  <2>1. paused' /\ hold'.since = granted'[hold'.proposal]
    BY <1>2, <1>5 DEF IInv, HoldInv, HeldMeansPaused, Holding
  <2> QED
    BY <1>2, <1>5, <1>7, <2>1 DEF HoldInv, HeldMeansPaused
<1>12. /\ windowed'[q] = W
       /\ \A p \in Proposals : p # q => windowed'[p] = windowed[p]
  BY <1>1, <1>4 DEF TypeInv, TypeOK
<1>13. ASSUME NEW p \in Proposals \ abandoned, NEW e \in windowed[p] PROVE e \in M /\ e \in Seqs /\ credit[e] = p
  <2>1. e \in inModel /\ credit[e] = p
    BY <1>2, <1>13, NothingTyped DEF IInv, CreditInv
  <2> QED
    BY <1>3, <2>1
<1>14. /\ modelSeq' <= Len(journal') /\ delivered' <= modelSeq'
       /\ inModel' = Window(journal', 0, modelSeq')
       /\ consumedThrough \in Nat /\ consumedThrough <= modelSeq'
  <2>1. delivered <= modelSeq /\ consumedThrough <= modelSeq /\ delivered \in Nat /\ consumedThrough \in Nat
    BY BoundaryNumbers DEF IInv, ModelInv
  <2> QED
    BY <1>1, <1>4, <1>5, <2>1
<1>15. \A e \in Seqs : credit[e] # None => e \in M
  BY <1>3 DEF IInv, ModelInv
<1> HIDE DEF W, M, left
<1>16. CASE /\ Committed(M, q) /\ consumedThrough' = Larger(consumedThrough, c.until)
            /\ unattributed' = unattributed
  <2>1. /\ \A e \in W : e \in Seqs /\ credit'[e] = q
        /\ \A e \in Seqs : credit'[e] = IF e \in M /\ credit[e] = None THEN q ELSE credit[e]
    <3>1. \A e \in Seqs : credit'[e] = IF e \in M /\ credit[e] = None THEN q ELSE credit[e]
      BY <1>16, Credited
    <3> QED
      BY <1>3, <3>1
  <2>2. ~dirty' /\ commitsOf' = [p \in Proposals |-> commitsOf[p] + IF p = q /\ Uncommitted(M) # {} THEN 1 ELSE 0]
    BY <1>16 DEF Committed
  <2>3. WindowInv'
    BY <1>2, <1>16 DEF WindowInv
  <2>4. ModelInv'
    <3>1. ASSUME NEW e \in Seqs, credit'[e] # None PROVE e \in M
      BY <1>3, <1>15, <2>1, <3>1
    <3>2. ASSUME NEW e \in M PROVE credit'[e] # None
      BY <1>1, <1>3, <2>1, NothingTyped
    <3>3. consumedThrough' <= modelSeq'
      BY <1>1, <1>4, <1>14, <1>16 DEF Larger
    <3> QED
      BY <1>4, <1>14, <2>2, <3>1, <3>2, <3>3 DEF ModelInv
  <2>5. CreditInv'
    <3>1. ASSUME NEW e \in 1..Len(journal), credit'[e] \in Proposals
          PROVE  journal[e].by \in {credit'[e]} \cup abandoned
      <4>1. CASE e \in W
        BY <1>1, <2>1, <4>1 DEF IsOf, W
      <4>2. CASE e \notin W
        <5>1. e \in Seqs
          BY Entries DEF Seqs
        <5>2. CASE e \in M /\ credit[e] = None
          BY <1>3, <4>2, <5>2
        <5>3. CASE ~(e \in M /\ credit[e] = None)
          BY <2>1, <3>1, <5>1, <5>3 DEF IInv, CreditInv
        <5> QED
          BY <5>2, <5>3
      <4> QED
        BY <4>1, <4>2
    <3>2. ASSUME NEW p \in Proposals \ abandoned, NEW e \in windowed'[p] PROVE e \in M /\ credit'[e] = p
      <4>1. CASE p = q
        BY <1>3, <1>12, <2>1, <3>2, <4>1
      <4>2. CASE p # q
        <5>1. e \in M /\ e \in Seqs /\ credit[e] = p /\ p # None
          BY <1>12, <1>13, <3>2, <4>2, NothingTyped
        <5> QED
          BY <1>3, <2>1, <5>1
      <4> QED
        BY <4>1, <4>2
    <3> QED
      BY <1>4, <1>5, <3>1, <3>2 DEF IInv, CreditInv
  <2>6. ProposalInv'
    <3>1. ASSUME NEW p \in Proposals, commitsOf'[p] > 0
          PROVE  EditsBy(journal, p) # {} /\ granted[p] < modelSeq'
      <4>1. CASE p = q
        BY <1>1, <1>3, <1>4, <4>1
      <4>2. CASE p # q
        <5>1. commitsOf'[p] = commitsOf[p] /\ granted[p] \in Int
          BY <2>2, <4>2, BoundaryNumbers
        <5> QED
          BY <1>1, <1>4, <3>1, <5>1 DEF IInv, ProposalInv
      <4> QED
        BY <4>1, <4>2
    <3> QED
      BY <1>5, <3>1 DEF IInv, ProposalInv
  <2> QED
    BY <1>9, <1>10, <1>11, <2>3, <2>4, <2>5, <2>6 DEF IInv
<1>17. CASE UNCHANGED gitVars /\ unattributed' = left /\ consumedThrough' = consumedThrough
  <2>1. UNCHANGED <<credit, commitsOf, dirty>> /\ ~dirty
    BY <1>17 DEF gitVars, IInv, ModelInv
  <2>2. /\ unattributed'.proposal = q /\ unattributed'.since = c.since /\ unattributed'.until = c.until
        /\ unattributed' # NoWindow
    BY <1>1, <1>17, NothingTyped DEF left
  <2>3. Window(journal', unattributed'.since, unattributed'.until) = W
    BY <1>5, <2>2 DEF W
  <2>4. WindowInv'
    BY <1>1, <1>3, <1>4, <1>5, <2>1, <2>2, <2>3 DEF WindowInv
  <2>5. ModelInv'
    <3>1. \A e \in M : credit[e] = None =>
             \/ unattributed' # NoWindow /\ e \in Window(journal', unattributed'.since, unattributed'.until)
             \/ journal'[e].by \in abandoned'
      BY <1>3, <1>5, <2>2, <2>3
    <3>2. consumedThrough' <= modelSeq'
      BY <1>14, <1>17
    <3> QED
      BY <1>4, <1>14, <1>15, <2>1, <3>1, <3>2 DEF ModelInv
  <2>6. CreditInv'
    <3>1. ASSUME NEW p \in Proposals \ abandoned, NEW e \in windowed'[p]
          PROVE  e \in M /\ (credit[e] = p \/ (credit[e] = None /\ q = p))
      <4>1. CASE p = q
        BY <1>3, <1>12, <3>1, <4>1
      <4>2. CASE p # q
        BY <1>12, <1>13, <3>1, <4>2
      <4> QED
        BY <4>1, <4>2
    <3> QED
      BY <1>4, <1>5, <2>1, <2>2, <3>1 DEF IInv, CreditInv
  <2>7. ProposalInv'
    BY <1>5, <1>8, <2>1, ProposalStill DEF IInv
  <2> QED
    BY <1>9, <1>10, <1>11, <2>4, <2>5, <2>6, <2>7 DEF IInv
<1> QED
  BY <1>4, <1>16, <1>17

\* A retry that fails leaves the window where it is.
LEMMA RetryFailsHolds ==
    ASSUME Circumstances \subseteq {"abandons"}, TypeInv, IInv, NEW s \in Slots, RetryFails(s)
    PROVE  IInv'
<1>1. /\ calls[s].pc = "retrying" /\ InFlight(s) /\ tasks # <<>> /\ Head(tasks) = s
      /\ Idle(s) /\ EndTask /\ UNCHANGED gitVars
      /\ UNCHANGED <<journal, streamVars, operatorPaused, modelVars, consumedThrough,
                     boundaryVars, granted, abandoned>>
  BY Plain DEF RetryFails, Turn, InFlight, NotGenerated
<1>2. /\ calls'[s] = NoCall /\ \A t \in Slots : t # s => calls'[t] = calls[t]
      /\ calls'[s].pc = "idle"
  BY <1>1, IdleTyped, NothingTyped
<1>3. QueueInv'
  <2>1. UNCHANGED <<journal, batchEnd, hold, unattributed>>
    BY <1>1 DEF streamVars, boundaryVars
  <2> QED
    BY <1>1, <1>2, <2>1, QueueEnds DEF IInv
<1> QED
  BY <1>1, <1>2, <1>3, MovesHold

\* A retry commits what its proposal's window left uncommitted, and nothing else.
LEMMA RetrySucceedsHolds ==
    ASSUME TypeInv, IInv, NEW s \in Slots, RetrySucceeds(s)
    PROVE  IInv'
<1> DEFINE c == calls[s]
           q == c.proposal
           u == unattributed
           W == Window(journal, u.since, u.until)
<1>1. /\ c.pc = "retrying" /\ InFlight(s) /\ tasks # <<>> /\ Head(tasks) = s
      /\ Idle(s) /\ EndTask /\ Committed(inModel, q) /\ Finish(q, NoWindow)
      /\ unattributed' = NoWindow /\ consumedThrough' = Larger(consumedThrough, c.until)
      /\ UNCHANGED <<journal, delivered, batchEnd, operatorPaused, modelVars, granted, abandoned>>
  BY DEF RetrySucceeds, Turn, InFlight
<1>2. UNCHANGED <<inModel, modelSeq, windowed>> /\ modelSeq \in Nat
  BY <1>1, BoundaryNumbers DEF modelVars
<1>3. /\ q \in Proposals /\ q # None /\ granted[q] \in Nat /\ c.until \in Nat /\ c.until <= modelSeq
      /\ granted[q] < modelSeq /\ EditsBy(journal, q) # {}
      /\ Settled(journal, q, granted[q], modelSeq)
      /\ u # NoWindow => u.proposal = q
  <2>1. q \in Proposals /\ q # None /\ granted[q] \in Nat /\ c.until \in Nat
    BY <1>1, FlightStarts, NothingTyped
  <2>2. Flight(c, hold, u, granted, modelSeq, journal)
    BY <1>1 DEF IInv, FlightInv
  <2> QED
    BY <1>1, <2>1, <2>2 DEF Flight
<1>4. /\ calls'[s] = NoCall /\ \A t \in Slots : t # s => calls'[t] = calls[t]
      /\ calls'[s].pc = "idle"
  BY <1>1, IdleTyped, NothingTyped
<1>5. HoldInv' /\ hold' \in {hold, NoHold}
  BY <1>1, FinishHolds DEF IInv
<1>6. ReadingInv' /\ FlightInv'
  <2>1. modelSeq' \in Nat /\ modelSeq <= modelSeq'
    BY <1>2
  <2>2. Settled(journal, q, granted[q], modelSeq')
    BY <1>2, <1>3
  <2>3. calls'[s].pc # "reading" /\ UNCHANGED <<journal, granted>>
    BY <1>1, <1>4
  <2> QED
    BY <1>1, <1>4, <1>5, <2>1, <2>2, <2>3, CallMoves DEF IInv
<1>7. QueueInv'
  <2>1. UNCHANGED <<journal, batchEnd>>
    BY <1>1
  <2> QED
    BY <1>1, <1>4, <1>5, <2>1, QueueEnds DEF IInv
<1>8. ASSUME NEW e \in inModel, credit[e] = None
      PROVE  journal[e].by \in {q} \cup abandoned
  <2>1. CASE u # NoWindow /\ e \in W
    BY <1>3, <2>1 DEF IInv, WindowInv, IsOf
  <2>2. CASE journal[e].by \in abandoned
    BY <2>2
  <2> QED
    BY <1>8, <2>1, <2>2 DEF IInv, ModelInv
<1>9. /\ \A e \in Seqs : credit'[e] = IF e \in inModel /\ credit[e] = None THEN q ELSE credit[e]
      /\ ~dirty' /\ inModel \subseteq Seqs
      /\ commitsOf' = [p \in Proposals |->
                          commitsOf[p] + IF p = q /\ Uncommitted(inModel) # {} THEN 1 ELSE 0]
  <2>1. \A e \in Seqs : credit'[e] = IF e \in inModel /\ credit[e] = None THEN q ELSE credit[e]
    BY <1>1, Credited
  <2> QED
    BY <1>1, <2>1 DEF Committed, TypeInv, TypeOK
<1>10. WindowInv'
  BY <1>1 DEF WindowInv
<1>11. ModelInv'
  <2>1. ASSUME NEW e \in Seqs, credit'[e] # None PROVE e \in inModel
    BY <1>9, <2>1 DEF IInv, ModelInv
  <2>2. ASSUME NEW e \in inModel PROVE credit'[e] # None
    BY <1>3, <1>9
  <2>3. consumedThrough' <= modelSeq
    BY <1>1, <1>2, <1>3, BoundaryNumbers DEF IInv, ModelInv, Larger
  <2> QED
    BY <1>1, <1>2, <1>9, <2>1, <2>2, <2>3 DEF IInv, ModelInv
<1>12. CreditInv'
  <2>1. ASSUME NEW e \in 1..Len(journal), credit'[e] \in Proposals
        PROVE  journal[e].by \in {credit'[e]} \cup abandoned
    <3>1. e \in Seqs
      BY Entries DEF Seqs
    <3>2. CASE e \in inModel /\ credit[e] = None
      BY <1>8, <1>9, <3>1, <3>2
    <3>3. CASE ~(e \in inModel /\ credit[e] = None)
      BY <1>9, <2>1, <3>1, <3>3 DEF IInv, CreditInv
    <3> QED
      BY <3>2, <3>3
  <2>2. ASSUME NEW p \in Proposals \ abandoned, NEW e \in windowed[p] PROVE e \in inModel /\ credit'[e] = p
    <3>1. e \in inModel /\ e \in Seqs /\ (credit[e] = p \/ (credit[e] = None /\ u.proposal = p))
      BY <1>9, <2>2 DEF IInv, CreditInv
    <3>2. CASE credit[e] = None
      <4>1. u.proposal = p /\ u # NoWindow
        BY <3>1, <3>2, NothingTyped
      <4> QED
        BY <1>3, <1>9, <3>1, <3>2, <4>1
    <3>3. CASE credit[e] # None
      BY <1>9, <3>1, <3>3
    <3> QED
      BY <3>2, <3>3
  <2> QED
    BY <1>1, <1>2, <2>1, <2>2 DEF IInv, CreditInv
<1>13. ProposalInv'
  <2>1. ASSUME NEW p \in Proposals, commitsOf'[p] > 0
        PROVE  EditsBy(journal, p) # {} /\ granted[p] < modelSeq
    <3>1. CASE commitsOf[p] > 0
      BY <3>1 DEF IInv, ProposalInv
    <3>2. CASE ~(commitsOf[p] > 0)
      <4>1. p = q
        BY <1>9, <2>1, <3>2, BoundaryNumbers
      <4> QED
        BY <1>3, <4>1
    <3> QED
      BY <3>1, <3>2
  <2> QED
    BY <1>1, <1>2, <2>1 DEF IInv, ProposalInv
<1> QED
  BY <1>5, <1>6, <1>7, <1>10, <1>11, <1>12, <1>13 DEF IInv

-----------------------------------------------------------------------------
(* The invariant, and the attribution.                                       *)

\* Nothing is recorded, held or asked for.
LEMMA InitInv == Init => IInv
<1> SUFFICES ASSUME Init PROVE IInv
  OBVIOUS
<1>1. TypeInv
  BY InitTyped
<1>2. /\ Len(journal) = 0 /\ Len(tasks) = 0 /\ inModel = {} /\ modelSeq = 0
      /\ delivered = 0 /\ consumedThrough = 0 /\ ~dirty
      /\ hold = NoHold /\ unattributed = NoWindow
  BY EmptySeq DEF Init
<1>3. \A s \in Slots : calls[s] = NoCall
  BY DEF Init
<1>4. ReadingInv /\ FlightInv
  BY <1>3, NothingTyped DEF ReadingInv, FlightInv, InFlight
<1>5. QueueInv
  BY <1>2 DEF QueueInv
<1>6. \A p : EditsBy(journal, p) = {}
  BY <1>2 DEF EditsBy
<1>7. ProposalInv
  <2>1. \A p \in Proposals : granted[p] = -1 /\ commitsOf[p] = 0
    BY DEF Init, NotYet
  <2>2. Len(journal) = 0 /\ -1 <= 0 /\ ~(0 > 0)
    BY <1>2
  <2>3. \A p \in Proposals : granted[p] <= Len(journal) /\ ~(commitsOf[p] > 0)
    BY <2>1, <2>2
  <2> QED
    BY <1>6, <2>3 DEF ProposalInv
<1>8. HoldInv /\ WindowInv
  BY <1>2 DEF HoldInv, HeldMeansPaused, Holding, WindowInv
<1>9. ModelInv /\ CreditInv
  BY <1>2 DEF Init, ModelInv, Window, CreditInv
<1> QED
  BY <1>4, <1>5, <1>7, <1>8, <1>9 DEF IInv

\* Every step keeps it.
LEMMA NextInv ==
    ASSUME Circumstances \subseteq {"abandons"}
    PROVE  TypeInv /\ IInv /\ [Next]_vars => IInv'
<1> SUFFICES ASSUME TypeInv, IInv, [Next]_vars PROVE IInv'
  OBVIOUS
<1>1. ASSUME NEW w \in Writers, NEW kind \in {"edit", "checkin"}, Write(w, kind) PROVE IInv'
  BY <1>1, WriteHolds
<1>2. ASSUME NEW s \in Slots, NEW p \in Proposals, CallBegin(s, p) \/ CallCommit(s, p) PROVE IInv'
  BY <1>2, CallBeginHolds, CallCommitHolds
<1>3. ASSUME NEW s \in Slots, CallSteps(s) PROVE IInv'
  <2>1. CASE BeginAnswers(s) \/ BeginFails(s)
    BY <2>1, BeginHolds
  <2>2. CASE ExistingFound(s) \/ ExistingNone(s)
    BY <2>2, ExistingHolds
  <2>3. CASE CheckinFound(s) \/ WaitTimesOut(s)
    BY <2>3, CheckinHolds
  <2>4. CASE AlreadyBatched(s) \/ TreeDirty(s) \/ Finishes(s)
    BY <2>4, TurnHolds
  <2>5. CASE PublishBefore(s) \/ PublishWindow(s)
    BY <2>5, PublishBeforeHolds, PublishWindowHolds
  <2>6. CASE RetryFails(s) \/ RetrySucceeds(s)
    BY <2>6, RetryFailsHolds, RetrySucceedsHolds
  <2> QED
    BY <1>3, <2>1, <2>2, <2>3, <2>4, <2>5, <2>6 DEF CallSteps
<1>4. CASE (\E p \in Proposals : Abort(p)) \/ Expire
  BY <1>4, EndsHold, AbandonHolds
<1>5. CASE Drain \/ CallRebuild \/ OperatorPause \/ OperatorResume
  BY <1>5, StreamHolds
<1>6. CASE RunBatch \/ RunRebuild
  BY <1>6, OrdinaryHolds
<1>7. CASE UNCHANGED vars
  <2> USE <1>7 DEF vars, streamVars, modelVars, gitVars, boundaryVars
  <2>1. ReadingInv' /\ QueueInv' /\ ProposalInv' /\ HoldInv'
    BY DEF IInv, ReadingInv, QueueInv, ProposalInv, HoldInv, HeldMeansPaused
  <2>2. FlightInv' /\ WindowInv' /\ ModelInv' /\ CreditInv'
    BY DEF IInv, FlightInv, InFlight, WindowInv, ModelInv, CreditInv
  <2> QED
    BY <2>1, <2>2 DEF IInv
<1> QED
  BY <1>1, <1>2, <1>3, <1>4, <1>5, <1>6, <1>7 DEF Next

\* The invariant of the boundary, with no circumstance but that an applied window may be given
\* up by proposal_abort.
THEOREM SpecInv ==
    ASSUME Circumstances \subseteq {"abandons"}
    PROVE  Spec => [](TypeInv /\ IInv)
<1>1. Init => TypeInv /\ IInv
  BY InitTyped, InitInv
<1>2. TypeInv /\ IInv /\ [Next]_vars => (TypeInv /\ IInv)'
  BY NextTyped, NextInv
<1> QED
  BY <1>1, <1>2, PTL DEF Spec

\* While the boundary is held, by proposal_begin or by an uncommitted window, the stream is
\* paused, whatever the operator, the timer and other calls did meanwhile.
THEOREM SpecHeldMeansPaused ==
    ASSUME Circumstances \subseteq {"abandons"}
    PROVE  Spec => []HeldMeansPaused
<1>1. TypeInv /\ IInv => HeldMeansPaused
  BY DEF IInv, HoldInv
<1> QED
  BY <1>1, SpecInv, PTL

\* An ordinary commit never takes a window that was applied as a proposal's, unless the
\* proposal was given up.
THEOREM SpecOwnerCommitsNoWindow ==
    ASSUME Circumstances \subseteq {"abandons"}
    PROVE  Spec => []OwnerCommitsNoWindow
<1>1. TypeInv /\ IInv => OwnerCommitsNoWindow
  BY NothingTyped DEF IInv, CreditInv, OwnerCommitsNoWindow
<1> QED
  BY <1>1, SpecInv, PTL

\* What a step does to the journal and to the credit of its entries.
LEMMA StepsCredit ==
    ASSUME Circumstances \subseteq {"abandons"}, TypeInv, IInv, [Next]_vars
    PROVE  \/ \E w \in Writers, kind \in {"edit", "checkin"} : Write(w, kind)
           \/ UNCHANGED <<journal, credit>>
           \/ journal' = journal /\ Committed(inModel', Owner)
           \/ \E s \in Slots : PublishWindow(s) \/ RetrySucceeds(s)
<1> USE DEF gitVars
<1>1. ASSUME NEW s \in Slots, NEW p \in Proposals, CallBegin(s, p) \/ CallCommit(s, p)
      PROVE  UNCHANGED <<journal, credit>>
  BY <1>1 DEF CallBegin, CallCommit
<1>2. ASSUME NEW s \in Slots, CallSteps(s)
      PROVE  \/ UNCHANGED <<journal, credit>>
             \/ journal' = journal /\ Committed(inModel', Owner)
             \/ PublishWindow(s) \/ RetrySucceeds(s)
  <2>1. CASE BeginAnswers(s) \/ BeginFails(s) \/ ExistingFound(s) \/ ExistingNone(s)
    BY <2>1 DEF BeginAnswers, BeginFails, ExistingFound, ExistingNone
  <2>2. CASE CheckinFound(s) \/ WaitTimesOut(s) \/ AlreadyBatched(s) \/ TreeDirty(s) \/ Finishes(s)
    BY <2>2 DEF CheckinFound, WaitTimesOut, AlreadyBatched, TreeDirty, Finishes
  <2>3. CASE PublishBefore(s)
    BY <2>3, Plain DEF PublishBefore
  <2>4. CASE RetryFails(s)
    BY <2>4, Plain DEF RetryFails, NotGenerated
  <2> QED
    BY <1>2, <2>1, <2>2, <2>3, <2>4 DEF CallSteps
<1>3. CASE (\E p \in Proposals : Abort(p)) \/ Expire
  BY <1>3 DEF Abort, Expire
<1>4. CASE Drain \/ CallRebuild \/ OperatorPause \/ OperatorResume
  BY <1>4 DEF Drain, CallRebuild, OperatorPause, OperatorResume
<1>5. CASE RunBatch
  <2>1. \/ UNCHANGED <<journal, credit>>
        \/ journal' = journal /\ Committed(inModel', Owner)
    BY <1>5, Plain DEF RunBatch
  <2> QED
    BY <2>1
<1>6. CASE RunRebuild
  <2>1. journal' = journal /\ inModel' = inModel
    BY <1>6 DEF RunRebuild, modelVars
  <2>2. credit' = credit \/ Committed(inModel', Owner)
    BY <1>6, <2>1, Plain DEF RunRebuild
  <2> QED
    BY <2>1, <2>2
<1>7. CASE UNCHANGED vars
  BY <1>7 DEF vars
<1> QED
  BY <1>1, <1>2, <1>3, <1>4, <1>5, <1>6, <1>7 DEF Next

\* A commit gives what it takes to its author, and to nobody what was given before.
LEMMA CommitGives ==
    ASSUME TypeInv, NEW n \in Nat, n <= Len(journal), NEW M, M = Window(journal, 0, n),
           NEW author, Committed(M, author), journal' = journal
    PROVE  /\ Uncommitted(M) \subseteq Abstract!Uncredited
           /\ Abstract!Give(Uncommitted(M), author)
<1>1. Len(journal) \in Nat
  BY Entries
<1>2. Uncommitted(M) \subseteq Abstract!Uncredited
  BY <1>1 DEF Uncommitted, Window, Abstract!Uncredited
<1>3. credit' = [e \in 1..MaxSeq |-> IF e \in Uncommitted(M) THEN author ELSE credit[e]]
  BY DEF Committed, Seqs
<1> QED
  BY <1>2, <1>3 DEF Abstract!Give

\* What a proposal wrote, by the names of Attribution.
LEMMA EditsOfAre ==
    ASSUME TypeInv, NEW p
    PROVE  Abstract!EditsOf(p) = EditsBy(journal, p)
<1>1. \A e \in 1..Len(journal) :
         journal[e] = [by |-> p, kind |-> "edit"] <=> journal[e].kind = "edit" /\ journal[e].by = p
  BY Entries
<1> QED
  BY <1>1 DEF EditsBy, Abstract!EditsOf

\* A step of the boundary records an entry, commits for the owner, commits all of a proposal's
\* edits and no other for it, or does none of that.
LEMMA StepRefines ==
    ASSUME Circumstances = {}, TypeInv, IInv, IInv', [Next]_vars
    PROVE  [Abstract!Next]_(Abstract!vars)
<1>0. abandoned = {}
  BY DEF IInv, CreditInv
<1>1. ASSUME NEW w \in Writers, NEW kind \in {"edit", "checkin"}, Write(w, kind)
      PROVE  Abstract!Record
  <2>1. [by |-> w, kind |-> kind] \in Abstract!Entry /\ Len(journal) < MaxSeq
        /\ journal' = Append(journal, [by |-> w, kind |-> kind]) /\ UNCHANGED credit
    BY <1>1 DEF Write, gitVars, Abstract!Entry, Abstract!Writers, Writers
  <2> QED
    BY <2>1 DEF Abstract!Record
<1>2. CASE UNCHANGED <<journal, credit>>
  BY <1>2 DEF Abstract!vars
<1>3. CASE journal' = journal /\ Committed(inModel', Owner)
  <2> DEFINE n == modelSeq'
             M == inModel'
  <2>1. n \in Nat /\ n <= Len(journal) /\ M = Window(journal, 0, n)
    <3>1. TypeInv'
      BY NextTyped
    <3>2. modelSeq' \in Nat
      BY <3>1, BoundaryAssumption DEF TypeInv, TypeOK
    <3> QED
      BY <1>3, <3>2 DEF IInv, ModelInv
  <2> HIDE DEF n, M
  <2>2. Committed(M, Owner)
    BY <1>3 DEF M
  <2>3. Uncommitted(M) \subseteq Abstract!Uncredited /\ Abstract!Give(Uncommitted(M), Owner)
    BY <1>3, <2>1, <2>2, CommitGives
  <2> QED
    BY <2>3 DEF Abstract!Next, Abstract!OwnerCommit
<1>4. ASSUME NEW s \in Slots, PublishWindow(s)
      PROVE  [Abstract!Next]_(Abstract!vars)
  <2> DEFINE c == calls[s]
             q == c.proposal
             W == Window(journal, c.since, c.until)
             M == Window(journal, 0, c.until)
  <2>1. /\ q \in Proposals /\ c.until \in Nat /\ c.until <= Len(journal)
        /\ With(c.since + 1, c.until) = M /\ EditsBy(journal, q) = W /\ W # {} /\ W \subseteq M
        /\ \A e \in M : credit[e] = None <=> e \in W
    BY <1>0, <1>4, WindowIsOwn
  <2>2. journal' = journal /\ (Committed(M, q) \/ credit' = credit)
    BY <1>4, <2>1, Plain DEF PublishWindow, NotGenerated, gitVars
  <2>3. Uncommitted(M) = W
    BY <2>1 DEF Uncommitted
  <2>4. CASE Committed(M, q)
    <3>1. Abstract!EditsOf(q) = W
      BY <2>1, EditsOfAre
    <3>2. Abstract!Give(Uncommitted(M), q)
      BY <2>1, <2>2, <2>4, CommitGives
    <3> QED
      BY <2>1, <2>3, <3>1, <3>2 DEF Abstract!Next, Abstract!ProposalCommit
  <2> QED
    BY <2>2, <2>4 DEF Abstract!vars
<1>5. ASSUME NEW s \in Slots, RetrySucceeds(s)
      PROVE  [Abstract!Next]_(Abstract!vars)
  <2> DEFINE q == calls[s].proposal
             u == unattributed
             W == Window(journal, u.since, u.until)
  <2>1. journal' = journal /\ Committed(inModel, q)
    BY <1>5 DEF RetrySucceeds
  <2>2. q \in Proposals /\ granted[q] \in Nat /\ (u # NoWindow => u.proposal = q)
    <3>1. InFlight(s)
      BY <1>5 DEF RetrySucceeds, Turn, InFlight
    <3>2. Flight(calls[s], hold, u, granted, modelSeq, journal)
      BY <3>1 DEF IInv, FlightInv
    <3> QED
      BY <3>1, <3>2, FlightStarts DEF Flight
  <2>3. modelSeq \in Nat /\ modelSeq <= Len(journal) /\ inModel = Window(journal, 0, modelSeq)
    BY BoundaryNumbers DEF IInv, ModelInv
  <2>4. CASE u = NoWindow
    <3>1. Uncommitted(inModel) = {}
      BY <1>0, <2>4, NothingWaits DEF IInv
    <3>2. credit' = [e \in Seqs |-> credit[e]]
      BY <2>1, <3>1 DEF Committed
    <3>3. credit' = credit
      BY <3>2 DEF TypeInv, TypeOK
    <3> QED
      BY <2>1, <3>3 DEF Abstract!vars
  <2>5. CASE u # NoWindow
    <3>1. /\ u.since = granted[q] /\ u.until = modelSeq
          /\ EndsAt(journal, granted[q], u.until) /\ IsOf(journal, granted[q], u.until, q)
          /\ \A e \in W : credit[e] = None
      BY <2>2, <2>5 DEF IInv, WindowInv
    <3>2. W = EditsBy(journal, q) /\ EditsBy(journal, q) # {}
      BY <2>2, <3>1, WindowIsAll DEF IInv
    <3>3. Uncommitted(inModel) = W
      <4>1. \A e \in inModel : credit[e] = None => e \in W
        BY <1>0 DEF IInv, ModelInv
      <4>2. W \subseteq inModel
        BY <2>2, <2>3, <3>1 DEF Window
      <4> QED
        BY <3>1, <4>1, <4>2 DEF Uncommitted
    <3>4. Abstract!Give(Uncommitted(inModel), q)
      BY <2>1, <2>3, CommitGives
    <3>5. Abstract!EditsOf(q) = W
      BY <3>2, EditsOfAre
    <3> QED
      BY <2>2, <3>2, <3>3, <3>4, <3>5 DEF Abstract!Next, Abstract!ProposalCommit
  <2> QED
    BY <2>4, <2>5
<1> QED
  BY <1>1, <1>2, <1>3, <1>4, <1>5, StepsCredit DEF Abstract!Next

\* Every edit is in one author's commit at most, and a proposal's commit takes all the
\* proposal's edits and no other.
THEOREM SpecAttribution ==
    ASSUME Circumstances = {}
    PROVE  Spec => Attribution
<1>1. Init => Abstract!Init
  BY DEF Init, Abstract!Init, Seqs
<1>2. Init => TypeInv /\ IInv
  BY InitTyped, InitInv
<1>3. TypeInv /\ IInv /\ [Next]_vars => (TypeInv /\ IInv)'
  BY NextTyped, NextInv
<1>4. TypeInv /\ IInv /\ (TypeInv /\ IInv)' /\ [Next]_vars => [Abstract!Next]_(Abstract!vars)
  BY StepRefines
<1> QED
  BY <1>1, <1>2, <1>3, <1>4, PTL DEF Spec, Attribution, Abstract!Spec

=============================================================================
