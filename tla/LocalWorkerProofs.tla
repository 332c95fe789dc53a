--------------------------- MODULE LocalWorkerProofs ---------------------------
(***************************************************************************)
(* For any window, any number of items, runs, polls, versions and faults:  *)
(* no read straddles two versions, results are at their items' places, and *)
(* a read asked for after an answer to get_changes is not older than it.   *)
(*                                                                         *)
(* What ties a result to its item is the id: nothing on its way to or from *)
(* the worker has the id of a call not made yet, and what has the id of a  *)
(* call still awaited is for its item, and was read no earlier than the    *)
(* call was made.  What makes a resolved run complete is that its lanes    *)
(* are exactly its calls awaited.                                          *)
(***************************************************************************)
EXTENDS LocalWorker, FiniteSetTheorems, SequenceTheorems, FunctionTheorems, TLAPS

Request == [id : Ids, item : 0..MaxItems]
Answer == [id : Ids, ok : BOOLEAN, item : Nat, version : Nat]

WireTyped ==
    /\ pipe \in Seq(Request) /\ out \in Seq(Answer)
    /\ inFlight \subseteq [id : Ids, item : 1..MaxItems, version : 1..MaxVersion]

\* A call awaited is known by its id alone.
CallsTyped ==
    /\ pending \subseteq Call
    /\ \A p, q \in pending : p.id = q.id => p = q
    /\ learned >= 1 /\ version <= MaxVersion

\* Every id about is of a call that has been made.
IdsMade ==
    /\ nextId \in Ids
    /\ \A p \in pending : p.id \in Ids /\ p.id < nextId
    /\ \A k \in 1..Len(pipe) : pipe[k].id < nextId
    /\ \A m \in inFlight : m.id < nextId
    /\ \A k \in 1..Len(out) : out[k].id < nextId

\* A read under way, or an answer, that the call p would take is one for it.
Serves(m, p) == m.id = p.id => m.item = p.item /\ p.asked <= m.version

AnswersServe ==
    \A p \in pending :
        /\ \A k \in 1..Len(pipe) : pipe[k].id = p.id => pipe[k].item = p.item
        /\ \A m \in inFlight : Serves(m, p)
        /\ \A k \in 1..Len(out) : Serves(out[k], p)

\* The client knows of no version the worker has not been at, and of one get_changes at a time.
VersionsKnown ==
    /\ learned \in Nat /\ version \in Nat /\ learned <= version
    /\ \A p \in pending : p.asked \in Nat /\ p.asked <= learned
    /\ \A k \in 1..Len(out) : out[k].version <= version
    /\ \A p \in pending : p.run = NoRun =>
          p.asked = learned /\ \A q \in pending : q.run = NoRun => q = p

WireInv == WireTyped /\ CallsTyped /\ IdsMade /\ AnswersServe /\ VersionsKnown /\ NoReadStraddles

-----------------------------------------------------------------------------

CallsOf(r) == {p \in pending : p.run = r}

Result == [item : Nat, asked : Nat, version : Nat]
Results == UNION {[1..n -> Result] : n \in Nat}
Run == [n : Nat, next : Ids, lanes : Int, outcome : {"running", "resolved", "rejected"},
        results : Results]

RunsTyped ==
    /\ runs \in Seq(Run)
    /\ \A r \in 1..Len(runs) : runs[r].results \in [1..runs[r].n -> Result]

CallsKnown ==
    /\ IsFiniteSet(pending)
    /\ \A p \in pending : p.run # NoRun => /\ p.run \in 1..Len(runs)
                                          /\ p.item \in 1..runs[p.run].n

\* In a run that goes on, an item is read, awaited, or yet to be taken.
LanesAwait ==
    \A r \in 1..Len(runs) : runs[r].outcome = "running" =>
        \A i \in 1..runs[r].n : \/ runs[r].results[i].item = i
                                \/ i >= runs[r].next
                                \/ \E p \in CallsOf(r) : p.item = i

\* A lane is a call awaited also in a run that was rejected; one run goes on at a time.
LanesCounted ==
    \A r \in 1..Len(runs) :
        /\ runs[r].n <= MaxItems
        /\ runs[r].lanes = Cardinality(CallsOf(r)) /\ runs[r].lanes <= Width(runs[r].n)

OneRuns ==
    \A r, s \in 1..Len(runs) : runs[r].outcome = "running" /\ runs[s].outcome = "running" => r = s

RunsInv ==
    /\ RunsTyped /\ CallsKnown /\ LanesCounted /\ OneRuns
    /\ LanesAwait /\ ResultsAreRight /\ ReadsFollowTheChanges

-----------------------------------------------------------------------------
(* The calls a step makes.                                                   *)

\* Calls with the next ids, and the lines that carry them, in the order of the ids.
NewCalls(C) ==
    /\ IsFiniteSet(C) /\ Cardinality(C) \in Nat
    /\ C \subseteq Call /\ \A c, d \in C : c.id = d.id => c = d
    /\ \A c \in C : /\ c.id \in nextId..(nextId + Cardinality(C) - 1)
                    /\ c.asked = learned
    /\ Lines(C) \in Seq(Request) /\ Len(Lines(C)) = Cardinality(C)
    /\ \A k \in 1..Cardinality(C) :
          /\ Lines(C)[k].id = nextId + k - 1
          /\ \A c \in C : c.id = nextId + k - 1 => Lines(C)[k].item = c.item

\* Calls numbered from the next id on are carried by lines in that order.
LEMMA Numbered ==
    ASSUME nextId \in Ids, NEW m \in Nat, NEW C \in SUBSET Call, IsFiniteSet(C), Cardinality(C) = m,
           \A c \in C : /\ c.id \in nextId..(nextId + m - 1)
                        /\ c.asked = learned /\ c.item \in 0..MaxItems,
           \A c, d \in C : c.id = d.id => c = d,
           \A k \in 1..m : \E c \in C : c.id = nextId + k - 1
    PROVE  NewCalls(C)
<1> DEFINE Carried(k) == CHOOSE c \in C : c.id = nextId + k - 1
           Line(k) == [id |-> Carried(k).id, item |-> Carried(k).item]
<1>1. ASSUME NEW k \in 1..m
      PROVE  Carried(k) \in C /\ Carried(k).id = nextId + k - 1
  BY <1>1
<1>2. ASSUME NEW k \in 1..m PROVE Line(k) \in Request
  <2>1. Carried(k).item \in 0..MaxItems /\ Carried(k).id = nextId + k - 1
    BY <1>1
  <2> HIDE DEF Carried
  <2>2. Carried(k).id \in Ids
    BY <2>1 DEF Ids
  <2> QED
    BY <2>1, <2>2 DEF Request
<1> HIDE DEF Carried
<1>3. Lines(C) = [k \in 1..m |-> Line(k)]
  BY DEF Lines, Carried
<1> DEFINE L == [k \in 1..m |-> Line(k)]
<1>4. L \in [1..m -> Request]
  BY <1>2
<1>5. L \in Seq(Request) /\ Len(L) = m
  BY <1>4
<1>6. ASSUME NEW k \in 1..m
      PROVE  /\ L[k].id = nextId + k - 1
             /\ \A c \in C : c.id = nextId + k - 1 => L[k].item = c.item
  <2>1. L[k] = Line(k)
    OBVIOUS
  <2>2. \A c \in C : c.id = nextId + k - 1 => c = Carried(k)
    BY <1>1
  <2> QED
    BY <1>1, <2>1, <2>2
<1> QED
  BY <1>3, <1>5, <1>6 DEF NewCalls

\* No call is no line.
LEMMA NewNone ==
    ASSUME nextId \in Ids
    PROVE  NewCalls({}) /\ Cardinality({}) = 0
  BY Numbered, FS_EmptySet DEF Ids

\* One call, with the next id.
LEMMA NewOne ==
    ASSUME nextId \in Ids, NEW c \in Call, c.id = nextId, c.asked = learned, c.item \in 0..MaxItems
    PROVE  NewCalls({c}) /\ Cardinality({c}) = 1
<1>1. IsFiniteSet({c}) /\ Cardinality({c}) = 1
  BY FS_Singleton
<1>2. nextId + 1 - 1 = nextId
  BY DEF Ids
<1> QED
  BY <1>1, <1>2, Numbered DEF Ids

\* The calls of a run for an interval of items: as many as the items, one for each.
LEMMA NewRange ==
    ASSUME nextId \in Ids, learned \in Nat, NEW r \in Nat,
           NEW a \in Nat, NEW b \in Nat, a <= b, b <= MaxItems
    PROVE  /\ NewCalls(CallsFor(r, a..b))
           /\ Cardinality(CallsFor(r, a..b)) = b - a + 1
           /\ \A c \in CallsFor(r, a..b) : c.run = r /\ c.item \in a..b
           /\ \A i \in a..b : \E c \in CallsFor(r, a..b) : c.item = i
<1> DEFINE C == CallsFor(r, a..b)
           Made(i) == [id |-> nextId + i - a, run |-> r, item |-> i, asked |-> learned]
           F == [i \in a..b |-> Made(i)]
<1>1. Min(a..b) = a
  BY DEF Min
<1>2. C = {Made(i) : i \in a..b}
  BY <1>1 DEF CallsFor
<1>3. F \in Bijection(a..b, C)
  <2>1. F \in [a..b -> C] /\ \A x, y \in a..b : F[x] = F[y] => x = y
    BY <1>2
  <2>2. \A c \in C : \E x \in a..b : F[x] = c
    BY <1>2
  <2> HIDE DEF F, C
  <2> QED
    BY <2>1, <2>2, Fun_IsBij
<1>4. IsFiniteSet(C) /\ Cardinality(C) = b - a + 1
  <2>1. IsFiniteSet(a..b) /\ Cardinality(a..b) = b - a + 1
    BY FS_Interval
  <2>2. ExistsBijection(a..b, C)
    BY <1>3 DEF ExistsBijection
  <2> HIDE DEF C
  <2> QED
    BY <2>1, <2>2, FS_Bijection
<1>5. \A c \in C : /\ c.id \in nextId..(nextId + (b - a + 1) - 1)
                   /\ c.asked = learned /\ c.item \in a..b /\ c.item \in 0..MaxItems /\ c.run = r
                   /\ c.id = nextId + c.item - a /\ c \in Call
  BY <1>2, WorkerAssumption DEF Ids, Call
<1>6. \A c, d \in C : c.id = d.id => c = d
  BY <1>2 DEF Ids
<1>7. ASSUME NEW k \in 1..(b - a + 1)
      PROVE  \E c \in C : c.id = nextId + k - 1
  <2>1. a + k - 1 \in a..b /\ Made(a + k - 1).id = nextId + k - 1
    BY DEF Ids
  <2> QED
    BY <1>2, <2>1
<1>8. ASSUME NEW i \in a..b PROVE \E c \in C : c.item = i
  <2>1. Made(i) \in C /\ Made(i).item = i
    BY <1>2
  <2> HIDE DEF C, Made
  <2> QED
    BY <2>1
<1> HIDE DEF C
<1>9. NewCalls(C)
  <2>1. b - a + 1 \in Nat
    OBVIOUS
  <2> QED
    BY <1>4, <1>5, <1>6, <1>7, <2>1, Numbered
<1> QED
  BY <1>4, <1>5, <1>8, <1>9 DEF C

\* Those for the first m items.
LEMMA NewFirst ==
    ASSUME nextId \in Ids, learned \in Nat, NEW r \in Nat, NEW m \in Nat, 1 <= m, m <= MaxItems
    PROVE  /\ NewCalls(CallsFor(r, 1..m)) /\ Cardinality(CallsFor(r, 1..m)) = m
           /\ \A c \in CallsFor(r, 1..m) : c.run = r /\ c.item \in 1..m
           /\ \A i \in 1..m : \E c \in CallsFor(r, 1..m) : c.item = i
<1>1. ASSUME NEW a \in Nat, a = 1
      PROVE  /\ NewCalls(CallsFor(r, a..m)) /\ Cardinality(CallsFor(r, a..m)) = m - a + 1
             /\ \A c \in CallsFor(r, a..m) : c.run = r /\ c.item \in a..m
             /\ \A i \in a..m : \E c \in CallsFor(r, a..m) : c.item = i
  <2>1. a <= m
    BY <1>1
  <2> QED
    BY <2>1, NewRange
<1>2. m - 1 + 1 = m /\ 1 \in Nat
  OBVIOUS
<1> QED
  BY <1>1, <1>2

-----------------------------------------------------------------------------
(* The wire.                                                               *)

\* The client drops calls, makes some, and takes at most one answer off the way back; if it
\* learns of a version, it is one the worker has been at.
ClientStep(kept, C) ==
    /\ kept \subseteq pending /\ NewCalls(C) /\ Sends(kept, C)
    /\ inFlight' = inFlight /\ version' = version
    /\ out' = out \/ (out # <<>> /\ out' = Tail(out))
    /\ learned' \in Nat /\ learned <= learned' /\ learned' <= version

PollsAlone ==
    \A p \in pending : p.run = NoRun =>
        p.asked = learned /\ \A q \in pending : q.run = NoRun => q = p

\* What the way back holds after a client's step was on it before.
LEMMA TakenOut ==
    ASSUME WireTyped, out' = out \/ (out # <<>> /\ out' = Tail(out))
    PROVE  /\ out' \in Seq(Answer)
           /\ \A k \in 1..Len(out') : \E j \in 1..Len(out) : out'[k] = out[j]
<1>1. CASE out' = out
  BY <1>1 DEF WireTyped
<1>2. CASE out # <<>> /\ out' = Tail(out)
  <2>1. out' \in Seq(Answer) /\ Len(out') = Len(out) - 1
        /\ \A k \in 1..Len(out') : out'[k] = out[k + 1]
    BY <1>2, HeadTailProperties DEF WireTyped
  <2>2. Len(out) \in Nat
    BY LenProperties DEF WireTyped
  <2>3. ASSUME NEW k \in 1..Len(out') PROVE k + 1 \in 1..Len(out) /\ out'[k] = out[k + 1]
    BY <2>1, <2>2
  <2> QED
    BY <2>1, <2>3
<1> QED
  BY <1>1, <1>2

\* What the pipe holds after a client's step was on it before, or is the line of a new call.
LEMMA PutIn ==
    ASSUME WireTyped, NEW C, NewCalls(C), pipe' = pipe \o Lines(C)
    PROVE  /\ pipe' \in Seq(Request)
           /\ \A k \in 1..Len(pipe') :
                 \/ \E j \in 1..Len(pipe) : pipe'[k] = pipe[j]
                 \/ \E j \in 1..Cardinality(C) :
                       /\ pipe'[k] = Lines(C)[j] /\ pipe'[k].id = nextId + j - 1
                       /\ \A c \in C : c.id = pipe'[k].id => pipe'[k].item = c.item
<1> DEFINE L == Lines(C)  m == Cardinality(C)
<1>1. pipe \in Seq(Request) /\ L \in Seq(Request) /\ Len(L) = m /\ m \in Nat
  BY DEF WireTyped, NewCalls
<1>2. Len(pipe) \in Nat
  BY <1>1, LenProperties
<1>3. /\ pipe' \in Seq(Request)
      /\ Len(pipe') = Len(pipe) + m
      /\ \A k \in 1..(Len(pipe) + m) :
            pipe'[k] = IF k <= Len(pipe) THEN pipe[k] ELSE L[k - Len(pipe)]
  <2> HIDE DEF L, m
  <2>1. /\ pipe \o L \in Seq(Request)
        /\ Len(pipe \o L) = Len(pipe) + Len(L)
        /\ \A k \in 1..(Len(pipe) + Len(L)) :
              (pipe \o L)[k] = IF k <= Len(pipe) THEN pipe[k] ELSE L[k - Len(pipe)]
    BY <1>1, ConcatProperties
  <2>2. pipe' = pipe \o L
    BY DEF L
  <2> QED
    BY <1>1, <2>1, <2>2
<1>4. \A j \in 1..m : /\ L[j].id = nextId + j - 1
                      /\ \A c \in C : c.id = nextId + j - 1 => L[j].item = c.item
  BY DEF NewCalls
<1> HIDE DEF L, m
<1>5. ASSUME NEW k \in 1..Len(pipe')
      PROVE  \/ \E j \in 1..Len(pipe) : pipe'[k] = pipe[j]
             \/ \E j \in 1..m : /\ pipe'[k] = L[j] /\ pipe'[k].id = nextId + j - 1
                                /\ \A c \in C : c.id = pipe'[k].id => pipe'[k].item = c.item
  <2>1. CASE k <= Len(pipe)
    BY <1>2, <1>3, <2>1
  <2>2. CASE k > Len(pipe)
    <3>1. k - Len(pipe) \in 1..m /\ pipe'[k] = L[k - Len(pipe)]
      BY <1>1, <1>2, <1>3, <2>2
    <3> QED
      BY <1>4, <3>1
  <2>3. k <= Len(pipe) \/ k > Len(pipe)
    BY <1>2
  <2> QED
    BY <2>1, <2>2, <2>3
<1> QED
  BY <1>3, <1>5 DEF L, m

\* A client's step keeps the wire right.
LEMMA WireStep ==
    ASSUME WireInv, NEW kept, NEW C, ClientStep(kept, C), PollsAlone'
    PROVE  WireInv'
<1>1. /\ pending' = kept \cup C /\ kept \subseteq pending
      /\ nextId' = nextId + Cardinality(C)
      /\ pipe' = pipe \o Lines(C)
      /\ inFlight' = inFlight /\ version' = version
      /\ learned' \in Nat /\ learned <= learned' /\ learned' <= version
  BY DEF ClientStep, Sends
<1>2. /\ out' \in Seq(Answer)
      /\ \A k \in 1..Len(out') : \E j \in 1..Len(out) : out'[k] = out[j]
  BY TakenOut DEF ClientStep, WireInv
<1>3. /\ pipe' \in Seq(Request)
      /\ \A k \in 1..Len(pipe') :
            \/ \E j \in 1..Len(pipe) : pipe'[k] = pipe[j]
            \/ \E j \in 1..Cardinality(C) :
                  /\ pipe'[k].id = nextId + j - 1
                  /\ \A c \in C : c.id = pipe'[k].id => pipe'[k].item = c.item
  BY <1>1, PutIn DEF ClientStep, WireInv
<1>4. /\ Cardinality(C) \in Nat
      /\ \A c \in C : c.id \in nextId..(nextId + Cardinality(C) - 1) /\ c.asked = learned
  BY DEF ClientStep, NewCalls
<1>5. /\ nextId \in Nat /\ nextId >= 1
      /\ \A p \in pending : p.id \in Nat /\ p.id >= 1 /\ p.id < nextId
      /\ \A k \in 1..Len(pipe) : pipe[k].id \in Nat /\ pipe[k].id < nextId
      /\ \A m \in inFlight : m.id \in Nat /\ m.id < nextId
      /\ \A k \in 1..Len(out) : out[k].id \in Nat /\ out[k].id < nextId
  <2>1. \A k \in 1..Len(pipe) : pipe[k] \in Request
    BY ElementOfSeq DEF WireInv, WireTyped
  <2>2. \A k \in 1..Len(out) : out[k] \in Answer
    BY ElementOfSeq DEF WireInv, WireTyped
  <2>3. /\ \A k \in 1..Len(pipe) : pipe[k].id \in Ids
        /\ \A k \in 1..Len(out) : out[k].id \in Ids
    BY <2>1, <2>2 DEF Request, Answer
  <2>4. \A m \in inFlight : m.id \in Ids
    BY DEF WireInv, WireTyped
  <2> QED
    BY <2>3, <2>4 DEF WireInv, IdsMade, Ids
<1>6. WireTyped' /\ NoReadStraddles'
  BY <1>1, <1>2, <1>3 DEF WireInv, WireTyped, NoReadStraddles
<1>7. IdsMade'
  <2>1. nextId' \in Ids
    BY <1>1, <1>4, <1>5 DEF Ids
  <2>2. \A p \in pending' : p.id \in Ids /\ p.id < nextId'
    BY <1>1, <1>4, <1>5 DEF Ids
  <2>3. ASSUME NEW k \in 1..Len(pipe') PROVE pipe'[k].id < nextId'
    <3>1. CASE \E j \in 1..Len(pipe) : pipe'[k] = pipe[j]
      BY <1>1, <1>4, <1>5, <3>1
    <3>2. CASE \E j \in 1..Cardinality(C) : pipe'[k].id = nextId + j - 1
      BY <1>1, <1>4, <1>5, <3>2
    <3> QED
      BY <1>3, <3>1, <3>2
  <2>4. \A m \in inFlight' : m.id < nextId'
    BY <1>1, <1>4, <1>5
  <2>5. \A k \in 1..Len(out') : out'[k].id < nextId'
    BY <1>1, <1>2, <1>4, <1>5
  <2> QED
    BY <2>1, <2>2, <2>3, <2>4, <2>5 DEF IdsMade
<1>10. CallsTyped'
  <2>1. C \subseteq Call /\ \A c, d \in C : c.id = d.id => c = d
    BY DEF ClientStep, NewCalls
  <2>2. ASSUME NEW p \in pending', NEW q \in pending', p.id = q.id PROVE p = q
    BY <1>1, <1>4, <1>5, <2>1, <2>2 DEF WireInv, CallsTyped
  <2>3. learned' >= 1 /\ version' <= MaxVersion
    BY <1>1 DEF WireInv, CallsTyped, VersionsKnown
  <2> QED
    BY <1>1, <2>1, <2>2, <2>3 DEF WireInv, CallsTyped
<1>8. AnswersServe'
  <2>1. ASSUME NEW p \in pending', NEW k \in 1..Len(pipe'), pipe'[k].id = p.id
        PROVE  pipe'[k].item = p.item
    <3>1. CASE p \in kept
      <4>1. p.id \in Nat /\ p.id < nextId
        BY <1>1, <1>5, <3>1
      <4>2. ~ \E j \in 1..Cardinality(C) : pipe'[k].id = nextId + j - 1
        BY <1>4, <1>5, <2>1, <4>1
      <4>3. \E j \in 1..Len(pipe) : pipe'[k] = pipe[j]
        BY <1>3, <4>2
      <4> QED
        BY <1>1, <2>1, <3>1, <4>3 DEF WireInv, AnswersServe
    <3>2. CASE p \in C
      <4>1. p.id \in Nat /\ p.id >= nextId
        BY <1>4, <1>5, <3>2
      <4>2. ~ \E j \in 1..Len(pipe) : pipe'[k] = pipe[j]
        BY <1>5, <2>1, <4>1
      <4> QED
        BY <1>3, <2>1, <3>2, <4>2
    <3> QED
      BY <1>1, <3>1, <3>2
  <2>2. ASSUME NEW p \in pending', NEW m, m \in inFlight' \/ \E k \in 1..Len(out') : m = out'[k]
        PROVE  Serves(m, p)
    <3>1. m \in inFlight \/ \E k \in 1..Len(out) : m = out[k]
      BY <1>1, <1>2, <2>2
    <3>2. CASE p \in kept
      BY <1>1, <3>1, <3>2 DEF WireInv, AnswersServe
    <3>3. CASE p \in C
      BY <1>4, <1>5, <3>1, <3>3 DEF Serves
    <3> QED
      BY <1>1, <3>2, <3>3
  <2> QED
    BY <2>1, <2>2 DEF AnswersServe, Serves
<1>9. VersionsKnown'
  <2>1. \A p \in pending' : p.asked \in Nat /\ p.asked <= learned'
    BY <1>1, <1>4 DEF WireInv, VersionsKnown
  <2>2. \A k \in 1..Len(out') : out'[k].version <= version'
    BY <1>1, <1>2 DEF WireInv, VersionsKnown
  <2>3. learned' \in Nat /\ version' \in Nat /\ learned' <= version'
    BY <1>1 DEF WireInv, VersionsKnown
  <2> QED
    BY <2>1, <2>2, <2>3 DEF VersionsKnown, PollsAlone
<1> QED
  BY <1>6, <1>7, <1>8, <1>9, <1>10 DEF WireInv

\* A request that is not get_changes is for an item.
LEMMA ReadRequest ==
    ASSUME NEW q \in Request, q.item # 0
    PROVE  q.item \in 1..MaxItems /\ q.id \in Ids
<1>1. q.item \in 0..MaxItems /\ q.id \in Ids
  BY DEF Request
<1>2. MaxItems \in Nat
  BY WorkerAssumption
<1> QED
  BY <1>1, <1>2

\* The worker's steps keep the wire right; a get_changes finds no read under way.
LEMMA WorkerWire ==
    ASSUME WireInv, Worker
    PROVE  WireInv'
<1> USE WorkerAssumption
<1> USE DEF WireInv, WireTyped, CallsTyped, IdsMade, AnswersServe, VersionsKnown, NoReadStraddles,
            Serves, clientVars, Ids
<1>1. /\ \A k \in 1..Len(pipe) : pipe[k] \in Request
      /\ Len(pipe) \in Nat /\ Len(out) \in Nat
  BY ElementOfSeq, LenProperties
<1>2. ASSUME pipe # <<>>, pipe' = Tail(pipe)
      PROVE  /\ pipe' \in Seq(Request)
             /\ \A k \in 1..Len(pipe') : \E j \in 1..Len(pipe) : pipe'[k] = pipe[j]
             /\ \E j \in 1..Len(pipe) : Head(pipe) = pipe[j]
  <2>1. /\ Tail(pipe) \in Seq(Request)
        /\ Len(Tail(pipe)) = Len(pipe) - 1
        /\ \A k \in 1..Len(Tail(pipe)) : Tail(pipe)[k] = pipe[k + 1]
    BY <1>2, HeadTailProperties
  <2>2. ASSUME NEW k \in 1..Len(pipe') PROVE k + 1 \in 1..Len(pipe) /\ pipe'[k] = pipe[k + 1]
    BY <1>1, <1>2, <2>1
  <2>3. Head(pipe) = pipe[1] /\ 1 \in 1..Len(pipe)
    BY <1>1, <1>2
  <2> QED
    BY <1>2, <2>1, <2>2, <2>3
<1>3. ASSUME NEW a \in Answer, out' = Append(out, a)
      PROVE  /\ out' \in Seq(Answer)
             /\ \A k \in 1..Len(out') : out'[k] = a \/ \E j \in 1..Len(out) : out'[k] = out[j]
  BY <1>1, <1>3
<1>7. \A p \in pending :
         /\ \A k \in 1..Len(pipe) : pipe[k].id = p.id => pipe[k].item = p.item
         /\ \A k \in 1..Len(out) : Serves(out[k], p)
  OBVIOUS
<1>4. CASE StartRead
  <2>1. /\ pipe' \in Seq(Request)
        /\ \A k \in 1..Len(pipe') : \E j \in 1..Len(pipe) : pipe'[k] = pipe[j]
    BY <1>2, <1>4 DEF StartRead
  <2>2. PICK j \in 1..Len(pipe) : Head(pipe) = pipe[j]
    BY <1>2, <1>4 DEF StartRead
  <2> DEFINE m == [id |-> pipe[j].id, item |-> pipe[j].item, version |-> version]
  <2>8. /\ pipe[j].id \in Ids /\ pipe[j].id < nextId /\ pipe[j].item \in 1..MaxItems
        /\ version \in 1..MaxVersion
    <3>1. pipe[j] \in Request /\ pipe[j].item # 0
      BY <1>1, <1>4, <2>2 DEF StartRead, Changes
    <3>2. pipe[j].item \in 1..MaxItems /\ pipe[j].id \in Ids
      BY <3>1, ReadRequest
    <3> QED
      BY <3>2
  <2>3. /\ inFlight' = inFlight \cup {m}
        /\ m \in [id : Ids, item : 1..MaxItems, version : 1..MaxVersion]
        /\ m.version = version /\ m.id < nextId
        /\ \A p \in pending : Serves(m, p)
    <3>1. inFlight' = inFlight \cup {m} /\ \A p \in pending : pipe[j].id = p.id => pipe[j].item = p.item
      BY <1>4, <1>7, <2>2 DEF StartRead
    <3>2. \A p \in pending : p.asked <= version
      OBVIOUS
    <3> QED
      BY <2>8, <3>1, <3>2
  <2>4. /\ pending' = pending /\ nextId' = nextId /\ learned' = learned
        /\ version' = version /\ out' = out
    BY <1>4 DEF StartRead
  <2> HIDE DEF m
  <2>5. WireTyped' /\ CallsTyped' /\ IdsMade'
    BY <2>1, <2>3, <2>4
  <2>6. AnswersServe'
    <3>1. ASSUME NEW p \in pending, NEW k \in 1..Len(pipe'), pipe'[k].id = p.id
          PROVE  pipe'[k].item = p.item
      <4> HIDE DEF WireInv
      <4> QED
        BY <1>7, <2>1, <3>1
    <3>2. \A p \in pending : \A o \in inFlight' : Serves(o, p)
      BY <2>3
    <3> QED
      BY <2>4, <3>1, <3>2
  <2>7. VersionsKnown' /\ NoReadStraddles'
    BY <2>1, <2>3, <2>4
  <2> QED
    BY <2>5, <2>6, <2>7
<1>5. CASE EndRead
  <2>1. PICK r \in inFlight, ok \in BOOLEAN :
           /\ inFlight' = inFlight \ {r}
           /\ out' = Append(out, [id |-> r.id, ok |-> ok, item |-> r.item, version |-> r.version])
    BY <1>5 DEF EndRead, Replies
  <2> DEFINE a == [id |-> r.id, ok |-> ok, item |-> r.item, version |-> r.version]
  <2>2. /\ a \in Answer
        /\ a.id < nextId /\ a.version <= version
        /\ \A p \in pending : Serves(a, p)
    BY <2>1 DEF Answer
  <2>3. /\ pending' = pending /\ nextId' = nextId /\ learned' = learned
        /\ version' = version /\ pipe' = pipe
    BY <1>5 DEF EndRead
  <2>4. /\ out' \in Seq(Answer)
        /\ \A k \in 1..Len(out') : out'[k] = a \/ \E j \in 1..Len(out) : out'[k] = out[j]
    <3> HIDE DEF a
    <3>1. out' = Append(out, a)
      BY <2>1 DEF a
    <3> QED
      BY <1>3, <2>2, <3>1
  <2> HIDE DEF a
  <2> QED
    BY <2>1, <2>2, <2>3, <2>4
<1>6. CASE AnswerChanges
  <2>1. /\ pipe' \in Seq(Request)
        /\ \A k \in 1..Len(pipe') : \E j \in 1..Len(pipe) : pipe'[k] = pipe[j]
    BY <1>2, <1>6 DEF AnswerChanges
  <2>2. PICK j \in 1..Len(pipe) : Head(pipe) = pipe[j]
    BY <1>2, <1>6 DEF AnswerChanges
  <2>3. PICK v \in version..MaxVersion :
           /\ version' = v
           /\ out' = Append(out, [id |-> pipe[j].id, ok |-> TRUE, item |-> 0, version |-> v])
    BY <1>6, <2>2 DEF AnswerChanges, Replies, Changes
  <2> DEFINE a == [id |-> pipe[j].id, ok |-> TRUE, item |-> 0, version |-> v]
  <2>4. v \in Nat /\ version <= v
    OBVIOUS
  <2>5. /\ a \in Answer
        /\ a.id < nextId /\ a.version = v
        /\ \A p \in pending : Serves(a, p)
    <3>1. pipe[j].id \in Ids /\ pipe[j].id < nextId /\ pipe[j].item = 0
      BY <1>1, <1>6, <2>2 DEF AnswerChanges, Changes, Request
    <3>2. ASSUME NEW p \in pending PROVE pipe[j].id = p.id => p.item = 0 /\ p.asked <= v
      BY <2>4, <3>1
    <3> QED
      BY <2>4, <3>1, <3>2 DEF Answer
  <2>6. /\ out' \in Seq(Answer)
        /\ \A k \in 1..Len(out') : out'[k] = a \/ \E i \in 1..Len(out) : out'[k] = out[i]
    <3> HIDE DEF a
    <3>1. out' = Append(out, a)
      BY <2>3 DEF a
    <3> QED
      BY <1>3, <2>5, <3>1
  <2>7. /\ pending' = pending /\ nextId' = nextId /\ learned' = learned
        /\ inFlight = {} /\ inFlight' = {}
    BY <1>6 DEF AnswerChanges, Idle
  <2> HIDE DEF a
  <2>8. WireTyped' /\ CallsTyped' /\ IdsMade'
    <3>1. version' <= MaxVersion
      BY <2>3
    <3>2. WireTyped' /\ CallsTyped'
      BY <2>1, <2>6, <2>7, <3>1
    <3>3. \A k \in 1..Len(out') : out'[k].id < nextId
      BY <2>5, <2>6
    <3>4. \A k \in 1..Len(pipe') : pipe'[k].id < nextId
      BY <2>1
    <3> QED
      BY <2>7, <3>2, <3>3, <3>4
  <2>9. AnswersServe'
    <3>1. ASSUME NEW p \in pending, NEW k \in 1..Len(pipe'), pipe'[k].id = p.id
          PROVE  pipe'[k].item = p.item
      <4> HIDE DEF WireInv
      <4>1. PICK i \in 1..Len(pipe) : pipe'[k] = pipe[i]
        BY <2>1
      <4>2. pipe[i].id = p.id
        BY <3>1, <4>1
      <4> QED
        BY <1>7, <4>1, <4>2
    <3>2. ASSUME NEW p \in pending, NEW k \in 1..Len(out') PROVE Serves(out'[k], p)
      <4> HIDE DEF WireInv, Serves
      <4> QED
        BY <1>7, <2>5, <2>6
    <3> QED
      BY <2>7, <3>1, <3>2
  <2>10. VersionsKnown' /\ NoReadStraddles'
    <3>1. version' = v /\ learned <= v
      BY <2>3, <2>4
    <3>2. ASSUME NEW k \in 1..Len(out') PROVE out'[k].version <= v
      <4>1. CASE out'[k] = a
        BY <2>4, <2>5, <4>1
      <4>2. CASE \E i \in 1..Len(out) : out'[k] = out[i]
        <5>1. PICK i \in 1..Len(out) : out'[k] = out[i]
          BY <4>2
        <5>2. out[i] \in Answer /\ out[i].version <= version
          BY ElementOfSeq
        <5>3. out[i].version \in Nat /\ version \in Nat
          BY <5>2 DEF Answer
        <5>4. out[i].version <= v
          BY <2>4, <5>2, <5>3
        <5> QED
          BY <5>1, <5>4
      <4> QED
        BY <2>6, <4>1, <4>2
    <3> QED
      BY <2>4, <2>7, <3>1, <3>2
  <2> QED
    BY <2>8, <2>9, <2>10
<1> QED
  BY <1>4, <1>5, <1>6 DEF Worker

-----------------------------------------------------------------------------
(* The runs.                                                               *)

\* How many lanes a run of n items starts: one for every item its window covers.
LEMMA FirstLanes ==
    ASSUME NEW n \in Nat
    PROVE  LET w == Width(n)
               m == Min({n, w})
           IN  /\ w \in Nat \ {0} /\ m \in Nat
               /\ m <= n /\ m <= w /\ (m = n \/ m = w)
<1> DEFINE l == IF Window = 0 THEN 1 ELSE Window
           k == Min({l, n})
<1>1. l \in Nat
  BY WorkerAssumption
<1> HIDE DEF l
<1>2. k \in Nat
  BY <1>1 DEF Min
<1> HIDE DEF k
<1>3. Max({1, k}) \in Nat \ {0}
  BY <1>2 DEF Max
<1>4. Width(n) = Max({1, k})
  BY DEF Width, k, l
<1>5. ASSUME NEW w \in Nat
      PROVE  /\ Min({n, w}) \in Nat /\ Min({n, w}) <= n /\ Min({n, w}) <= w
             /\ (Min({n, w}) = n \/ Min({n, w}) = w)
  BY DEF Min
<1> QED
  BY <1>3, <1>4, <1>5

\* The runs do not change, and no call of a run comes or goes.
LEMMA RunsFrame ==
    ASSUME RunsInv, runs' = runs, IsFiniteSet(pending'),
           \A p : p.run # NoRun => (p \in pending' <=> p \in pending)
    PROVE  RunsInv'
<1>1. \A r \in 1..Len(runs) : CallsOf(r)' = CallsOf(r)
  BY DEF CallsOf, NoRun
<1>2. RunsTyped' /\ CallsKnown' /\ OneRuns' /\ ResultsAreRight' /\ ReadsFollowTheChanges'
  BY DEF RunsInv, RunsTyped, CallsKnown, OneRuns, ResultsAreRight, ReadsFollowTheChanges
<1>3. LanesAwait' /\ LanesCounted'
  <2>1. LanesAwait'
    BY <1>1 DEF RunsInv, LanesAwait
  <2>2. LanesCounted'
    BY <1>1 DEF RunsInv, LanesCounted
  <2> QED
    BY <2>1, <2>2
<1> QED
  BY <1>2, <1>3 DEF RunsInv

\* Calls given up: those of a run reject it, whatever its other lanes do.
LEMMA Thrown ==
    ASSUME RunsInv, NEW X \in SUBSET pending, pending' = pending \ X,
           LanesThrow({c \in X : c.run # NoRun})
    PROVE  RunsInv'
<1> DEFINE Y == {c \in X : c.run # NoRun}
           Ended(r) == Cardinality({c \in Y : c.run = r})
           After(r) == IF Ended(r) = 0 THEN runs[r]
                       ELSE [runs[r] EXCEPT !.lanes = @ - Ended(r), !.outcome = "rejected"]
<1>1. runs' = [r \in 1..Len(runs) |-> After(r)]
  BY DEF LanesThrow
<1>2. IsFiniteSet(pending) /\ IsFiniteSet(pending')
  <2>1. IsFiniteSet(pending)
    BY DEF RunsInv, CallsKnown
  <2> QED
    BY <2>1, FS_Subset
<1>3. ASSUME NEW r \in 1..Len(runs)
      PROVE  /\ Ended(r) \in Nat
             /\ Ended(r) = 0 => CallsOf(r)' = CallsOf(r)
             /\ Cardinality(CallsOf(r)') = Cardinality(CallsOf(r)) - Ended(r)
             /\ Cardinality(CallsOf(r)) \in Nat
  <2> DEFINE E == {c \in Y : c.run = r}
  <2>1. E \in SUBSET pending
    OBVIOUS
  <2>2. IsFiniteSet(E)
    <3> HIDE DEF E
    <3> QED
      BY <1>2, <2>1, FS_Subset
  <2>3. Cardinality(E) \in Nat /\ (Cardinality(E) = 0 <=> E = {})
    <3> HIDE DEF E
    <3> QED
      BY <2>2, FS_CardinalityType, FS_EmptySet
  <2>4. E = {} => CallsOf(r)' = CallsOf(r)
    BY DEF CallsOf, NoRun
  <2>5. CallsOf(r)' = CallsOf(r) \ E /\ E \subseteq CallsOf(r)
    BY DEF CallsOf, NoRun
  <2>6. IsFiniteSet(CallsOf(r)) /\ Cardinality(CallsOf(r)) \in Nat
    BY <1>2, FS_Subset, FS_CardinalityType DEF CallsOf
  <2>7. Cardinality(CallsOf(r) \ E) = Cardinality(CallsOf(r)) - Cardinality(E)
    <3> HIDE DEF E
    <3>1. CallsOf(r) \cap E = E
      BY <2>5
    <3> QED
      BY <2>6, <3>1, FS_Difference
  <2> QED
    BY <2>3, <2>4, <2>5, <2>6, <2>7
<1>4. \A r \in 1..Len(runs) : runs[r] \in Run
  BY ElementOfSeq DEF RunsInv, RunsTyped
<1> HIDE DEF Ended
<1>5. ASSUME NEW r \in 1..Len(runs)
      PROVE  /\ After(r) \in Run
             /\ After(r).n = runs[r].n /\ After(r).results = runs[r].results
             /\ After(r).lanes = runs[r].lanes - Ended(r)
             /\ After(r).outcome \in {runs[r].outcome, "rejected"}
             /\ After(r).outcome = "running" => After(r) = runs[r] /\ Ended(r) = 0
  <2>1. CASE Ended(r) = 0
    BY <1>4, <2>1 DEF Run
  <2>2. CASE Ended(r) # 0
    <3>1. PICK d \in Int : d = runs[r].lanes - Ended(r)
      BY <1>3, <1>4 DEF Run
    <3>2. After(r) = [runs[r] EXCEPT !.lanes = d, !.outcome = "rejected"]
      BY <2>2, <3>1
    <3>3. runs[r] \in Run
      BY <1>4
    <3>4. After(r).lanes = d
      BY <3>2, <3>3 DEF Run
    <3>5. /\ After(r) \in Run /\ After(r).n = runs[r].n /\ After(r).results = runs[r].results
          /\ After(r).outcome = "rejected"
      BY <3>2, <3>3 DEF Run
    <3> QED
      BY <3>1, <3>4, <3>5
  <2> QED
    BY <2>1, <2>2
<1> HIDE DEF After
<1>6. /\ runs' \in Seq(Run) /\ Len(runs') = Len(runs)
      /\ \A r \in 1..Len(runs) : runs'[r] = After(r)
  <2>1. Len(runs) \in Nat
    BY LenProperties DEF RunsInv, RunsTyped
  <2> QED
    BY <1>1, <1>5, <2>1
<1>7. RunsTyped'
  BY <1>5, <1>6 DEF RunsInv, RunsTyped
<1>8. CallsKnown'
  BY <1>2, <1>5, <1>6 DEF RunsInv, CallsKnown
<1>9. LanesAwait'
  <2>1. ASSUME NEW r \in 1..Len(runs), runs'[r].outcome = "running"
        PROVE  runs'[r] = runs[r] /\ CallsOf(r)' = CallsOf(r)
    BY <1>3, <1>5, <1>6, <2>1
  <2> QED
    BY <1>6, <2>1 DEF RunsInv, LanesAwait
<1>11. LanesCounted'
  <2>1. ASSUME NEW r \in 1..Len(runs)
        PROVE  /\ runs'[r].n <= MaxItems
               /\ runs'[r].lanes = Cardinality(CallsOf(r)') /\ runs'[r].lanes <= Width(runs'[r].n)
    <3>1. /\ runs[r].n <= MaxItems /\ runs[r].lanes \in Int /\ runs[r].n \in Nat
          /\ runs[r].lanes = Cardinality(CallsOf(r)) /\ runs[r].lanes <= Width(runs[r].n)
      BY <1>4 DEF RunsInv, LanesCounted, Run
    <3>2. Width(runs[r].n) \in Nat
      BY <3>1, FirstLanes
    <3>3. Cardinality(CallsOf(r)') = Cardinality(CallsOf(r)) - Ended(r) /\ Ended(r) \in Nat
      BY <1>3
    <3> QED
      BY <1>5, <1>6, <3>1, <3>2, <3>3
  <2> QED
    BY <1>6, <2>1 DEF LanesCounted, Width
<1>12. OneRuns'
  BY <1>5, <1>6 DEF RunsInv, OneRuns
<1>10. ResultsAreRight' /\ ReadsFollowTheChanges'
  BY <1>5, <1>6 DEF RunsInv, ResultsAreRight, ReadsFollowTheChanges
<1> QED
  BY <1>7, <1>8, <1>9, <1>10, <1>11, <1>12 DEF RunsInv

\* A result is stored at its item's place and the lane takes the next item, or ends.
LEMMA Continued ==
    ASSUME RunsInv, IdsMade, learned \in Nat, NEW call \in pending, call.run # NoRun,
           NEW result \in Result, result.item = call.item, result.asked <= result.version,
           LaneContinues(call, result)
    PROVE  RunsInv'
<1> DEFINE r == call.run
           more == runs[r].next <= runs[r].n
           C == IF more THEN CallsFor(r, {runs[r].next}) ELSE {}
           left == IF more THEN runs[r].lanes ELSE runs[r].lanes - 1
           stored == [runs[r].results EXCEPT ![call.item] = result]
           after == runs'[r]
<1>1. /\ r \in 1..Len(runs) /\ call.item \in 1..runs[r].n
      /\ Len(runs) \in Nat
      /\ runs[r] \in Run /\ runs[r].results \in [1..runs[r].n -> Result]
  BY ElementOfSeq, LenProperties DEF RunsInv, RunsTyped, CallsKnown
<1>2. /\ runs[r].n \in Nat /\ runs[r].next \in Nat /\ runs[r].next >= 1 /\ runs[r].lanes \in Int
      /\ runs[r].outcome \in {"running", "resolved", "rejected"}
  BY <1>1 DEF Run, Ids
<1>3. /\ stored \in [1..runs[r].n -> Result]
      /\ \A i \in 1..runs[r].n : stored[i] = IF i = call.item THEN result ELSE runs[r].results[i]
  BY <1>1
<1>4. /\ runs' = [runs EXCEPT ![r] =
               [runs[r] EXCEPT !.results = stored,
                               !.next = runs[r].next + 1,
                               !.lanes = left,
                               !.outcome = IF left = 0 /\ runs[r].outcome = "running"
                                           THEN "resolved" ELSE runs[r].outcome]]
      /\ pending' = (pending \ {call}) \cup C
  BY DEF LaneContinues, Sends
<1> HIDE DEF stored
<1>5. left \in Int
  BY <1>2
<1>6. stored \in Results
  BY <1>2, <1>3 DEF Results
<1>7. /\ runs' \in Seq(Run) /\ Len(runs') = Len(runs)
      /\ \A s \in 1..Len(runs) : s # r => runs'[s] = runs[s]
      /\ after.n = runs[r].n /\ after.results = stored /\ after.next = runs[r].next + 1
      /\ after.lanes = left
      /\ after.outcome = IF left = 0 /\ runs[r].outcome = "running"
                         THEN "resolved" ELSE runs[r].outcome
  <2> DEFINE outcome == IF left = 0 /\ runs[r].outcome = "running"
                        THEN "resolved" ELSE runs[r].outcome
             next == runs[r].next + 1
             new == [runs[r] EXCEPT !.results = stored, !.next = next,
                                    !.lanes = left, !.outcome = outcome]
  <2>1. runs' = [runs EXCEPT ![r] = new]
    BY <1>4
  <2>2. outcome \in {"running", "resolved", "rejected"} /\ next \in Ids
    BY <1>2 DEF Ids
  <2>3. runs \in Seq(Run)
    BY DEF RunsInv, RunsTyped
  <2> HIDE DEF r, left, outcome, next
  <2>4. /\ new \in Run
        /\ new.n = runs[r].n /\ new.results = stored /\ new.next = next
        /\ new.lanes = left /\ new.outcome = outcome
    BY <1>1, <1>5, <1>6, <2>2 DEF Run
  <2> HIDE DEF new
  <2>5. /\ runs' \in Seq(Run) /\ Len(runs') = Len(runs)
        /\ \A s \in 1..Len(runs) : runs'[s] = IF s = r THEN new ELSE runs[s]
    BY <1>1, <2>1, <2>3, <2>4, ExceptSeq
  <2>6. after = new
    BY <1>1, <2>5
  <2> QED
    BY <2>4, <2>5, <2>6 DEF outcome, next
<1>8. /\ \A c \in C : c.run = r /\ c.item = runs[r].next /\ c.id >= nextId
      /\ more => \E c \in C : C = {c}
  <2>1. Min({runs[r].next}) = runs[r].next
    BY DEF Min
  <2>2. nextId \in Nat
    BY DEF IdsMade, Ids
  <2> DEFINE c == [id |-> nextId + runs[r].next - runs[r].next, run |-> r,
                   item |-> runs[r].next, asked |-> learned]
  <2>3. CallsFor(r, {runs[r].next}) = {c}
    BY <2>1 DEF CallsFor
  <2>4. c.run = r /\ c.item = runs[r].next /\ c.id >= nextId
    BY <1>2, <2>2
  <2> HIDE DEF c
  <2> QED
    BY <2>3, <2>4
<1>9. /\ IsFiniteSet(pending) /\ IsFiniteSet(CallsOf(r))
      /\ Cardinality(CallsOf(r)) \in Nat
      /\ call \in CallsOf(r)
  <2>1. IsFiniteSet(pending) /\ CallsOf(r) \in SUBSET pending
    BY DEF RunsInv, CallsKnown, CallsOf
  <2>2. call \in CallsOf(r)
    BY DEF CallsOf
  <2> HIDE DEF r
  <2> QED
    BY <2>1, <2>2, FS_Subset, FS_CardinalityType
<1>10. /\ CallsOf(r)' = (CallsOf(r) \ {call}) \cup C
       /\ \A s \in 1..Len(runs) : s # r => CallsOf(s)' = CallsOf(s)
  BY <1>4, <1>8 DEF CallsOf
<1>11. /\ IsFiniteSet(pending')
       /\ Cardinality(CallsOf(r)') =
             IF more THEN Cardinality(CallsOf(r)) ELSE Cardinality(CallsOf(r)) - 1
  <2> DEFINE D == CallsOf(r) \ {call}
  <2>1. IsFiniteSet(D) /\ Cardinality(D) = Cardinality(CallsOf(r)) - 1
        /\ IsFiniteSet(pending \ {call})
    BY <1>9, FS_RemoveElement
  <2>2. CASE more
    <3>1. PICK c \in C : C = {c}
      BY <1>8, <2>2
    <3>2. c \notin D
      <4>1. \A p \in pending : p.id \in Nat /\ p.id < nextId
        BY DEF IdsMade, Ids
      <4>2. c.id >= nextId /\ nextId \in Nat
        BY <1>8 DEF IdsMade, Ids
      <4>3. D \subseteq pending
        BY DEF CallsOf
      <4> HIDE DEF D, C
      <4> QED
        BY <4>1, <4>2, <4>3
    <3> HIDE DEF D, C
    <3>3. Cardinality(D \cup {c}) = Cardinality(D) + 1
      BY <2>1, <3>2, FS_AddElement
    <3>4. IsFiniteSet((pending \ {call}) \cup {c})
      BY <2>1, FS_AddElement
    <3>5. CallsOf(r)' = D \cup {c} /\ pending' = (pending \ {call}) \cup {c}
      BY <1>4, <1>10, <3>1 DEF D
    <3> QED
      BY <1>9, <2>1, <2>2, <3>3, <3>4, <3>5
  <2>3. CASE ~more
    BY <1>4, <1>10, <2>1, <2>3
  <2> QED
    BY <2>2, <2>3
<1> HIDE DEF C, after
<1>12. RunsTyped'
  <2>1. ASSUME NEW s \in 1..Len(runs) PROVE runs'[s].results \in [1..runs'[s].n -> Result]
    <3>1. CASE s = r
      BY <1>3, <1>7, <3>1 DEF after
    <3>2. CASE s # r
      BY <1>7, <3>2 DEF RunsInv, RunsTyped
    <3> QED
      BY <3>1, <3>2
  <2> QED
    BY <1>7, <2>1 DEF RunsTyped
<1>13. CallsKnown'
  <2>1. \A s \in 1..Len(runs) : runs'[s].n = runs[s].n
    BY <1>7 DEF after
  <2>2. \A c \in C : c.run = r /\ c.item \in 1..runs[r].n
    <3>1. C # {} => more /\ runs[r].next >= 1
      BY <1>2 DEF C
    <3> QED
      BY <1>2, <1>8, <3>1
  <2>3. ASSUME NEW p \in pending', p.run # NoRun
        PROVE  p.run \in 1..Len(runs) /\ p.item \in 1..runs[p.run].n
    BY <1>1, <1>4, <2>2, <2>3 DEF RunsInv, CallsKnown
  <2> QED
    BY <1>7, <1>11, <2>1, <2>3 DEF CallsKnown
<1>14. ASSUME runs[r].outcome = "running", NEW i \in 1..runs[r].n
       PROVE  \/ stored[i].item = i
              \/ i >= runs[r].next + 1
              \/ \E p \in CallsOf(r)' : p.item = i
  <2>1. \/ runs[r].results[i].item = i
        \/ i >= runs[r].next
        \/ \E p \in CallsOf(r) : p.item = i
    BY <1>1, <1>14 DEF RunsInv, LanesAwait
  <2>2. CASE i = call.item
    BY <1>3, <2>2
  <2>3. CASE i # call.item /\ i = runs[r].next
    <3>1. PICK c \in C : C = {c}
      BY <1>2, <1>8, <2>3
    <3> QED
      BY <1>8, <1>10, <2>3, <3>1
  <2>4. CASE i # call.item /\ i # runs[r].next
    BY <1>2, <1>3, <1>10, <2>1, <2>4
  <2> QED
    BY <2>2, <2>3, <2>4
<1>15. ASSUME runs[r].outcome = "running"
       PROVE  /\ LanesAwait'
              /\ \A i \in 1..after.n : \/ after.results[i].item = i
                                       \/ after.results[i] = Unread /\ after.outcome # "resolved"
  <2>1. runs[r].lanes = Cardinality(CallsOf(r))
    BY <1>1 DEF RunsInv, LanesCounted
  <2>2. left = Cardinality(CallsOf(r)')
    BY <1>11, <2>1
  <2>3. LanesAwait'
    <3>1. ASSUME NEW s \in 1..Len(runs), s # r, runs'[s].outcome = "running"
          PROVE  \A i \in 1..runs'[s].n : \/ runs'[s].results[i].item = i
                                           \/ i >= runs'[s].next
                                           \/ \E p \in CallsOf(s)' : p.item = i
      BY <1>7, <1>10, <3>1 DEF RunsInv, LanesAwait
    <3>2. \A i \in 1..after.n : \/ after.results[i].item = i
                                \/ i >= after.next
                                \/ \E p \in CallsOf(r)' : p.item = i
      BY <1>7, <1>14, <1>15
    <3> QED
      BY <1>7, <3>1, <3>2 DEF LanesAwait, after
  <2>4. ASSUME left = 0, NEW i \in 1..runs[r].n PROVE stored[i].item = i
    <3>1. ~more /\ CallsOf(r)' = {}
      <4>1. IsFiniteSet(CallsOf(r)')
        BY <1>11, FS_Subset DEF CallsOf
      <4>2. CallsOf(r)' = {}
        BY <2>2, <2>4, <4>1, FS_EmptySet
      <4>3. more => C # {}
        BY <1>8
      <4> QED
        BY <1>10, <4>2, <4>3
    <3> QED
      BY <1>2, <1>14, <1>15, <2>4, <3>1
  <2>5. ASSUME NEW i \in 1..runs[r].n
        PROVE  stored[i].item = i \/ (stored[i] = Unread /\ left # 0)
    <3>1. runs[r].results[i].item = i \/ runs[r].results[i] = Unread
      BY <1>1 DEF RunsInv, ResultsAreRight
    <3> QED
      BY <1>3, <2>4, <3>1
  <2>6. ASSUME NEW i \in 1..after.n
        PROVE  \/ after.results[i].item = i
               \/ after.results[i] = Unread /\ after.outcome # "resolved"
    BY <1>7, <1>15, <2>5
  <2> QED
    BY <2>3, <2>6
<1>16. ASSUME runs[r].outcome # "running"
       PROVE  /\ LanesAwait'
              /\ \A i \in 1..after.n : \/ after.results[i].item = i
                                       \/ after.results[i] = Unread /\ after.outcome # "resolved"
  <2>1. after.outcome = runs[r].outcome /\ after.outcome # "running"
    BY <1>7, <1>16
  <2>2. ASSUME NEW s \in 1..Len(runs), runs'[s].outcome = "running"
        PROVE  \A i \in 1..runs'[s].n : \/ runs'[s].results[i].item = i
                                         \/ i >= runs'[s].next
                                         \/ \E p \in CallsOf(s)' : p.item = i
    <3>1. s # r
      BY <2>1, <2>2 DEF after
    <3> QED
      BY <1>7, <1>10, <2>2, <3>1 DEF RunsInv, LanesAwait
  <2>3. LanesAwait'
    BY <1>7, <2>2 DEF LanesAwait
  <2>4. ASSUME NEW i \in 1..after.n
        PROVE  \/ after.results[i].item = i
               \/ after.results[i] = Unread /\ after.outcome # "resolved"
    <3>1. \/ runs[r].results[i].item = i
          \/ runs[r].results[i] = Unread /\ runs[r].outcome # "resolved"
      BY <1>1, <1>7 DEF RunsInv, ResultsAreRight
    <3> QED
      BY <1>3, <1>7, <2>1, <3>1
  <2> QED
    BY <2>3, <2>4
<1>17. ResultsAreRight' /\ LanesAwait'
  <2>1. ASSUME NEW s \in 1..Len(runs), s # r, NEW i \in 1..runs'[s].n
        PROVE  \/ runs'[s].results[i].item = i
               \/ runs'[s].results[i] = Unread /\ runs'[s].outcome # "resolved"
    BY <1>7, <2>1 DEF RunsInv, ResultsAreRight
  <2> QED
    BY <1>7, <1>15, <1>16, <2>1 DEF ResultsAreRight, after
<1>19. LanesCounted'
  <2>1. ASSUME NEW s \in 1..Len(runs)
        PROVE  /\ runs'[s].n <= MaxItems
               /\ runs'[s].lanes = Cardinality(CallsOf(s)') /\ runs'[s].lanes <= Width(runs'[s].n)
    <3>1. CASE s = r
      <4>1. /\ runs[r].n <= MaxItems
            /\ runs[r].lanes = Cardinality(CallsOf(r)) /\ runs[r].lanes <= Width(runs[r].n)
        BY <1>1 DEF RunsInv, LanesCounted
      <4>2. left = Cardinality(CallsOf(r)') /\ left <= runs[r].lanes
        BY <1>2, <1>11, <4>1
      <4>3. Width(runs[r].n) \in Nat
        BY <1>2, FirstLanes
      <4>4. left <= Width(runs[r].n)
        BY <1>2, <1>5, <4>1, <4>2, <4>3
      <4> QED
        BY <1>7, <3>1, <4>1, <4>2, <4>4 DEF after
    <3>2. CASE s # r
      BY <1>7, <1>10, <3>2 DEF RunsInv, LanesCounted
    <3> QED
      BY <3>1, <3>2
  <2> QED
    BY <1>7, <2>1 DEF LanesCounted, Width
<1>20. OneRuns'
  <2>1. \A s \in 1..Len(runs) : runs'[s].outcome = "running" => runs[s].outcome = "running"
    BY <1>7 DEF after
  <2> QED
    BY <1>7, <2>1 DEF RunsInv, OneRuns
<1>18. ReadsFollowTheChanges'
  <2>1. ASSUME NEW s \in 1..Len(runs), NEW i \in 1..runs'[s].n
        PROVE  runs'[s].results[i].asked <= runs'[s].results[i].version
    <3>1. CASE s = r
      BY <1>3, <1>7, <3>1 DEF RunsInv, ReadsFollowTheChanges, after
    <3>2. CASE s # r
      BY <1>7, <3>2 DEF RunsInv, ReadsFollowTheChanges
    <3> QED
      BY <3>1, <3>2
  <2> QED
    BY <1>7, <2>1 DEF ReadsFollowTheChanges
<1> QED
  BY <1>12, <1>13, <1>17, <1>18, <1>19, <1>20 DEF RunsInv

\* A run begins with its first items awaited, one by each lane.
LEMMA Started ==
    ASSUME RunsInv, NEW n \in Nat, NEW C, NEW lanes \in Nat, NEW next \in Ids,
           NEW outcome \in {"running", "resolved", "rejected"},
           IsFiniteSet(C), Cardinality(C) = lanes,
           \A c \in C : c.run = Len(runs) + 1 /\ c.item \in 1..n,
           outcome = "running" => \A i \in 1..n : i >= next \/ \E c \in C : c.item = i,
           outcome = "resolved" => n = 0,
           n <= MaxItems, lanes <= Width(n), Running = {},
           pending' = pending \cup C,
           runs' = Append(runs, [n |-> n, next |-> next, lanes |-> lanes, outcome |-> outcome,
                                 results |-> [i \in 1..n |-> Unread]])
    PROVE  RunsInv'
<1> DEFINE new == [n |-> n, next |-> next, lanes |-> lanes, outcome |-> outcome,
                   results |-> [i \in 1..n |-> Unread]]
<1>0. PICK r \in Nat : r = Len(runs) + 1
  BY LenProperties DEF RunsInv, RunsTyped
<1>1. runs \in Seq(Run) /\ Len(runs) \in Nat /\ IsFiniteSet(pending)
  BY LenProperties DEF RunsInv, RunsTyped, CallsKnown
<1>2. [i \in 1..n |-> Unread] \in [1..n -> Result]
  BY DEF Unread, Result
<1>3. new \in Run
  <2>1. [i \in 1..n |-> Unread] \in Results
    BY <1>2 DEF Results
  <2> QED
    BY <2>1 DEF Run
<1>4. /\ new.n = n /\ new.next = next /\ new.lanes = lanes /\ new.outcome = outcome
      /\ new.results \in [1..n -> Result]
      /\ \A i \in 1..n : new.results[i] = Unread
  BY <1>2
<1> HIDE DEF new
<1>5. /\ runs' \in Seq(Run) /\ Len(runs') = r
      /\ runs'[r] = new /\ \A s \in 1..Len(runs) : runs'[s] = runs[s]
  <2>1. runs' = Append(runs, new)
    BY DEF new
  <2> QED
    BY <1>0, <1>1, <1>3, <2>1
<1>6. \A s \in 1..r : s = r \/ s \in 1..Len(runs)
  BY <1>0, <1>1
<1>7. \A p \in pending : p.run # r
  BY <1>0, <1>1 DEF RunsInv, CallsKnown, NoRun
<1>8. /\ CallsOf(r)' = C
      /\ \A s \in 1..Len(runs) : CallsOf(s)' = CallsOf(s)
  BY <1>0, <1>1, <1>5, <1>7 DEF CallsOf, NoRun
<1>9. RunsTyped'
  <2>1. \A s \in 1..Len(runs) : runs[s].results \in [1..runs[s].n -> Result]
    BY DEF RunsInv, RunsTyped
  <2>2. \A s \in 1..r : runs'[s].results \in [1..runs'[s].n -> Result]
    BY <1>4, <1>5, <1>6, <2>1
  <2> QED
    BY <1>5, <2>2 DEF RunsTyped
<1>10. CallsKnown'
  <2>1. IsFiniteSet(pending')
    BY <1>1, FS_Union
  <2>2. ASSUME NEW p \in pending', p.run # NoRun
        PROVE  p.run \in 1..Len(runs') /\ p.item \in 1..runs'[p.run].n
    <3>1. CASE p \in C
      BY <1>0, <1>1, <1>4, <1>5, <3>1
    <3>2. CASE p \in pending
      BY <1>0, <1>1, <1>5, <2>2, <3>2 DEF RunsInv, CallsKnown
    <3> QED
      BY <3>1, <3>2
  <2> QED
    BY <2>1, <2>2 DEF CallsKnown
<1>11. LanesAwait'
  <2>1. ASSUME NEW s \in 1..Len(runs'), runs'[s].outcome = "running"
        PROVE  \A i \in 1..runs'[s].n : \/ runs'[s].results[i].item = i
                                         \/ i >= runs'[s].next
                                         \/ \E p \in CallsOf(s)' : p.item = i
    <3>1. CASE s = r
      BY <1>4, <1>5, <1>8, <2>1, <3>1
    <3>2. CASE s \in 1..Len(runs)
      BY <1>5, <1>8, <2>1, <3>2 DEF RunsInv, LanesAwait
    <3> QED
      BY <1>5, <1>6, <3>1, <3>2
  <2> QED
    BY <2>1 DEF LanesAwait
<1>13. LanesCounted'
  <2>1. ASSUME NEW s \in 1..Len(runs')
        PROVE  /\ runs'[s].n <= MaxItems
               /\ runs'[s].lanes = Cardinality(CallsOf(s)') /\ runs'[s].lanes <= Width(runs'[s].n)
    <3>1. CASE s = r
      BY <1>4, <1>5, <1>8, <3>1
    <3>2. CASE s \in 1..Len(runs)
      BY <1>5, <1>8, <3>2 DEF RunsInv, LanesCounted
    <3> QED
      BY <1>5, <1>6, <3>1, <3>2
  <2> QED
    BY <2>1 DEF LanesCounted, Width
<1>14. OneRuns'
  BY <1>5, <1>6 DEF Running, OneRuns
<1>12. ResultsAreRight' /\ ReadsFollowTheChanges'
  <2>1. Unread.asked <= Unread.version
    BY DEF Unread
  <2>2. ASSUME NEW s \in 1..Len(runs'), NEW i \in 1..runs'[s].n
        PROVE  /\ \/ runs'[s].results[i].item = i
                  \/ runs'[s].results[i] = Unread /\ runs'[s].outcome # "resolved"
               /\ runs'[s].results[i].asked <= runs'[s].results[i].version
    <3>1. CASE s = r
      <4>1. outcome # "resolved"
        BY <1>4, <1>5, <2>2, <3>1
      <4> QED
        BY <1>4, <1>5, <2>1, <2>2, <3>1, <4>1
    <3>2. CASE s \in 1..Len(runs)
      BY <1>5, <2>2, <3>2 DEF RunsInv, ResultsAreRight, ReadsFollowTheChanges
    <3> QED
      BY <1>5, <1>6, <3>1, <3>2
  <2>3. ResultsAreRight'
    BY <2>2 DEF ResultsAreRight
  <2> QED
    BY <2>2, <2>3 DEF ReadsFollowTheChanges
<1> QED
  BY <1>9, <1>10, <1>11, <1>12, <1>13, <1>14 DEF RunsInv

-----------------------------------------------------------------------------
(* The steps.                                                              *)

IInv == WireInv /\ RunsInv

\* The wire is as it was when nothing on it changed.
LEMMA WireFrame ==
    ASSUME WireInv,
           UNCHANGED <<nextId, pending, learned, pipe, inFlight, version, out>>
    PROVE  WireInv'
  BY DEF WireInv, WireTyped, CallsTyped, IdsMade, AnswersServe, VersionsKnown, NoReadStraddles, Serves

\* What the steps need of the invariant.
LEMMA Known ==
    ASSUME IInv
    PROVE  /\ nextId \in Ids /\ learned \in Nat /\ version \in Nat /\ learned <= version
           /\ IsFiniteSet(pending) /\ Len(runs) \in Nat
           /\ \A p \in pending : p.run # NoRun => p.run \in 1..Len(runs)
           /\ PollsAlone
  BY LenProperties
     DEF IInv, WireInv, IdsMade, VersionsKnown, RunsInv, RunsTyped, CallsKnown, PollsAlone

\* A run sends its first lanes' requests, or settles at once.
LEMMA StartRunStep ==
    ASSUME IInv, StartRun
    PROVE  IInv'
<1>1. PICK n \in 0..MaxItems :
          LET first == IF exited THEN {} ELSE 1..Min({n, Width(n)})
          IN  /\ runs' = Append(runs,
                     [n |-> n,
                      next |-> Width(n) + 1,
                      lanes |-> Cardinality(first),
                      outcome |-> IF n = 0 THEN "resolved" ELSE IF exited THEN "rejected" ELSE "running",
                      results |-> [i \in 1..n |-> Unread]])
              /\ IF first = {} THEN UNCHANGED <<pending, nextId, pipe>>
                 ELSE Sends(pending, CallsFor(Len(runs) + 1, first))
  BY DEF StartRun
<1>2. UNCHANGED <<exited, learned, inFlight, version, out>> /\ Running = {}
  BY DEF StartRun
<1>3. n \in Nat /\ n <= MaxItems
  BY WorkerAssumption
<1> DEFINE outcome == IF n = 0 THEN "resolved" ELSE IF exited THEN "rejected" ELSE "running"
<1>4. outcome \in {"running", "resolved", "rejected"} /\ (outcome = "resolved" => n = 0)
  OBVIOUS
<1>5. PICK w \in Nat \ {0}, m \in Nat :
         w = Width(n) /\ m = Min({n, w}) /\ m <= n /\ m <= w /\ (m = n \/ m = w)
  BY <1>3, FirstLanes
<1>6. w + 1 \in Ids
  BY DEF Ids
<1>7. CASE exited \/ n = 0
  <2> DEFINE first == IF exited THEN {} ELSE 1..m
  <2>1. first = {} /\ outcome # "running"
    BY <1>5, <1>7
  <2>2. Cardinality(first) = 0 /\ IsFiniteSet(first)
    BY <2>1, FS_EmptySet
  <2> HIDE DEF outcome
  <2>3. /\ runs' = Append(runs, [n |-> n, next |-> w + 1, lanes |-> 0, outcome |-> outcome,
                                 results |-> [i \in 1..n |-> Unread]])
        /\ UNCHANGED <<pending, nextId, pipe>>
    BY <1>1, <1>5, <2>1, <2>2 DEF outcome
  <2>4. WireInv'
    BY <1>2, <2>3, WireFrame DEF IInv
  <2>5. RunsInv'
    <3>1. pending' = pending \cup {} /\ IsFiniteSet({}) /\ Cardinality({}) = 0
      BY <2>3, FS_EmptySet
    <3>2. RunsInv /\ w + 1 \in Ids /\ 0 \in Nat
      BY <1>6 DEF IInv
    <3>3. \A c \in {} : c.run = Len(runs) + 1 /\ c.item \in 1..n
      OBVIOUS
    <3>4. outcome = "running" => \A i \in 1..n : i >= w + 1 \/ \E c \in {} : c.item = i
      BY <2>1
    <3>5. 0 <= Width(n) /\ n <= MaxItems /\ Running = {}
      BY <1>2, <1>3, <1>5
    <3> QED
      BY <1>3, <1>4, <2>3, <3>1, <3>2, <3>3, <3>4, <3>5, Started
  <2> QED
    BY <2>4, <2>5 DEF IInv
<1>8. CASE ~exited /\ n # 0
  <2>1. PICK r \in Nat : r = Len(runs) + 1
    BY Known
  <2> DEFINE C == CallsFor(r, 1..m)
  <2>2. m \in Nat /\ 1 <= m
    BY <1>5, <1>8
  <2>3. /\ NewCalls(C) /\ Cardinality(C) = m
        /\ \A c \in C : c.run = r /\ c.item \in 1..m
        /\ \A i \in 1..m : \E c \in C : c.item = i
    <3>1. m - 1 + 1 = m /\ 1 \in Nat /\ m <= MaxItems
      BY <1>3, <1>5, <2>2, WorkerAssumption
    <3>2. nextId \in Ids /\ learned \in Nat
      BY Known
    <3>4. /\ NewCalls(C)
          /\ Cardinality(C) = m
          /\ \A c \in C : c.run = r /\ c.item \in 1..m
          /\ \A i \in 1..m : \E c \in C : c.item = i
      BY <2>2, <3>1, <3>2, NewFirst
    <3> QED
      BY <3>1, <3>4
  <2>4. Cardinality(1..m) = m /\ 1..m # {}
    <3>1. Cardinality(1..m) = IF 1 > m THEN 0 ELSE m - 1 + 1
      BY <2>2, FS_Interval
    <3>2. 1 \in 1..m
      BY <2>2
    <3> QED
      BY <2>2, <3>1, <3>2
  <2> HIDE DEF outcome
  <2>5. /\ runs' = Append(runs, [n |-> n, next |-> w + 1, lanes |-> m, outcome |-> outcome,
                                 results |-> [i \in 1..n |-> Unread]])
        /\ Sends(pending, C)
    BY <1>1, <1>5, <1>8, <2>1, <2>4 DEF outcome
  <2> HIDE DEF C
  <2>6. pending' = pending \cup C
    BY <2>5 DEF Sends
  <2>7. WireInv'
    <3>1. ClientStep(pending, C)
      BY <1>2, <2>3, <2>5, Known DEF ClientStep
    <3>2. PollsAlone'
      BY <1>2, <2>1, <2>3, <2>6, Known DEF PollsAlone, NoRun
    <3> QED
      BY <3>1, <3>2, WireStep DEF IInv
  <2>8. RunsInv'
    <3>1. IsFiniteSet(C)
      BY <2>3 DEF NewCalls
    <3>2. ASSUME NEW c \in C PROVE c.run = Len(runs) + 1 /\ c.item \in 1..n
      <4>1. c.run = r /\ c.item \in 1..m
        BY <2>3
      <4> QED
        BY <1>3, <1>5, <2>1, <4>1
    <3>3. \A i \in 1..n : i >= w + 1 \/ \E c \in C : c.item = i
      BY <1>5, <2>3
    <3> QED
      BY <1>2, <1>3, <1>4, <1>5, <1>6, <2>3, <2>5, <2>6, <3>1, <3>2, <3>3, Started DEF IInv
  <2> QED
    BY <2>7, <2>8 DEF IInv
<1> QED
  BY <1>7, <1>8

\* A poll is one more request, with the version learned so far.
LEMMA PollStep ==
    ASSUME IInv, Poll
    PROVE  IInv'
<1> DEFINE c == [id |-> nextId, run |-> NoRun, item |-> Changes, asked |-> learned]
<1>1. /\ Sends(pending, {c})
      /\ \A p \in pending : p.run # NoRun
      /\ UNCHANGED <<learned, inFlight, version, out, runs>>
  BY DEF Poll
<1>2. /\ c.id = nextId /\ c.asked = learned /\ c.item \in 0..MaxItems /\ c.run = NoRun
      /\ c \in Call
  BY WorkerAssumption, Known DEF Changes, NoRun, Call
<1> HIDE DEF c
<1>3. NewCalls({c}) /\ pending' = pending \cup {c}
  BY <1>1, <1>2, Known, NewOne DEF Sends
<1>4. ClientStep(pending, {c})
  BY <1>1, <1>3, Known DEF ClientStep
<1>5. PollsAlone'
  BY <1>1, <1>2, <1>3 DEF PollsAlone
<1>6. WireInv'
  BY <1>4, <1>5, WireStep DEF IInv
<1>7. RunsInv'
  <2>1. IsFiniteSet(pending')
    BY <1>3, Known, FS_AddElement
  <2> QED
    BY <1>1, <1>2, <1>3, <2>1, RunsFrame DEF IInv
<1> QED
  BY <1>6, <1>7 DEF IInv

\* A step that makes no call.
LEMMA SendsNone ==
    ASSUME IInv, NEW kept, pending' = kept, UNCHANGED <<nextId, pipe>>
    PROVE  NewCalls({}) /\ Sends(kept, {})
<1>1. NewCalls({}) /\ Cardinality({}) = 0
  BY Known, NewNone
<1>2. Lines({}) = <<>> /\ pipe \o <<>> = pipe
  BY <1>1, ConcatEmptySeq DEF Lines, IInv, WireInv, WireTyped
<1>3. nextId + 0 = nextId
  BY Known DEF Ids
<1> QED
  BY <1>1, <1>2, <1>3 DEF Sends

\* Calls given up and nothing sent: an answer that says so, a timeout.
LEMMA GivenUp ==
    ASSUME IInv, NEW call \in pending, pending' = pending \ {call},
           LanesThrow({call} \ {c \in pending : c.run = NoRun}),
           UNCHANGED <<nextId, learned, pipe, inFlight, version>>,
           out' = out \/ (out # <<>> /\ out' = Tail(out))
    PROVE  IInv'
<1>1. ClientStep(pending \ {call}, {})
  <2>1. NewCalls({}) /\ Cardinality({}) = 0
    BY Known, NewNone
  <2>2. Sends(pending \ {call}, {})
    BY SendsNone
  <2> QED
    BY <2>1, <2>2, Known DEF ClientStep
<1>2. PollsAlone'
  BY Known DEF PollsAlone
<1>3. RunsInv'
  <2>1. {call} \ {c \in pending : c.run = NoRun} = {c \in {call} : c.run # NoRun}
    OBVIOUS
  <2>2. LanesThrow({c \in {call} : c.run # NoRun})
    BY <2>1
  <2> QED
    BY <2>2, Thrown DEF IInv
<1> QED
  BY <1>1, <1>2, <1>3, WireStep DEF IInv

\* The answer a line carries is one for the call it is taken by.
LEMMA Answered ==
    ASSUME IInv, out # <<>>
    PROVE  /\ Head(out).id \in Ids /\ Head(out).item \in Nat /\ Head(out).version \in Nat
           /\ Head(out).version <= version
           /\ \A p \in pending : p.id = Head(out).id =>
                 /\ p.item = Head(out).item /\ p.asked \in Nat
                 /\ p.asked <= Head(out).version
<1>1. out \in Seq(Answer) /\ Len(out) \in Nat
  BY LenProperties DEF IInv, WireInv, WireTyped
<1>2. Head(out) = out[1] /\ 1 \in 1..Len(out)
  BY <1>1
<1>3. out[1] \in Answer
  BY <1>1, <1>2, ElementOfSeq
<1>4. /\ out[1].version <= version
      /\ \A p \in pending : Serves(out[1], p) /\ p.asked \in Nat
  BY <1>2 DEF IInv, WireInv, AnswersServe, VersionsKnown
<1> QED
  BY <1>2, <1>3, <1>4 DEF Answer, Serves

\* An answer settles the call it serves, and the lane takes its next item or the run ends.
LEMMA AnswerArrivesStep ==
    ASSUME IInv, AnswerArrives
    PROVE  IInv'
<1>1. /\ out # <<>> /\ out' = Tail(out)
      /\ UNCHANGED <<inFlight, version>>
  BY DEF AnswerArrives
<1>2. CASE UNCHANGED <<pending, nextId, learned, pipe, runs>>
  <2>1. WireInv'
    <3>1. ClientStep(pending, {})
      BY <1>1, <1>2, Known, SendsNone DEF ClientStep
    <3>2. PollsAlone'
      BY <1>2, Known DEF PollsAlone
    <3> QED
      BY <3>1, <3>2, WireStep DEF IInv
  <2>2. RunsInv'
    BY <1>2, Known, RunsFrame DEF IInv
  <2> QED
    BY <2>1, <2>2 DEF IInv
<1>3. ASSUME NEW call \in Awaiting(Head(out).id), ~Head(out).ok,
             pending' = pending \ {call},
             LanesThrow({call} \ {c \in pending : c.run = NoRun}),
             UNCHANGED <<nextId, learned, pipe>>
      PROVE  IInv'
  <2>1. call \in pending
    BY DEF Awaiting
  <2> QED
    BY <1>1, <1>3, <2>1, GivenUp
<1>4. ASSUME NEW call \in Awaiting(Head(out).id), call.run = NoRun,
             pending' = pending \ {call},
             learned' = Head(out).version,
             UNCHANGED <<nextId, pipe, runs>>
      PROVE  IInv'
  <2>1. call \in pending /\ call.id = Head(out).id
    BY DEF Awaiting
  <2>2. call.asked = learned /\ \A q \in pending : q.run = NoRun => q = call
    BY <1>4, <2>1, Known DEF PollsAlone
  <2>3. learned' \in Nat /\ learned <= learned' /\ learned' <= version
    BY <1>1, <1>4, <2>1, <2>2, Answered
  <2>4. ClientStep(pending \ {call}, {})
    BY <1>1, <1>4, <2>3, SendsNone DEF ClientStep
  <2>5. PollsAlone'
    BY <1>4, <2>2 DEF PollsAlone
  <2>6. RunsInv'
    <3>1. IsFiniteSet(pending')
      BY <1>4, Known, FS_RemoveElement
    <3> QED
      BY <1>4, <3>1, RunsFrame DEF IInv
  <2> QED
    BY <2>4, <2>5, <2>6, WireStep DEF IInv
<1>5. ASSUME NEW call \in Awaiting(Head(out).id), call.run # NoRun,
             LaneContinues(call, [item |-> Head(out).item, asked |-> call.asked,
                                  version |-> Head(out).version]),
             UNCHANGED learned
      PROVE  IInv'
  <2> DEFINE result == [item |-> Head(out).item, asked |-> call.asked,
                        version |-> Head(out).version]
             r == call.run
             C == IF runs[r].next <= runs[r].n THEN CallsFor(r, {runs[r].next}) ELSE {}
  <2>1. call \in pending /\ call.id = Head(out).id
    BY DEF Awaiting
  <2>2. /\ result \in Result /\ result.item = call.item
        /\ result.asked <= result.version
    BY <1>1, <2>1, Answered DEF Result
  <2>3. RunsInv'
    <3> HIDE DEF result
    <3>1. LaneContinues(call, result)
      BY <1>5 DEF result
    <3>2. RunsInv /\ IdsMade /\ learned \in Nat
      BY Known DEF IInv, WireInv
    <3> QED
      BY <1>5, <2>1, <2>2, <3>1, <3>2, Continued
  <2>4. Sends(pending \ {call}, C)
    BY <1>5 DEF LaneContinues
  <2>5. r \in 1..Len(runs) /\ runs[r].next \in Nat /\ runs[r].n \in Nat
    <3>1. r \in 1..Len(runs) /\ runs \in Seq(Run)
      BY <1>5, <2>1 DEF IInv, RunsInv, RunsTyped, CallsKnown
    <3>2. runs[r] \in Run
      <4> HIDE DEF r
      <4> QED
        BY <3>1, ElementOfSeq
    <3> QED
      BY <3>1, <3>2 DEF Run, Ids
  <2>6. NewCalls(C) /\ \A c \in C : c.run = r
    <3>1. PICK k \in Nat : k = runs[r].next
      BY <2>5
    <3>2. {k} = k..k /\ k <= k
      OBVIOUS
    <3>3. NewCalls({}) /\ nextId \in Ids /\ learned \in Nat /\ r \in Nat
      BY <2>5, Known, NewNone
    <3>4. ASSUME runs[r].next <= runs[r].n
          PROVE  NewCalls(CallsFor(r, k..k)) /\ \A c \in CallsFor(r, k..k) : c.run = r
      <4>2. k <= MaxItems
        <5>1. runs[r].n <= MaxItems /\ runs[r].n \in Nat
          BY <2>5 DEF IInv, RunsInv, LanesCounted
        <5> QED
          BY <3>1, <3>4, <5>1, WorkerAssumption
      <4> HIDE DEF r
      <4>1. /\ NewCalls(CallsFor(r, k..k))
            /\ Cardinality(CallsFor(r, k..k)) = k - k + 1
            /\ \A c \in CallsFor(r, k..k) : c.run = r /\ c.item \in k..k
        BY <3>2, <3>3, <4>2, NewRange
      <4> QED
        BY <4>1
    <3> QED
      BY <3>1, <3>2, <3>3, <3>4
  <2> HIDE DEF C
  <2>7. ClientStep(pending \ {call}, C)
    BY <1>1, <1>5, <2>4, <2>6, Known DEF ClientStep
  <2>8. PollsAlone'
    BY <1>5, <2>4, <2>6, Known DEF PollsAlone, Sends
  <2> QED
    BY <2>3, <2>7, <2>8, WireStep DEF IInv
<1> QED
  BY <1>2, <1>3, <1>4, <1>5 DEF AnswerArrives

\* A call given up takes its run's lane with it, and the answer will serve nobody.
LEMMA TimesOutStep ==
    ASSUME IInv, TimesOut
    PROVE  IInv'
<1>1. PICK call \in pending :
         /\ pending' = pending \ {call}
         /\ LanesThrow({call} \ {c \in pending : c.run = NoRun})
  BY DEF TimesOut
<1>2. UNCHANGED <<nextId, learned, pipe, inFlight, version, out>>
  BY DEF TimesOut, workerVars
<1> QED
  BY <1>1, <1>2, GivenUp

\* The process takes its queue with it, and every call pending is thrown to.
LEMMA ExitStep ==
    ASSUME IInv, Exit
    PROVE  IInv'
<1>1. /\ pending' = {} /\ LanesThrow({p \in pending : p.run # NoRun})
      /\ pipe' = <<>> /\ inFlight' = {} /\ out' = <<>>
      /\ UNCHANGED <<nextId, learned, version>>
  BY DEF Exit
<1>2. WireInv'
  <2>1. /\ pipe' \in Seq(Request) /\ Len(pipe') = 0
        /\ out' \in Seq(Answer) /\ Len(out') = 0
    BY <1>1
  <2>2. WireTyped' /\ CallsTyped' /\ IdsMade' /\ AnswersServe' /\ NoReadStraddles'
    BY <1>1, <2>1, Known
       DEF IInv, WireInv, WireTyped, CallsTyped, IdsMade, AnswersServe, NoReadStraddles
  <2>3. VersionsKnown'
    BY <1>1, <2>1, Known DEF VersionsKnown
  <2> QED
    BY <2>2, <2>3 DEF WireInv
<1>3. RunsInv'
  <2>1. pending \in SUBSET pending /\ pending' = pending \ pending
    BY <1>1
  <2> QED
    BY <1>1, <2>1, Thrown DEF IInv
<1> QED
  BY <1>2, <1>3 DEF IInv

\* Nothing is asked and no run has begun.
LEMMA InitInv == Init => IInv
<1> SUFFICES ASSUME Init PROVE IInv
  OBVIOUS
<1>1. /\ nextId = 1 /\ pending = {} /\ learned = 1 /\ version = 1
      /\ pipe = <<>> /\ inFlight = {} /\ out = <<>> /\ runs = <<>>
  BY DEF Init
<1>2. WireInv
  BY <1>1, WorkerAssumption
     DEF WireInv, WireTyped, CallsTyped, IdsMade, AnswersServe, VersionsKnown, NoReadStraddles, Ids
<1>3. RunsInv
  BY <1>1, FS_EmptySet
     DEF RunsInv, RunsTyped, CallsKnown, LanesCounted, OneRuns, LanesAwait, ResultsAreRight,
         ReadsFollowTheChanges
<1> QED
  BY <1>2, <1>3 DEF IInv

\* Every step keeps the invariant.
LEMMA NextInv == IInv /\ [Next]_vars => IInv'
<1> SUFFICES ASSUME IInv, [Next]_vars PROVE IInv'
  OBVIOUS
<1>1. CASE Client
  BY <1>1, StartRunStep, PollStep, AnswerArrivesStep, TimesOutStep, ExitStep DEF Client
<1>2. CASE Worker
  <2>1. UNCHANGED <<pending, runs>>
    BY <1>2 DEF Worker, StartRead, EndRead, AnswerChanges, clientVars
  <2> QED
    BY <1>2, <2>1, WorkerWire, Known, RunsFrame DEF IInv
<1>3. CASE UNCHANGED vars
  <2>1. UNCHANGED <<nextId, pending, learned, pipe, inFlight, version, out, runs>>
    BY <1>3 DEF vars, clientVars, workerVars
  <2> QED
    BY <2>1, WireFrame, Known, RunsFrame DEF IInv
<1> QED
  BY <1>1, <1>2, <1>3 DEF Next

-----------------------------------------------------------------------------

\* The inductive invariant: the ids tie every read and every answer to the call it is for, and
\* every lane of a run that goes on awaits a call.
THEOREM SpecInv == Spec => []IInv
  BY InitInv, NextInv, PTL DEF Spec

\* What is counted, by whom and up to where.
Counts == exited \in BOOLEAN /\ polls \in 0..MaxPolls /\ faults \in 0..MaxFaults

\* Calls, requests, reads, answers and lanes are well typed: every id awaited is of one call,
\* every lane awaits one, and one run goes on at a time.
THEOREM SpecTypeOK == Spec => []TypeOK
<1>0. MaxPolls \in Nat /\ MaxFaults \in Nat
  BY WorkerAssumption
<1>1. Init => Counts
  <2>1. Init => exited = FALSE /\ polls = 0 /\ faults = 0
    BY DEF Init
  <2>2. polls = 0 /\ faults = 0 => polls \in 0..MaxPolls /\ faults \in 0..MaxFaults
    BY <1>0
  <2> QED
    BY <2>1, <2>2, Zenon DEF Counts
<1>2. Counts /\ [Next]_vars => Counts'
  <2> SUFFICES ASSUME Counts, [Next]_vars PROVE Counts'
    OBVIOUS
  <2>1. exited' \in {exited, TRUE}
    BY DEF Next, Client, Worker, StartRun, Poll, AnswerArrives, TimesOut, Exit, StartRead,
           EndRead, AnswerChanges, clientVars, vars
  <2>2. faults' = faults \/ (faults < MaxFaults /\ faults' = faults + 1)
    BY DEF Next, Client, Worker, StartRun, Poll, AnswerArrives, TimesOut, Exit, StartRead,
           EndRead, AnswerChanges, Fault, vars
  <2>3. polls' = polls \/ (polls < MaxPolls /\ polls' = polls + 1)
    BY DEF Next, Client, Worker, StartRun, Poll, AnswerArrives, TimesOut, Exit, StartRead,
           EndRead, AnswerChanges, vars
  <2>4. faults' \in 0..MaxFaults /\ polls' \in 0..MaxPolls
    BY <1>0, <2>2, <2>3 DEF Counts
  <2>5. exited' \in BOOLEAN
    BY <2>1, Zenon DEF Counts
  <2> QED
    BY <2>4, <2>5 DEF Counts
<1>3. IInv /\ Counts => TypeOK
  <2> SUFFICES ASSUME IInv, Counts PROVE TypeOK
    OBVIOUS
  <2>1. /\ pending \subseteq Call /\ \A p, q \in pending : p.id = q.id => p = q
        /\ nextId \in Ids /\ learned \in 1..MaxVersion /\ version \in 1..MaxVersion
    BY WorkerAssumption DEF IInv, WireInv, CallsTyped, IdsMade, VersionsKnown
  <2>2. /\ pipe \in Seq([id : Ids, item : Nat])
        /\ out \in Seq([id : Ids, ok : BOOLEAN, item : Nat, version : Nat])
        /\ inFlight \subseteq [id : Ids, item : 1..MaxItems, version : 1..MaxVersion]
    <3>1. Request \subseteq [id : Ids, item : Nat]
      BY DEF Request
    <3>2. pipe \in Seq([id : Ids, item : Nat])
      BY <3>1, SeqMonotonic DEF IInv, WireInv, WireTyped
    <3> QED
      BY <3>2 DEF IInv, WireInv, WireTyped, Answer
  <2>3. Cardinality(Running) <= 1
    <3>1. CASE Running = {}
      BY <3>1, FS_EmptySet
    <3>2. CASE Running # {}
      <4>1. PICK r \in Running : TRUE
        BY <3>2
      <4>2. Running = {r}
        BY <4>1 DEF Running, IInv, RunsInv, OneRuns
      <4> QED
        BY <4>2, FS_Singleton
    <3> QED
      BY <3>1, <3>2
  <2>4. ASSUME NEW r \in 1..Len(runs)
        PROVE  /\ runs[r].lanes \in 0..Width(runs[r].n)
               /\ runs[r].lanes = Cardinality({p \in pending : p.run = r})
    <3>1. /\ runs[r].lanes = Cardinality(CallsOf(r)) /\ runs[r].lanes <= Width(runs[r].n)
          /\ IsFiniteSet(pending)
      BY DEF IInv, RunsInv, LanesCounted, CallsKnown
    <3>2. Cardinality(CallsOf(r)) \in Nat
      BY <3>1, FS_Subset, FS_CardinalityType DEF CallsOf
    <3>3. runs[r].n \in Nat
      <4>1. runs[r] \in Run
        BY ElementOfSeq DEF IInv, RunsInv, RunsTyped
      <4> QED
        BY <4>1 DEF Run
    <3>4. Width(runs[r].n) \in Nat
      BY <3>3, FirstLanes
    <3> QED
      BY <3>1, <3>2, <3>4 DEF CallsOf
  <2> QED
    BY <2>1, <2>2, <2>3, <2>4 DEF TypeOK, Counts
<1> QED
  BY <1>1, <1>2, <1>3, SpecInv, PTL DEF Spec

\* "no read ever straddles two versions": the reader thread answers get_changes only when no
\* read is under way, and starts none before it has.
THEOREM SpecNoReadStraddles == Spec => []NoReadStraddles
<1>1. IInv => NoReadStraddles
  BY DEF IInv, WireInv
<1> QED
  BY <1>1, SpecInv, PTL

\* "Results come back in INPUT order whatever order the requests completed in", and a run that
\* resolved has all of them: timeouts, late answers, exits and retries included.
THEOREM SpecResultsAreRight == Spec => []ResultsAreRight
<1>1. IInv => ResultsAreRight
  BY DEF IInv, RunsInv
<1> QED
  BY <1>1, SpecInv, PTL

\* A read asked for after a get_changes was answered is not older than that answer.
THEOREM SpecReadsFollowTheChanges == Spec => []ReadsFollowTheChanges
<1>1. IInv => ReadsFollowTheChanges
  BY DEF IInv, RunsInv
<1> QED
  BY <1>1, SpecInv, PTL

=============================================================================
