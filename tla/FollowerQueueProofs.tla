-------------------------- MODULE FollowerQueueProofs --------------------------
(***************************************************************************)
(* Proofs about the two components the daemon's changes pass through on    *)
(* their way to the model, the version-keyed journal and the work queue.   *)
(* They share no state and no name; either half can be read by itself.     *)
(*                                                                         *)
(* The follower, for every set of functions, call graph and check-ins and  *)
(* any number of versions and faults: type correctness, and what each of   *)
(* its five invariants says of positions, batches and the last answer.     *)
(* NothingSkipped, OtherChangesStop and CallersReread assume that no step  *)
(* has more events than the page the stream asks for (StepsFit): what is   *)
(* beyond the page, the event that stops the loop included, is lost.       *)
(*                                                                         *)
(* The queue, for every set of tasks and every kind: type correctness,     *)
(* mutual exclusion, the absence of stranded entries and of work that      *)
(* waits through a block, and submission order.                            *)
(***************************************************************************)
EXTENDS VersionFollower, WorkQueue, FiniteSetTheorems, SequenceTheorems, WellFoundedInduction, TLAPS

-----------------------------------------------------------------------------
(* Sets of numbers put in order.                                             *)

\* The later of two positions.
LEMMA MaxOfTwo ==
    ASSUME NEW a \in Int, NEW b \in Int
    PROVE  Max({a, b}) = IF a >= b THEN a ELSE b
<1>1. (IF a >= b THEN a ELSE b) \in {a, b}
      /\ \A y \in {a, b} : (IF a >= b THEN a ELSE b) >= y
  OBVIOUS
<1>2. \A x \in {a, b} : (\A y \in {a, b} : x >= y) => x = IF a >= b THEN a ELSE b
  OBVIOUS
<1> QED
  BY <1>1, <1>2 DEF Max

\* The smaller of two numbers.
LEMMA MinOfTwo ==
    ASSUME NEW a \in Int, NEW b \in Int
    PROVE  Min({a, b}) = IF a <= b THEN a ELSE b
<1>1. (IF a <= b THEN a ELSE b) \in {a, b}
      /\ \A y \in {a, b} : (IF a <= b THEN a ELSE b) <= y
  OBVIOUS
<1>2. \A x \in {a, b} : (\A y \in {a, b} : x <= y) => x = IF a <= b THEN a ELSE b
  OBVIOUS
<1> QED
  BY <1>1, <1>2 DEF Min

\* A set of numbers that is not empty has a least one.
LEMMA Least ==
    ASSUME NEW T \in SUBSET Nat, T # {}
    PROVE  \E x \in T : \A y \in T : x <= y
<1> DEFINE R == OpToRel(<, Nat)
<1>1. IsWellFoundedOn(R, Nat)
  BY NatLessThanWellFounded
<1>2. \E x \in T : \A y \in T : ~ (<<y, x>> \in R)
  <2> HIDE DEF R
  <2> QED
    BY <1>1, WFMin
<1>3. PICK x \in T : \A y \in T : ~ (<<y, x>> \in R)
  BY <1>2
<1>4. \A y \in T : ~ (y < x)
  BY <1>3 DEF OpToRel
<1> QED
  BY <1>4

Ascending(s, n) == \A i, j \in 1..n : i < j => s[i] < s[j]

Ordered(fs) == \E s \in [1..Cardinality(fs) -> fs] : Ascending(s, Cardinality(fs))

\* Every finite set of numbers can be put in order.
LEMMA CanBeOrdered ==
    ASSUME NEW fs \in SUBSET Nat, IsFiniteSet(fs)
    PROVE  Ordered(fs)
<1> DEFINE Failing(n) == {S \in SUBSET Nat : IsFiniteSet(S) /\ Cardinality(S) = n /\ ~Ordered(S)}
           T == {n \in Nat : Failing(n) # {}}
<1>1. SUFFICES ASSUME T # {} PROVE FALSE
  <2>1. Cardinality(fs) \in Nat
    BY FS_CardinalityType
  <2> QED
    BY <2>1
<1>2. PICK n \in T : \A m \in T : n <= m
  <2>1. T \subseteq Nat
    OBVIOUS
  <2> HIDE DEF T
  <2> QED
    BY <1>1, <2>1, Least
<1>3. PICK S \in Failing(n) : TRUE
  BY <1>2
<1>4. n \in Nat /\ S \subseteq Nat /\ IsFiniteSet(S) /\ Cardinality(S) = n /\ ~Ordered(S)
  BY <1>2, <1>3
<1>5. S # {}
  <2> SUFFICES ASSUME S = {} PROVE FALSE
    OBVIOUS
  <2>1. n = 0
    BY <1>4, FS_EmptySet
  <2>2. [i \in 1..0 |-> i] \in [1..0 -> S] /\ Ascending([i \in 1..0 |-> i], 0)
    BY DEF Ascending
  <2> QED
    BY <1>4, <2>1, <2>2 DEF Ordered
<1>6. PICK m \in S : \A x \in S : m <= x
  BY <1>4, <1>5, Least
<1> DEFINE rest == S \ {m}
<1>7. IsFiniteSet(rest) /\ Cardinality(rest) = n - 1 /\ rest \subseteq Nat
  BY <1>4, <1>6, FS_RemoveElement
<1>8. n - 1 \in Nat /\ n # 0
  BY <1>4, <1>5, FS_EmptySet
<1>9. Ordered(rest)
  <2>1. n - 1 \notin T
    BY <1>2, <1>8
  <2>2. rest \notin Failing(n - 1)
    BY <1>8, <2>1
  <2> QED
    BY <1>7, <2>2
<1>10. PICK s \in [1..(n - 1) -> rest] : Ascending(s, n - 1)
  BY <1>7, <1>9 DEF Ordered
<1> DEFINE t == [i \in 1..n |-> IF i = 1 THEN m ELSE s[i - 1]]
<1>11. \A i \in 1..n : i # 1 => i - 1 \in 1..(n - 1) /\ s[i - 1] \in rest
  BY <1>8, <1>10
<1>12. t \in [1..n -> S]
  BY <1>6, <1>11
<1>13. Ascending(t, n)
  <2> SUFFICES ASSUME NEW i \in 1..n, NEW j \in 1..n, i < j PROVE t[i] < t[j]
    BY DEF Ascending
  <2>1. j # 1 /\ t[j] = s[j - 1] /\ s[j - 1] \in rest /\ j - 1 \in 1..(n - 1)
    BY <1>11
  <2>2. CASE i = 1
    <3>1. t[i] = m /\ m \in Nat
      BY <1>4, <1>6, <2>2
    <3>2. s[j - 1] \in S /\ s[j - 1] # m /\ s[j - 1] \in Nat
      BY <1>4, <2>1
    <3>3. m <= s[j - 1]
      BY <1>6, <3>2
    <3> HIDE DEF t
    <3> QED
      BY <2>1, <3>1, <3>2, <3>3
  <2>3. CASE i # 1
    BY <1>10, <1>11, <2>1, <2>3 DEF Ascending
  <2> QED
    BY <2>2, <2>3
<1> QED
  BY <1>4, <1>12, <1>13 DEF Ordered

\* Putting a set in order gives all of it, each member once.
LEMMA InOrderIs ==
    ASSUME NEW fs \in SUBSET Nat, IsFiniteSet(fs)
    PROVE  /\ Cardinality(fs) \in Nat
           /\ InOrder(fs) \in [1..Cardinality(fs) -> fs]
           /\ \A f \in fs : \E i \in 1..Cardinality(fs) : InOrder(fs)[i] = f
<1> DEFINE n == Cardinality(fs)
           s == InOrder(fs)
<1>1. n \in Nat
  BY FS_CardinalityType
<1>2. s \in [1..n -> fs] /\ Ascending(s, n)
  BY CanBeOrdered DEF Ordered, Ascending, InOrder
<1>3. s \in Injection(1..n, fs)
  <2> SUFFICES ASSUME NEW i \in 1..n, NEW j \in 1..n, s[i] = s[j] PROVE i = j
    BY <1>2 DEF Injection, IsInjective
  <2>1. s[i] \in Nat /\ s[j] \in Nat
    BY <1>2
  <2> QED
    BY <1>1, <1>2, <2>1 DEF Ascending
<1>4. Cardinality(1..n) = n
  BY <1>1, FS_Interval
<1>5. s \in Surjection(1..n, fs)
  <2> HIDE DEF n, s
  <2> QED
    BY <1>3, <1>4, FS_Injection DEF n
<1> QED
  BY <1>1, <1>2, <1>5 DEF Surjection

-----------------------------------------------------------------------------
(* Positions.                                                                *)

\* An event of a step is of the version the step ends at; positions keep their order.
LEMMA Spacing == SeqPerVersion \in Nat /\ SeqPerVersion >= 2
                 /\ MaxEvents \in Nat \ {0} /\ MaxEvents < SeqPerVersion
                 /\ Cardinality(Functions) \in Nat
<1>1. Cardinality(Functions) \in Nat
  BY FollowerAssumption, FS_CardinalityType
<1> QED
  BY <1>1, FollowerAssumption

\* The version of a position is the last whose events begin no later than it.
LEMMA VersionOfIs ==
    ASSUME NEW seq \in Nat
    PROVE  /\ VersionOf(seq) \in Nat
           /\ VersionOf(seq) * SeqPerVersion <= seq
           /\ seq < VersionOf(seq) * SeqPerVersion + SeqPerVersion
<1> DEFINE S == SeqPerVersion
<1>1. S \in Nat /\ S >= 2
  BY Spacing
<1> HIDE DEF S
<1>2. seq \div S \in Nat /\ (seq \div S) * S <= seq /\ seq < (seq \div S) * S + S
  BY <1>1
<1> QED
  BY <1>2 DEF S, VersionOf

\* A position counted from the start of a version, within its spacing, is of that version.
LEMMA VersionOfEvent ==
    ASSUME NEW v \in Nat, NEW i \in Nat, i < SeqPerVersion
    PROVE  /\ v * SeqPerVersion + i \in Nat /\ v * SeqPerVersion \in Nat
           /\ VersionOf(v * SeqPerVersion + i) = v
<1> DEFINE S == SeqPerVersion
<1>1. S \in Nat /\ S >= 2
  BY Spacing
<1> HIDE DEF S
<1>2. (v * S + i) \div S = v /\ v * S \in Nat /\ v * S + i \in Nat
  BY <1>1 DEF S
<1> QED
  BY <1>2 DEF S, VersionOf

\* A later position is of the same or a later version.
LEMMA VersionOfGrows ==
    ASSUME NEW a \in Nat, NEW b \in Nat, a <= b
    PROVE  VersionOf(a) <= VersionOf(b)
<1> DEFINE S == SeqPerVersion
           v == VersionOf(a)
           w == VersionOf(b)
<1>1. S \in Nat /\ S >= 2
  BY Spacing
<1>2. v \in Nat /\ w \in Nat /\ v * S <= a /\ b < w * S + S
  BY VersionOfIs
<1> HIDE DEF S, v, w
<1>3. v * S < (w + 1) * S
  BY <1>1, <1>2
<1>4. v < w + 1
  BY <1>1, <1>2, <1>3
<1> QED
  BY <1>2, <1>4 DEF v, w

-----------------------------------------------------------------------------
(* The events of a step.                                                     *)

\* An event for the whole program, wherever it is among the others.
Stopping(events) == \E i \in 1..Len(events) : events[i].key = Program

Keys == Functions \cup {Program}

Found(moved, touched) == InOrder(touched) \o (IF moved THEN <<Program>> ELSE <<>>)

KeysOf(moved, touched) ==
    IF Len(Found(moved, touched)) > MaxEvents THEN <<Program>> ELSE Found(moved, touched)

\* What translate() names: the functions touched, unless the step stops the consumer.
LEMMA KeysAre ==
    ASSUME NEW touched \in SUBSET Functions, NEW moved \in BOOLEAN,
           NEW keys, keys = KeysOf(moved, touched)
    PROVE  /\ keys \in Seq(Keys)
           /\ Len(keys) \in Nat /\ Len(keys) <= Cardinality(Functions) + 1 /\ Len(keys) <= MaxEvents
           /\ \/ \E i \in 1..Len(keys) : keys[i] = Program
              \/ /\ ~moved
                 /\ \A f \in touched : \E i \in 1..Len(keys) : keys[i] = f
<1> DEFINE n == Cardinality(touched)
           s == InOrder(touched)
           one == <<Program>>
           tail == IF moved THEN one ELSE <<>>
           found == Found(moved, touched)
<1>1. IsFiniteSet(touched) /\ touched \subseteq Nat /\ n <= Cardinality(Functions)
  BY FollowerAssumption, FS_Subset
<1>2. n \in Nat /\ s \in [1..n -> touched] /\ \A f \in touched : \E i \in 1..n : s[i] = f
  BY <1>1, InOrderIs
<1>3. MaxEvents \in Nat /\ MaxEvents >= 1
  BY FollowerAssumption
<1>4. n + 1 <= Cardinality(Functions) + 1 /\ Cardinality(Functions) \in Nat
  BY <1>1, <1>2, Spacing
<1> HIDE DEF n, s
<1>5. s \in Seq(Keys) /\ Len(s) = n
  BY <1>2 DEF Keys
<1>6. one \in Seq(Keys) /\ Len(one) = 1 /\ one[1] = Program
  BY DEF Keys
<1>7. /\ tail \in Seq(Keys) /\ (moved => tail = one) /\ (~moved => tail = <<>>)
      /\ Len(tail) = (IF moved THEN 1 ELSE 0)
  BY <1>6
<1>8. found = s \o tail /\ keys = IF Len(found) > MaxEvents THEN one ELSE found
  BY DEF KeysOf, Found, one, s
<1> HIDE DEF one, found, tail
<1>9. /\ found \in Seq(Keys) /\ Len(found) = n + Len(tail)
      /\ \A i \in 1..n : found[i] = s[i]
      /\ moved => found[n + 1] = Program
  <2>1. /\ s \o tail \in Seq(Keys) /\ Len(s \o tail) = Len(s) + Len(tail)
        /\ \A i \in 1..(Len(s) + Len(tail)) :
              (s \o tail)[i] = IF i <= Len(s) THEN s[i] ELSE tail[i - Len(s)]
    BY <1>5, <1>7, ConcatProperties
  <2>2. Len(tail) \in Nat /\ n + 1 - n = 1 /\ ~ (n + 1 <= n)
    BY <1>2, <1>7
  <2>3. \A i \in 1..n : found[i] = s[i]
    BY <1>2, <1>5, <1>8, <2>1, <2>2
  <2>4. moved => found[n + 1] = Program
    <3> SUFFICES ASSUME moved PROVE found[n + 1] = Program
      OBVIOUS
    <3>1. Len(tail) = 1 /\ tail = one
      BY <1>7
    <3>2. n + 1 \in 1..(n + 1)
      BY <1>2
    <3>3. (s \o tail)[n + 1] = tail[n + 1 - n]
      BY <1>5, <2>1, <2>2, <3>1, <3>2
    <3> QED
      BY <1>6, <1>8, <2>2, <3>1, <3>3
  <2> QED
    BY <1>5, <1>8, <2>1, <2>3, <2>4
<1>10. CASE Len(found) > MaxEvents
  <2>1. keys = one
    BY <1>8, <1>10
  <2>2. keys \in Seq(Keys) /\ Len(keys) = 1 /\ keys[1] = Program
    BY <1>6, <2>1
  <2>3. Len(keys) <= Cardinality(Functions) + 1 /\ Len(keys) <= MaxEvents /\ 1 \in 1..Len(keys)
    BY <1>2, <1>3, <1>4, <2>2
  <2> QED
    BY <2>2, <2>3
<1>11. CASE ~ (Len(found) > MaxEvents)
  <2>1. keys = found
    BY <1>8, <1>11
  <2>2. /\ Len(found) \in Nat /\ Len(found) <= MaxEvents /\ Len(found) <= Cardinality(Functions) + 1
        /\ moved => n + 1 \in 1..Len(found)
        /\ ~moved => Len(found) = n
    BY <1>2, <1>3, <1>4, <1>7, <1>9, <1>11
  <2>3. CASE moved
    BY <1>9, <2>1, <2>2, <2>3
  <2>4. CASE ~moved
    <3>1. \A f \in touched : \E i \in 1..Len(keys) : keys[i] = f
      BY <1>2, <1>9, <2>1, <2>2, <2>4
    <3> QED
      BY <1>9, <2>1, <2>2, <2>4, <3>1
  <2> QED
    BY <2>3, <2>4
<1> QED
  BY <1>10, <1>11

EventsOf(events, to) ==
    /\ events \in Seq(Event)
    /\ Len(events) <= MaxEvents /\ Len(events) <= Cardinality(Functions) + 1
    /\ \A i \in 1..Len(events) :
          events[i].seq = to * SeqPerVersion + i /\ VersionOf(events[i].seq) = to

\* A worker without a last answer keeps no events.
LEMMA NoEvents == EventsOf(<<>>, 0)
<1>1. MaxEvents \in Nat /\ Cardinality(Functions) \in Nat
  BY Spacing, FollowerAssumption
<1>2. <<>> \in Seq(Event) /\ Len(<<>>) = 0
  BY EmptySeq
<1> QED
  BY <1>1, <1>2 DEF EventsOf

\* Callers are unaffected only by what looks to them as before, and events that do not stop the
\* consumer name all that was touched, of two programs with the same layout.
Tell(events, touched, was, now) ==
    /\ \A i \in 1..Len(events) : events[i].callersUnaffected =>
          events[i].key # Program /\ was.signature[events[i].key] = now.signature[events[i].key]
    /\ \/ Stopping(events)
       \/ /\ was.layout = now.layout
          /\ \A f \in touched : \E i \in 1..Len(events) : events[i].key = f

\* What the events of a step say, whatever was compared.
LEMMA TranslateIs ==
    ASSUME NEW touched \in SUBSET Functions, NEW was, NEW now, NEW to \in Nat,
           NEW events, events = Translate(touched, was, now, to)
    PROVE  EventsOf(events, to) /\ Tell(events, touched, was, now)
<1> DEFINE moved == was.layout # now.layout
           keys == KeysOf(moved, touched)
           unaffected(k) == k # Program /\ was.signature[k] = now.signature[k]
<1>1. moved \in BOOLEAN /\ (~moved => was.layout = now.layout)
  OBVIOUS
<1>2. \A k : unaffected(k) \in BOOLEAN
  OBVIOUS
<1>3. events = [i \in 1..Len(keys) |-> [seq |-> to * SeqPerVersion + i, key |-> keys[i],
                                        callersUnaffected |-> unaffected(keys[i])]]
  BY DEF Translate, KeysOf, Found
<1>4. /\ keys \in Seq(Keys)
      /\ Len(keys) \in Nat /\ Len(keys) <= Cardinality(Functions) + 1 /\ Len(keys) <= MaxEvents
      /\ \/ \E i \in 1..Len(keys) : keys[i] = Program
         \/ /\ ~moved
            /\ \A f \in touched : \E i \in 1..Len(keys) : keys[i] = f
  <2> HIDE DEF moved
  <2> QED
    BY <1>1, KeysAre
<1>5. \A k : unaffected(k) => k # Program /\ was.signature[k] = now.signature[k]
  OBVIOUS
<1> HIDE DEF keys, moved, unaffected
<1>6. \A i \in 1..Len(keys) : to * SeqPerVersion + i \in Nat /\ VersionOf(to * SeqPerVersion + i) = to
  <2> TAKE i \in 1..Len(keys)
  <2>1. i \in Nat /\ i < SeqPerVersion
    <3>1. i \in Nat /\ i <= Len(keys)
      BY <1>4
    <3>2. MaxEvents \in Nat /\ MaxEvents < SeqPerVersion /\ SeqPerVersion \in Nat
      BY Spacing
    <3> QED
      BY <1>4, <3>1, <3>2
  <2> QED
    BY <2>1, VersionOfEvent
<1>7. \A i \in 1..Len(keys) : keys[i] \in Keys
  BY <1>4
<1>8. events \in Seq(Event) /\ Len(events) = Len(keys)
  <2>1. \A i \in 1..Len(keys) :
          [seq |-> to * SeqPerVersion + i, key |-> keys[i], callersUnaffected |-> unaffected(keys[i])] \in Event
    BY <1>2, <1>6, <1>7 DEF Event, Keys
  <2> QED
    BY <1>3, <1>4, <2>1
<1>9. \A i \in 1..Len(keys) : /\ events[i].seq = to * SeqPerVersion + i /\ events[i].key = keys[i]
                              /\ events[i].callersUnaffected = unaffected(keys[i])
  BY <1>3
<1>10. \A i \in 1..Len(events) : events[i].callersUnaffected =>
             events[i].key # Program /\ was.signature[events[i].key] = now.signature[events[i].key]
  BY <1>5, <1>8, <1>9
<1>11. \/ Stopping(events)
       \/ /\ was.layout = now.layout
          /\ \A f \in touched : \E i \in 1..Len(events) : events[i].key = f
  <2>1. CASE \E i \in 1..Len(keys) : keys[i] = Program
    BY <1>8, <1>9, <2>1 DEF Stopping
  <2>2. CASE ~moved /\ \A f \in touched : \E i \in 1..Len(keys) : keys[i] = f
    BY <1>1, <1>8, <1>9, <2>2
  <2> QED
    BY <1>4, <2>1, <2>2
<1> QED
  BY <1>4, <1>6, <1>8, <1>9, <1>10, <1>11 DEF EventsOf, Tell

-----------------------------------------------------------------------------
(* The inductive invariant.                                                  *)

Streams == {"starting", "resuming", "idle", "polling", "batch"}

Calling == {"resuming", "polling"}

\* Whatever waits at the worker was asked from the position the stream is still at, only the
\* last request has a caller, and a batch is handed over with no request left.
RequestsKnown ==
    /\ \A i \in 1..Len(inbox) :
          /\ inbox[i].since = appliedSeq /\ inbox[i].limit >= 1
          /\ inbox[i].awaited => /\ i = Len(inbox) /\ stream \in Calling
                                 /\ stream = "polling" => inbox[i].limit = Limit
    /\ stream = "batch" => inbox = <<>>
    /\ SeqPerVersion <= savedSeq /\ savedSeq <= appliedSeq

WorkKnown ==
    /\ work.step = "none" => work = NoWork
    /\ work.step # "none" =>
          inbox # <<>> /\ work.from = VersionOf(appliedSeq) /\ work.to \in Versions

ServerTyped == history \in Seq(CheckIns \cup {Nothing}) /\ Latest \in Versions /\ rolledBack \in BOOLEAN

WorkerTyped ==
    /\ mode \in Modes /\ dead \in BOOLEAN
    /\ openVersion \in Versions /\ program \in Versions /\ file \in Versions
    /\ cachedFrom \in {0} \cup Versions /\ cachedTo \in {0} \cup Versions
    /\ cachedEvents \in Seq(Event)

RequestsTyped == inbox \in Seq(Request) /\ work \in Work

StreamTyped ==
    /\ stream \in Streams
    /\ batch \in Seq(Event) /\ (batch # <<>> <=> stream = "batch")
    /\ appliedSeq \in Nat /\ savedSeq \in Nat
    /\ paused \in BOOLEAN /\ needsResync \in BOOLEAN

ModelTyped ==
    /\ readAt \in [Functions -> Versions] /\ savedReadAt \in [Functions -> Versions]
    /\ spoiled \subseteq {"update", "start", "number", "rollback", "left", "restored"}
    /\ faults \in 0..MaxFaults

Typed == ServerTyped /\ WorkerTyped /\ RequestsTyped /\ StreamTyped /\ ModelTyped

Known == RequestsKnown /\ WorkKnown

\* At most one request has a caller.
LEMMA TypeOKIs == Typed /\ RequestsKnown => TypeOK
<1> SUFFICES ASSUME Typed, RequestsKnown PROVE TypeOK
  OBVIOUS
<1> DEFINE A == {i \in 1..Len(inbox) : inbox[i].awaited}
<1>1. A \subseteq {Len(inbox)}
  BY DEF RequestsKnown
<1>2. Cardinality(A) <= 1
  <2> HIDE DEF A
  <2>1. IsFiniteSet({Len(inbox)}) /\ Cardinality({Len(inbox)}) = 1
    BY FS_Singleton
  <2> QED
    BY <1>1, <2>1, FS_Subset
<1> QED
  BY <1>2 DEF TypeOK, Typed, ServerTyped, WorkerTyped, RequestsTyped, StreamTyped, ModelTyped, Streams

-----------------------------------------------------------------------------
(* What an answer does to the stream.                                        *)

\* Nobody waited for it, or it only proved the resume, or it stopped the stream.
ToldNothing ==
    /\ UNCHANGED <<appliedSeq, batch>>
    /\ stream' \in Streams \ {"batch"}
    /\ inbox' = <<>> \/ stream' = stream
    /\ needsResync => needsResync'

\* A step without events.
ToldPosition(version) ==
    /\ appliedSeq' = Max({appliedSeq, version * SeqPerVersion})
    /\ inbox' = <<>> /\ stream' = "idle" /\ UNCHANGED <<batch, needsResync>>

\* A step with events.
ToldEvents(events) ==
    /\ batch' = events /\ events # <<>>
    /\ inbox' = <<>> /\ stream' = "batch" /\ UNCHANGED <<appliedSeq, needsResync>>
    /\ Head(inbox).limit = Limit

\* The head of a list that is not empty, and the rest of it.
LEMMA HeadAndRest ==
    ASSUME NEW S, NEW q \in Seq(S), q # <<>>
    PROVE  /\ Head(q) = q[1] /\ q[1] \in S /\ 1 \in 1..Len(q)
           /\ Tail(q) \in Seq(S) /\ Len(Tail(q)) = Len(q) - 1 /\ Len(q) \in Nat
           /\ Len(q) = 1 => Tail(q) = <<>>
           /\ \A i \in 1..Len(Tail(q)) : Tail(q)[i] = q[i + 1] /\ i + 1 \in 1..Len(q)
<1>1. /\ Head(q) = q[1] /\ q[1] \in S /\ 1 \in 1..Len(q)
      /\ Tail(q) \in Seq(S) /\ Len(Tail(q)) = Len(q) - 1 /\ Len(q) \in Nat
      /\ \A i \in 1..Len(Tail(q)) : Tail(q)[i] = q[i + 1] /\ i + 1 \in 1..Len(q)
  BY HeadTailProperties
<1>2. Len(q) = 1 => Tail(q) = <<>>
  BY <1>1, EmptySeq
<1> QED
  BY <1>1, <1>2

\* An answer is dropped, proves a resume, stops the stream, moves its position or hands it a
\* batch: the guards of Answers, pollOnce() and verifyResume() leave nothing else.
LEMMA AnswerTells ==
    ASSUME Typed, Known, inbox # <<>>,
           NEW events, NEW head \in Int, NEW version \in Nat, Answers(events, head, version)
    PROVE  /\ inbox' = Tail(inbox) /\ work' = NoWork
           /\ needsResync' \in BOOLEAN /\ paused' \in BOOLEAN
           /\ stream # "batch" /\ batch = <<>>
           /\ \/ ToldNothing
              \/ events = <<>> /\ head >= appliedSeq /\ ToldPosition(version)
              \/ head >= appliedSeq /\ ToldEvents(events)
<1>1. stream # "batch" /\ batch = <<>> /\ stream \in Streams /\ appliedSeq \in Nat
      /\ needsResync \in BOOLEAN /\ paused \in BOOLEAN
  BY DEF Known, RequestsKnown, Typed, StreamTyped
<1>2. inbox' = Tail(inbox) /\ work' = NoWork
  BY DEF Answers
<1>3. Head(inbox) = inbox[1] /\ 1 \in 1..Len(inbox) /\ (Len(inbox) = 1 => Tail(inbox) = <<>>)
  BY HeadAndRest DEF Typed, RequestsTyped
<1>4. CASE ~Head(inbox).awaited
  BY <1>1, <1>2, <1>4 DEF Answers, streamVars, ToldNothing
<1>5. CASE Head(inbox).awaited
  <2>1. inbox' = <<>> /\ stream \in Calling /\ (stream = "polling" => Head(inbox).limit = Limit)
    BY <1>2, <1>3, <1>5 DEF Known, RequestsKnown
  <2>2. CASE stream = "resuming"
    <3>1. ResumeAnswered(head)
      BY <1>5, <2>2 DEF Answers
    <3> QED
      BY <1>1, <1>2, <2>1, <3>1 DEF ResumeAnswered, ToldNothing, Streams
  <2>3. CASE stream # "resuming"
    <3>1. PollAnswered(events, head, version)
      BY <1>5, <2>3 DEF Answers
    <3>2. stream = "polling" /\ Head(inbox).limit = Limit
      BY <2>1, <2>3 DEF Calling
    <3>3. CASE head < appliedSeq
      BY <1>1, <1>2, <2>1, <3>1, <3>3 DEF PollAnswered, ToldNothing, Streams
    <3>4. CASE head >= appliedSeq /\ events = <<>>
      BY <1>1, <1>2, <2>1, <3>1, <3>4 DEF PollAnswered, ToldPosition
    <3>5. CASE head >= appliedSeq /\ events # <<>>
      BY <1>1, <1>2, <2>1, <3>1, <3>2, <3>5 DEF PollAnswered, ToldEvents
    <3> QED
      BY <1>1, <3>3, <3>4, <3>5
  <2> QED
    BY <2>2, <2>3
<1> QED
  BY <1>4, <1>5

-----------------------------------------------------------------------------
(* A page of a step's events.                                                *)

\* What a page holds of the events it is taken from: for a request from before the step,
\* their beginning.
PageOf(page, events, to, since, limit) ==
    /\ page \in Seq(Event) /\ Len(page) \in Nat
    /\ \A i \in 1..Len(page) : VersionOf(page[i].seq) = to
    /\ VersionOf(since) < to =>
          /\ Len(page) = IF limit <= Len(events) THEN limit ELSE Len(events)
          /\ \A i \in 1..Len(page) : page[i] = events[i] /\ i \in 1..Len(events)

\* getChanges() answers with a page of the step's events and with a head of its version.
LEMMA PageAnswers ==
    ASSUME NEW to \in Nat, NEW events, EventsOf(events, to), NEW since \in Nat,
           NEW limit \in Nat, limit >= 1, NEW version, Page(events, to, since, limit, version)
    PROVE  \E page : \E head \in Nat : /\ Answers(page, head, version) /\ VersionOf(head) = to
                                        /\ PageOf(page, events, to, since, limit)
<1> DEFINE n == Len(events)
           before == {i \in 1..n : events[i].seq <= since}
           passed == Cardinality(before)
           end == Min({passed + limit, n})
           page == SubSeq(events, passed + 1, end)
           head == IF events = <<>> THEN to * SeqPerVersion ELSE Last(events).seq
<1>1. n \in Nat /\ events \in Seq(Event) /\ \A i \in 1..n : events[i] \in Event
  BY DEF EventsOf
<1>2. Answers(page, head, version)
  BY DEF Page
<1>3. passed \in Nat /\ passed <= n
  <2>1. before \in SUBSET (1..n)
    OBVIOUS
  <2>2. IsFiniteSet(1..n) /\ Cardinality(1..n) = n
    <3> HIDE DEF n
    <3> QED
      BY <1>1, FS_Interval
  <2> HIDE DEF before, n
  <2>3. IsFiniteSet(before) /\ passed <= n
    BY <2>1, <2>2, FS_Subset
  <2>4. passed \in Nat
    BY <2>3, FS_CardinalityType
  <2> QED
    BY <2>3, <2>4
<1>4. end = IF passed + limit <= n THEN passed + limit ELSE n
  <2> HIDE DEF passed, n
  <2> QED
    BY <1>1, <1>3, MinOfTwo
<1>5. /\ page \in Seq(Event) /\ Len(page) = end - passed /\ Len(page) \in Nat
      /\ \A i \in 1..Len(page) : page[i] = events[passed + i] /\ passed + i \in 1..n
  <2> HIDE DEF passed, n, end
  <2>1. end \in Nat /\ passed <= end /\ end <= n
    BY <1>1, <1>3, <1>4
  <2>2. page \in Seq(Event) /\ Len(page) = end - passed
    BY <1>1, <1>3, <2>1 DEF n
  <2>3. \A i \in 1..(end - passed) : page[i] = events[passed + i]
    BY <1>1, <1>3, <2>1 DEF n
  <2> HIDE DEF page
  <2> QED
    BY <1>1, <1>3, <2>1, <2>2, <2>3
<1>6. to * SeqPerVersion \in Nat /\ VersionOf(to * SeqPerVersion) = to
  <2>1. VersionOf(to * SeqPerVersion + 0) = to /\ to * SeqPerVersion \in Nat
    BY Spacing, VersionOfEvent
  <2> QED
    BY <2>1
<1>7. head \in Nat /\ VersionOf(head) = to
  <2>1. CASE events = <<>>
    BY <1>6, <2>1
  <2>2. CASE events # <<>>
    <3>1. n \in 1..n
      BY <1>1, <2>2, EmptySeq
    <3>2. head = events[n].seq
      BY <2>2 DEF Last
    <3>3. events[n] \in Event /\ VersionOf(events[n].seq) = to
      BY <1>1, <3>1 DEF EventsOf
    <3> QED
      BY <3>2, <3>3 DEF Event
  <2> QED
    BY <2>1, <2>2
<1>8. \A i \in 1..Len(page) : VersionOf(page[i].seq) = to
  <2> HIDE DEF page, passed, n
  <2> QED
    BY <1>5 DEF EventsOf, n
<1>9. VersionOf(since) < to => passed = 0
  <2> SUFFICES ASSUME VersionOf(since) < to PROVE passed = 0
    OBVIOUS
  <2>1. \A i \in 1..n : ~ (events[i].seq <= since)
    <3> SUFFICES ASSUME NEW i \in 1..n, events[i].seq <= since PROVE FALSE
      OBVIOUS
    <3>1. events[i].seq \in Nat /\ VersionOf(events[i].seq) = to
      BY <1>1 DEF EventsOf, Event
    <3>2. to <= VersionOf(since) /\ VersionOf(since) \in Nat
      BY <3>1, VersionOfGrows, VersionOfIs
    <3> QED
      BY <3>2
  <2>2. before = {}
    BY <2>1
  <2> QED
    BY <2>2, FS_EmptySet
<1> HIDE DEF page, head, passed, end
<1>10. VersionOf(since) < to =>
          /\ Len(page) = IF limit <= n THEN limit ELSE n
          /\ \A i \in 1..Len(page) : page[i] = events[i] /\ i \in 1..n
  BY <1>1, <1>4, <1>5, <1>9
<1>11. PageOf(page, events, to, since, limit)
  BY <1>5, <1>8, <1>10 DEF PageOf
<1> QED
  BY <1>2, <1>7, <1>11

\* What an answer with a page of a step's events does.
StepTold(events, to) ==
    \/ ToldNothing
    \/ /\ VersionOf(appliedSeq) <= to
       /\ \/ ToldPosition(to) /\ (VersionOf(appliedSeq) < to => events = <<>>)
          \/ \E page : ToldEvents(page) /\ PageOf(page, events, to, appliedSeq, Limit)

\* The request at the head of the inbox.
LEMMA Asked ==
    ASSUME Typed, Known, inbox # <<>>
    PROVE  /\ Head(inbox).since = appliedSeq /\ Head(inbox).limit \in Nat /\ Head(inbox).limit >= 1
           /\ appliedSeq \in Nat /\ From(Head(inbox).since) = VersionOf(appliedSeq)
           /\ Tail(inbox) \in Seq(Request)
<1>1. /\ Head(inbox) = inbox[1] /\ inbox[1] \in Request /\ 1 \in 1..Len(inbox)
      /\ Tail(inbox) \in Seq(Request)
  BY HeadAndRest DEF Typed, RequestsTyped
<1>2. Head(inbox).since = appliedSeq /\ Head(inbox).limit \in Nat /\ Head(inbox).limit >= 1
  BY <1>1 DEF Known, RequestsKnown, Request
<1>3. appliedSeq \in Nat /\ appliedSeq >= 1
  BY Spacing DEF Typed, StreamTyped, Known, RequestsKnown
<1> QED
  BY <1>1, <1>2, <1>3 DEF From

\* The stream hears of a step only what a page of its events says.
LEMMA StepTells ==
    ASSUME Typed, Known, inbox # <<>>, NEW to \in Nat, NEW events, EventsOf(events, to),
           Page(events, to, Head(inbox).since, Head(inbox).limit, to)
    PROVE  /\ inbox' = Tail(inbox) /\ work' = NoWork
           /\ needsResync' \in BOOLEAN /\ paused' \in BOOLEAN
           /\ stream # "batch" /\ batch = <<>>
           /\ StepTold(events, to)
<1> DEFINE limit == Head(inbox).limit
<1>1. Head(inbox).since = appliedSeq /\ limit \in Nat /\ limit >= 1 /\ appliedSeq \in Nat
  BY Asked
<1> HIDE DEF limit
<1>2. PICK page : \E head \in Nat : /\ Answers(page, head, to) /\ VersionOf(head) = to
                                    /\ PageOf(page, events, to, appliedSeq, limit)
  BY <1>1, PageAnswers DEF limit
<1>3. PICK head \in Nat : /\ Answers(page, head, to) /\ VersionOf(head) = to
                          /\ PageOf(page, events, to, appliedSeq, limit)
  BY <1>2
<1>4. /\ inbox' = Tail(inbox) /\ work' = NoWork
      /\ needsResync' \in BOOLEAN /\ paused' \in BOOLEAN
      /\ stream # "batch" /\ batch = <<>>
      /\ \/ ToldNothing
         \/ page = <<>> /\ head >= appliedSeq /\ ToldPosition(to)
         \/ head >= appliedSeq /\ ToldEvents(page)
  BY <1>3, AnswerTells
<1>5. head >= appliedSeq => VersionOf(appliedSeq) <= to
  BY <1>1, <1>3, VersionOfGrows
<1>6. page = <<>> /\ VersionOf(appliedSeq) < to => events = <<>>
  <2> SUFFICES ASSUME page = <<>>, VersionOf(appliedSeq) < to PROVE events = <<>>
    OBVIOUS
  <2>1. Len(page) = 0 /\ events \in Seq(Event) /\ Len(events) \in Nat
    BY DEF EventsOf
  <2>2. Len(page) = IF limit <= Len(events) THEN limit ELSE Len(events)
    BY <1>3 DEF PageOf
  <2>3. Len(events) = 0
    BY <1>1, <2>1, <2>2
  <2> QED
    BY <2>1, <2>3, EmptySeq
<1>7. ToldEvents(page) => PageOf(page, events, to, appliedSeq, Limit)
  BY <1>3 DEF ToldEvents, limit
<1> QED
  BY <1>4, <1>5, <1>6, <1>7 DEF StepTold

-----------------------------------------------------------------------------
(* The three ways to answer.                                                 *)

\* The last answer kept is of the version the program is at, as long as it can still be given.
CacheKnown ==
    /\ EventsOf(cachedEvents, cachedTo)
    /\ cachedFrom < cachedTo => cachedTo = openVersion /\ VersionOf(appliedSeq) <= openVersion

BatchKnown == stream = "batch" =>
    /\ VersionOf(appliedSeq) <= openVersion
    /\ \A i \in 1..Len(batch) : VersionOf(batch[i].seq) = openVersion

PositionKnown == VersionOf(appliedSeq) <= MaxVersion

Inv == Typed /\ Known /\ PositionKnown /\ CacheKnown /\ BatchKnown

AnswersHead ==
    /\ inbox # <<>> /\ inbox' = Tail(inbox) /\ work' = NoWork
    /\ needsResync' \in BOOLEAN /\ paused' \in BOOLEAN
    /\ stream # "batch" /\ batch = <<>>

\* The three actions that answer, each reduced to what it changes: caught up with the server,
LEMMA CaughtUpStep ==
    ASSUME Inv, AnswerCaughtUp
    PROVE  /\ AnswersHead /\ Latest <= VersionOf(appliedSeq)
           /\ openVersion' = IF openVersion >= Latest THEN openVersion ELSE Latest
           /\ program' = IF openVersion < Latest THEN Latest ELSE program
           /\ file' = IF openVersion < Latest /\ mode = "checkout" THEN Latest ELSE file
           /\ ToldNothing \/ ToldPosition(openVersion')
           /\ UNCHANGED <<serverVars, mode, dead, cacheVars, modelVars, spoiled, faults>>
<1> DEFINE head == IF From(Head(inbox).since) > Latest THEN Latest * SeqPerVersion
                   ELSE Max({Head(inbox).since, Latest * SeqPerVersion})
<1>1. inbox # <<>> /\ From(Head(inbox).since) >= Latest /\ openVersion' = Max({openVersion, Latest})
      /\ Answers(<<>>, head, openVersion')
  BY DEF AnswerCaughtUp
<1>2. Typed /\ Known /\ Latest \in Nat /\ openVersion \in Nat /\ SeqPerVersion \in Nat
  BY Spacing, FollowerAssumption DEF Inv, Typed, ServerTyped, WorkerTyped, Versions
<1>3. From(Head(inbox).since) = VersionOf(appliedSeq) /\ Head(inbox).since = appliedSeq /\ appliedSeq \in Nat
  BY <1>1, <1>2, Asked
<1>4. openVersion' = IF openVersion >= Latest THEN openVersion ELSE Latest
  <2>1. Max({openVersion, Latest}) = IF openVersion >= Latest THEN openVersion ELSE Latest
    BY <1>2, MaxOfTwo
  <2> QED
    BY <1>1, <2>1
<1>5. Latest * SeqPerVersion \in Nat
  BY <1>2
<1>6. head \in Int
  BY <1>3, <1>5, MaxOfTwo
<1>7. openVersion' \in Nat
  BY <1>2, <1>4
<1> HIDE DEF head
<1>8. ~ToldEvents(<<>>)
  BY DEF ToldEvents
<1>9. /\ AnswersHead
      /\ ToldNothing \/ ToldPosition(openVersion')
  BY <1>1, <1>2, <1>6, <1>7, <1>8, AnswerTells DEF AnswersHead
<1> QED
  BY <1>1, <1>3, <1>4, <1>9 DEF AnswerCaughtUp

\* the last answer given once more,
LEMMA CachedStep ==
    ASSUME Inv, AnswerCached
    PROVE  /\ AnswersHead /\ cachedFrom = VersionOf(appliedSeq) /\ cachedFrom < cachedTo
           /\ cachedTo = Latest /\ cachedTo = openVersion
           /\ StepTold(cachedEvents, openVersion)
           /\ UNCHANGED <<serverVars, mode, dead, programVars, cacheVars, modelVars, spoiled, faults>>
<1>1. /\ inbox # <<>> /\ From(Head(inbox).since) < Latest /\ Cached(From(Head(inbox).since))
      /\ Page(cachedEvents, cachedTo, Head(inbox).since, Head(inbox).limit, openVersion)
  BY DEF AnswerCached
<1>2. Typed /\ Known /\ openVersion \in Nat
  BY DEF Inv, Typed, WorkerTyped, Versions
<1>3. cachedFrom = VersionOf(appliedSeq) /\ cachedFrom < cachedTo /\ cachedTo = Latest
  BY <1>1, <1>2, Asked DEF Cached
<1>4. cachedTo = openVersion /\ EventsOf(cachedEvents, openVersion)
  BY <1>3 DEF Inv, CacheKnown
<1>5. AnswersHead /\ StepTold(cachedEvents, openVersion)
  BY <1>1, <1>2, <1>4, StepTells DEF AnswersHead
<1> QED
  BY <1>3, <1>4, <1>5 DEF AnswerCached

\* and a step computed.
LEMMA OpenStep ==
    ASSUME Inv, OpenAndTranslate
    PROVE  /\ AnswersHead /\ work.step = "open" /\ work.to \in Versions /\ work.to <= Latest
           /\ work.touched \subseteq Functions
           /\ openVersion' = work.to /\ program' = NewVersion(work.to)
           /\ file' = IF mode = "checkout" THEN work.to ELSE file
           /\ cachedFrom' = VersionOf(appliedSeq) /\ cachedFrom' = work.from /\ cachedTo' = work.to
           /\ \E was \in Contents(OldVersion(work.from)) :
                 cachedEvents' = Translate(work.touched, was, history[NewVersion(work.to)], work.to)
           /\ EventsOf(cachedEvents', work.to)
           /\ StepTold(cachedEvents', work.to)
           /\ UNCHANGED <<serverVars, mode, dead, modelVars, spoiled, faults>>
<1>7. PICK was \in Contents(OldVersion(work.from)) :
           LET events == Translate(work.touched, was, history[NewVersion(work.to)], work.to)
           IN  /\ cachedEvents' = events
               /\ Page(events, work.to, Head(inbox).since, Head(inbox).limit, work.to)
  BY DEF OpenAndTranslate
<1> DEFINE events == Translate(work.touched, was, history[NewVersion(work.to)], work.to)
<1>1. /\ work.step = "open" /\ (IF mode = "checkout" THEN work.to = Latest ELSE work.to <= Latest)
      /\ Page(events, work.to, Head(inbox).since, Head(inbox).limit, work.to)
      /\ cachedEvents' = events
      /\ openVersion' = work.to /\ program' = NewVersion(work.to)
      /\ file' = IF mode = "checkout" THEN work.to ELSE file
      /\ cachedFrom' = work.from /\ cachedTo' = work.to
      /\ UNCHANGED <<serverVars, mode, dead, modelVars, spoiled, faults>>
  BY <1>7 DEF OpenAndTranslate
<1>2. Typed /\ Known /\ Latest \in Nat /\ work.touched \subseteq Functions
  BY DEF Inv, Typed, ServerTyped, RequestsTyped, Work, Versions
<1>3. inbox # <<>> /\ work.from = VersionOf(appliedSeq) /\ work.to \in Versions /\ work.to \in Nat
  BY <1>1 DEF Inv, Known, WorkKnown, Versions
<1>4. work.to <= Latest
  BY <1>1, <1>2, <1>3
<1>5. EventsOf(events, work.to)
  BY <1>2, <1>3, TranslateIs
<1> HIDE DEF events
<1>6. AnswersHead /\ StepTold(events, work.to)
  BY <1>1, <1>2, <1>3, <1>5, StepTells DEF AnswersHead
<1> QED
  BY <1>1, <1>2, <1>3, <1>4, <1>5, <1>6, <1>7 DEF events

-----------------------------------------------------------------------------
(* Requests and work.                                                        *)

\* What the rest of the state does while a request is made, worked on, refused or given up.
Quiet ==
    /\ UNCHANGED <<serverVars, mode, openVersion, program, cacheVars, appliedSeq, modelVars, batch>>
    /\ stream' \in Streams /\ (stream' = "batch" <=> stream = "batch")
    /\ needsResync => needsResync'
    /\ needsResync' \in BOOLEAN /\ paused' \in BOOLEAN /\ dead' \in BOOLEAN
    /\ UNCHANGED <<file, spoiled>> \/ (file' = Latest /\ spoiled' = spoiled \cup {"update"})
    /\ faults' \in 0..MaxFaults

Requests == RequestsTyped /\ Known

\* Nothing is asked or worked on after a position moves.
LEMMA NoRequests ==
    ASSUME inbox' = <<>>, work' = NoWork, SeqPerVersion <= savedSeq', savedSeq' <= appliedSeq'
    PROVE  Requests'
<1>1. Len(inbox') = 0 /\ inbox' \in Seq(Request)
  OBVIOUS
<1>2. RequestsKnown'
  BY <1>1 DEF RequestsKnown
<1>3. work' \in Work
  BY DEF NoWork, Work
<1> QED
  BY <1>1, <1>2, <1>3 DEF Requests, RequestsTyped, Known, WorkKnown, NoWork

\* The requests left when the first has been answered or refused.
LEMMA RequestsLeft ==
    ASSUME Typed, Known, inbox # <<>>, inbox' = Tail(inbox), work' = NoWork,
           UNCHANGED <<appliedSeq, savedSeq>>,
           inbox' = <<>> \/ stream' = stream
    PROVE  Requests'
<1>1. inbox \in Seq(Request) /\ SeqPerVersion <= savedSeq /\ savedSeq <= appliedSeq
  BY DEF Typed, RequestsTyped, Known, RequestsKnown
<1>2. /\ inbox' \in Seq(Request) /\ Len(inbox') = Len(inbox) - 1 /\ Len(inbox) \in Nat
      /\ \A i \in 1..Len(inbox') : inbox'[i] = inbox[i + 1] /\ i + 1 \in 1..Len(inbox)
  BY <1>1, HeadAndRest
<1>3. CASE inbox' = <<>>
  BY <1>1, <1>3, NoRequests
<1>4. CASE stream' = stream
  <2>1. \A i \in 1..Len(inbox') :
          /\ inbox'[i].since = appliedSeq' /\ inbox'[i].limit >= 1
          /\ inbox'[i].awaited => /\ i = Len(inbox') /\ stream' \in Calling
                                  /\ stream' = "polling" => inbox'[i].limit = Limit
    <3> TAKE i \in 1..Len(inbox')
    <3>1. i + 1 \in 1..Len(inbox) /\ inbox'[i] = inbox[i + 1]
      BY <1>2
    <3>2. /\ inbox[i + 1].since = appliedSeq /\ inbox[i + 1].limit >= 1
          /\ inbox[i + 1].awaited => /\ i + 1 = Len(inbox) /\ stream \in Calling
                                     /\ stream = "polling" => inbox[i + 1].limit = Limit
      BY <3>1 DEF Known, RequestsKnown
    <3>3. i + 1 = Len(inbox) => i = Len(inbox')
      <4> DEFINE n == Len(inbox)
                 m == Len(inbox')
      <4>1. m = n - 1 /\ n \in Nat /\ i \in Nat
        BY <1>2
      <4> HIDE DEF n, m
      <4>2. i + 1 = n => i = m
        BY <4>1
      <4> QED
        BY <4>2 DEF n, m
    <3>4. appliedSeq' = appliedSeq
      OBVIOUS
    <3> QED
      BY <1>4, <3>1, <3>2, <3>3, <3>4
  <2>2. stream # "batch"
    BY DEF Known, RequestsKnown
  <2>3. RequestsKnown'
    BY <1>1, <1>4, <2>1, <2>2 DEF RequestsKnown
  <2>4. work' \in Work
    BY DEF NoWork, Work
  <2> QED
    BY <1>2, <2>3, <2>4 DEF Requests, RequestsTyped, Known, WorkKnown, NoWork
<1> QED
  BY <1>3, <1>4

\* A step being worked on.
LEMMA WorkGoesOn ==
    ASSUME Typed, Known, inbox # <<>>, UNCHANGED <<inbox, stream, appliedSeq, savedSeq>>,
           work' \in Work, work'.step # "none", work'.from = VersionOf(appliedSeq),
           work'.to \in Versions
    PROVE  Requests'
<1>1. RequestsKnown'
  BY DEF Known, RequestsKnown
<1> QED
  BY <1>1 DEF Requests, RequestsTyped, Typed, Known, WorkKnown

\* A request being made.
LEMMA RequestMade ==
    ASSUME Typed, Known, NEW limit \in Nat, limit >= 1, Asks(limit),
           stream \in {"starting", "idle"}, stream' \in Calling, stream' = "polling" => limit = Limit,
           UNCHANGED <<work, appliedSeq, savedSeq>>
    PROVE  Requests'
<1> DEFINE asked == [since |-> appliedSeq, limit |-> limit, awaited |-> TRUE]
<1>1. inbox \in Seq(Request) /\ work \in Work /\ appliedSeq \in Nat
  BY DEF Typed, RequestsTyped, StreamTyped
<1>2. inbox' = Append(inbox, asked) /\ asked \in Request
  BY <1>1 DEF Asks, Request
<1>3. asked.since = appliedSeq /\ asked.limit = limit /\ asked.awaited = TRUE
  OBVIOUS
<1> HIDE DEF asked
<1>4. /\ inbox' \in Seq(Request) /\ Len(inbox') = Len(inbox) + 1 /\ Len(inbox) \in Nat
      /\ \A i \in 1..Len(inbox) : inbox'[i] = inbox[i]
      /\ inbox'[Len(inbox) + 1] = asked
  BY <1>1, <1>2
<1>5. \A i \in 1..Len(inbox) : inbox[i].since = appliedSeq /\ inbox[i].limit >= 1 /\ ~inbox[i].awaited
  BY DEF Known, RequestsKnown, Calling
<1>6. \A i \in 1..Len(inbox') :
        /\ inbox'[i].since = appliedSeq' /\ inbox'[i].limit >= 1
        /\ inbox'[i].awaited => /\ i = Len(inbox') /\ stream' \in Calling
                                /\ stream' = "polling" => inbox'[i].limit = Limit
  <2> TAKE i \in 1..Len(inbox')
  <2>1. CASE i \in 1..Len(inbox)
    BY <1>4, <1>5, <2>1
  <2>2. CASE i = Len(inbox) + 1
    BY <1>3, <1>4, <2>2
  <2> QED
    BY <1>4, <2>1, <2>2
<1>7. RequestsKnown'
  BY <1>6 DEF RequestsKnown, Known, Calling
<1>8. inbox' # <<>>
  BY <1>4, EmptySeq
<1> QED
  BY <1>1, <1>4, <1>7, <1>8 DEF Requests, RequestsTyped, Known, WorkKnown

-----------------------------------------------------------------------------
(* The steps.                                                                *)

\* A request refused or given up leaves the stream idle, unless nobody waited for it.
LEMMA RefusedQuietly ==
    ASSUME Typed, Known, inbox # <<>>, RepliesFailure, faults' \in 0..MaxFaults,
           UNCHANGED <<file, spoiled>> \/ (file' = Latest /\ spoiled' = spoiled \cup {"update"})
    PROVE  Quiet /\ Requests'
<1>1. stream # "batch" /\ stream \in Streams /\ needsResync \in BOOLEAN /\ paused \in BOOLEAN /\ dead \in BOOLEAN
  BY DEF Known, RequestsKnown, Typed, StreamTyped, WorkerTyped
<1>2. /\ inbox' = Tail(inbox) /\ work' = NoWork
      /\ UNCHANGED <<serverVars, mode, dead, openVersion, program, cacheVars, modelVars>>
  BY DEF RepliesFailure
<1>3. Head(inbox).awaited => inbox' = <<>>
  <2>1. Head(inbox) = inbox[1] /\ 1 \in 1..Len(inbox) /\ (Len(inbox) = 1 => Tail(inbox) = <<>>)
    BY HeadAndRest DEF Typed, RequestsTyped
  <2> QED
    BY <1>2, <2>1 DEF Known, RequestsKnown
<1>4. CASE ~Head(inbox).awaited
  <2>1. UNCHANGED <<stream, batch, appliedSeq, paused, needsResync>>
    BY <1>4 DEF RepliesFailure, streamVars
  <2>2. Quiet
    BY <1>1, <1>2, <2>1 DEF Quiet
  <2>3. Requests'
    BY <1>2, <2>1, RequestsLeft DEF modelVars
  <2> QED
    BY <2>2, <2>3
<1>5. CASE Head(inbox).awaited
  <2>1. stream' = "idle" /\ UNCHANGED <<batch, appliedSeq, paused>> /\ needsResync' \in BOOLEAN
        /\ (needsResync => needsResync')
    BY <1>1, <1>5 DEF RepliesFailure, CallFailed
  <2>2. Quiet
    BY <1>1, <1>2, <2>1 DEF Quiet, Streams
  <2>3. Requests'
    BY <1>2, <1>3, <1>5, <2>1, RequestsLeft DEF modelVars
  <2> QED
    BY <2>2, <2>3
<1> QED
  BY <1>4, <1>5

Silent == \/ StartCompute \/ ReadChangeSet \/ CheckLatest \/ OpenFails \/ UpdateFails \/ RequestFails
          \/ WorkerExits \/ VerifyResume \/ Poll \/ CallTimesOut \/ Pause \/ Resume

Batched == BatchApplied \/ BatchStopsLoop \/ BatchIgnored \/ BatchFails

\* The bound on faults holds whether or not a step is one.
LEMMA FaultCounted == ASSUME Typed PROVE (Fault \/ UNCHANGED faults) => faults' \in 0..MaxFaults
BY FollowerAssumption DEF Typed, ModelTyped, Fault

\* The steps that move no position, version or journal.
LEMMA SilentSteps == ASSUME Inv, Silent PROVE Quiet /\ Requests'
<1>1. Typed /\ Known /\ Latest \in Versions /\ inbox \in Seq(Request) /\ work \in Work
      /\ stream \in Streams /\ SeqPerVersion <= savedSeq /\ savedSeq <= appliedSeq
      /\ needsResync \in BOOLEAN /\ paused \in BOOLEAN /\ dead \in BOOLEAN /\ faults \in 0..MaxFaults
  BY DEF Inv, Typed, ServerTyped, RequestsTyped, StreamTyped, WorkerTyped, ModelTyped, Known, RequestsKnown
<1>2. work.step # "none" => inbox # <<>> /\ work.from = VersionOf(appliedSeq) /\ work.to \in Versions
  BY <1>1 DEF Known, WorkKnown
<1>3. (Fault \/ UNCHANGED faults) => faults' \in 0..MaxFaults
  BY <1>1, FaultCounted
<1>4. CASE StartCompute
  <2>1. inbox # <<>> /\ From(Head(inbox).since) = VersionOf(appliedSeq) /\ VersionOf(appliedSeq) \in Nat
    <3>1. inbox # <<>>
      BY <1>4 DEF StartCompute
    <3> QED
      BY <1>1, <3>1, Asked, VersionOfIs
  <2>2. work' = [step |-> "read", from |-> VersionOf(appliedSeq), to |-> Latest, touched |-> {}]
        /\ UNCHANGED <<serverVars, mode, dead, programVars, cacheVars, inbox, streamVars,
                       needsResync, modelVars, spoiled, faults>>
    BY <1>4, <2>1 DEF StartCompute
  <2>3. work' \in Work /\ work'.step = "read" /\ work'.from = VersionOf(appliedSeq) /\ work'.to \in Versions
    BY <1>1, <2>1, <2>2 DEF Work, Versions
  <2> QED
    BY <1>1, <2>1, <2>2, <2>3, WorkGoesOn DEF Quiet, streamVars, programVars, modelVars
<1>5. CASE ReadChangeSet
  <2>1. work.step = "read" /\ work' = [work EXCEPT !.step = "check", !.touched = ChangeSet(work.from, work.to)]
        /\ UNCHANGED <<serverVars, mode, dead, programVars, cacheVars, inbox, streamVars,
                       needsResync, modelVars, spoiled, faults>>
    BY <1>5 DEF ReadChangeSet
  <2>2. ChangeSet(work.from, work.to) \in SUBSET Functions
    <3>1. \A v \in 1..Len(history) : history[v].touched \subseteq Functions
      BY <1>1, FollowerAssumption DEF Typed, ServerTyped, Nothing
    <3>2. work.from \in Nat /\ Latest \in Nat
      BY <1>1 DEF Work, Versions
    <3> QED
      BY <3>1, <3>2 DEF ChangeSet, Latest
  <2>3. work' \in Work /\ work'.step = "check" /\ work'.from = work.from /\ work'.to = work.to
    BY <1>1, <2>1, <2>2 DEF Work
  <2> QED
    BY <1>1, <1>2, <2>1, <2>3, WorkGoesOn DEF Quiet, streamVars, programVars, modelVars
<1>6. CASE CheckLatest
  <2>1. work.step = "check"
        /\ work' = (IF work.to = Latest THEN [work EXCEPT !.step = "open"]
                    ELSE [work EXCEPT !.step = "read", !.to = Latest])
        /\ UNCHANGED <<serverVars, mode, dead, programVars, cacheVars, inbox, streamVars,
                       needsResync, modelVars, spoiled, faults>>
    BY <1>6 DEF CheckLatest
  <2>2. work' \in Work /\ work'.step # "none" /\ work'.from = work.from /\ work'.to \in Versions
    <3>1. CASE work.to = Latest
      <4>1. work' = [work EXCEPT !.step = "open"]
        BY <2>1, <3>1
      <4> QED
        BY <1>1, <1>2, <2>1, <4>1 DEF Work
    <3>2. CASE work.to # Latest
      <4>1. work' = [work EXCEPT !.step = "read", !.to = Latest] /\ Latest \in Nat
        BY <1>1, <2>1, <3>2 DEF Versions
      <4> QED
        BY <1>1, <4>1 DEF Work
    <3> QED
      BY <3>1, <3>2
  <2> QED
    BY <1>1, <1>2, <2>1, <2>2, WorkGoesOn DEF Quiet, streamVars, programVars, modelVars
<1>7. CASE OpenFails
  BY <1>1, <1>2, <1>3, <1>7, RefusedQuietly DEF OpenFails
<1>8. CASE UpdateFails
  <2>1. work.step # "none" /\ (Fault \/ UNCHANGED faults) /\ RepliesFailure
        /\ file' = Latest /\ spoiled' = spoiled \cup {"update"}
    BY <1>8 DEF UpdateFails
  <2> QED
    BY <1>1, <1>2, <1>3, <2>1, RefusedQuietly
<1>9. CASE RequestFails
  BY <1>1, <1>3, <1>9, RefusedQuietly DEF RequestFails
<1>10. CASE WorkerExits
  <2>1. /\ inbox' = <<>> /\ work' = NoWork /\ dead' = TRUE /\ UNCHANGED <<batch, appliedSeq, paused, savedSeq>>
        /\ stream' \in Streams /\ (stream' = "batch" <=> stream = "batch")
        /\ needsResync => needsResync'
        /\ needsResync' \in BOOLEAN
        /\ UNCHANGED <<serverVars, mode, programVars, cacheVars, modelVars, spoiled>>
    <3>1. CASE stream \in {"resuming", "polling"}
      BY <1>1, <1>10, <3>1 DEF WorkerExits, CallFailed, Streams, modelVars
    <3>2. CASE stream \notin {"resuming", "polling"}
      BY <1>1, <1>10, <3>2 DEF WorkerExits, streamVars, modelVars
    <3> QED
      BY <3>1, <3>2
  <2>2. faults' \in 0..MaxFaults
    BY <1>3, <1>10 DEF WorkerExits
  <2>3. Requests'
    BY <1>1, <2>1, NoRequests
  <2> QED
    BY <1>1, <2>1, <2>2, <2>3 DEF Quiet, programVars
<1>11. CASE VerifyResume
  <2>1. Requests'
    BY <1>1, <1>11, RequestMade DEF VerifyResume, Calling, modelVars
  <2> QED
    BY <1>1, <1>11, <2>1 DEF VerifyResume, Quiet, Streams, programVars
<1>12. CASE Poll
  <2>1. Requests'
    BY <1>1, <1>12, RequestMade, FollowerAssumption DEF Poll, Calling, modelVars
  <2> QED
    BY <1>1, <1>12, <2>1 DEF Poll, Quiet, Streams, programVars
<1>13. CASE CallTimesOut
  <2>1. /\ stream' = "idle" /\ needsResync' \in BOOLEAN /\ (needsResync => needsResync')
        /\ UNCHANGED <<batch, appliedSeq, paused, work>> /\ stream # "batch"
        /\ UNCHANGED <<serverVars, mode, dead, programVars, cacheVars, modelVars, spoiled>>
    BY <1>1, <1>13 DEF CallTimesOut, CallFailed
  <2>2. /\ Len(inbox') = Len(inbox) /\ inbox' \in Seq(Request) /\ Len(inbox) \in Nat
        /\ \A i \in 1..Len(inbox') : inbox'[i].since = inbox[i].since /\ inbox'[i].limit = inbox[i].limit
                                     /\ inbox'[i].awaited = FALSE
    <3>1. inbox' = [i \in 1..Len(inbox) |-> [inbox[i] EXCEPT !.awaited = FALSE]]
      BY <1>13 DEF CallTimesOut
    <3>2. \A i \in 1..Len(inbox) : inbox[i] \in Request
      BY <1>1
    <3>3. \A i \in 1..Len(inbox) : /\ [inbox[i] EXCEPT !.awaited = FALSE] \in Request
                                   /\ [inbox[i] EXCEPT !.awaited = FALSE].since = inbox[i].since
                                   /\ [inbox[i] EXCEPT !.awaited = FALSE].limit = inbox[i].limit
                                   /\ [inbox[i] EXCEPT !.awaited = FALSE].awaited = FALSE
      BY <3>2 DEF Request
    <3> QED
      BY <1>1, <3>1, <3>3
  <2>3. RequestsKnown'
    BY <1>1, <2>1, <2>2 DEF Known, RequestsKnown, modelVars
  <2>4. inbox # <<>> => inbox' # <<>>
    BY <1>1, <2>2, EmptySeq
  <2>5. Requests'
    BY <1>1, <1>2, <2>1, <2>2, <2>3, <2>4 DEF Requests, RequestsTyped, Known, WorkKnown
  <2>6. faults' \in 0..MaxFaults
    BY <1>3, <1>13 DEF CallTimesOut
  <2> QED
    BY <1>1, <2>1, <2>5, <2>6 DEF Quiet, Streams, programVars
<1>14. CASE Pause \/ Resume
  <2>1. UNCHANGED <<inbox, work, stream, appliedSeq, savedSeq>>
    BY <1>14 DEF Pause, Resume, workerVars, modelVars
  <2>2. Requests'
    BY <1>1, <2>1 DEF Requests, RequestsTyped, Known, RequestsKnown, WorkKnown
  <2>3. faults' \in 0..MaxFaults
    BY <1>3, <1>14 DEF Pause, Resume
  <2> QED
    BY <1>1, <1>14, <2>2, <2>3 DEF Pause, Resume, Quiet, workerVars, programVars
<1> QED
  BY <1>4, <1>5, <1>6, <1>7, <1>8, <1>9, <1>10, <1>11, <1>12, <1>13, <1>14 DEF Silent

\* The version of the later of two positions.
LEMMA LaterPosition ==
    ASSUME NEW a \in Nat, NEW b \in Nat
    PROVE  /\ Max({a, b}) \in Nat /\ a <= Max({a, b}) /\ b <= Max({a, b})
           /\ VersionOf(Max({a, b})) = IF VersionOf(a) >= VersionOf(b) THEN VersionOf(a) ELSE VersionOf(b)
<1>1. Max({a, b}) = IF a >= b THEN a ELSE b
  BY MaxOfTwo
<1>2. VersionOf(a) \in Nat /\ VersionOf(b) \in Nat
  BY VersionOfIs
<1>3. CASE a >= b
  <2>1. VersionOf(b) <= VersionOf(a)
    BY <1>3, VersionOfGrows
  <2> QED
    BY <1>1, <1>2, <1>3, <2>1
<1>4. CASE ~ (a >= b)
  <2>1. VersionOf(a) <= VersionOf(b)
    BY <1>4, VersionOfGrows
  <2> QED
    BY <1>1, <1>2, <1>4, <2>1
<1> QED
  BY <1>3, <1>4

\* A step without events leaves the position at the later of two versions.
LEMMA PositionTold ==
    ASSUME appliedSeq \in Nat, NEW version \in Nat, ToldPosition(version)
    PROVE  /\ appliedSeq' \in Nat /\ appliedSeq <= appliedSeq'
           /\ VersionOf(appliedSeq') = IF VersionOf(appliedSeq) >= version THEN VersionOf(appliedSeq)
                                                                           ELSE version
<1>1. version * SeqPerVersion + 0 \in Nat /\ version * SeqPerVersion \in Nat
      /\ VersionOf(version * SeqPerVersion + 0) = version
  BY Spacing, VersionOfEvent
<1>2. version * SeqPerVersion + 0 = version * SeqPerVersion
  BY <1>1
<1>3. appliedSeq' = Max({appliedSeq, version * SeqPerVersion})
  BY DEF ToldPosition
<1> QED
  BY <1>1, <1>2, <1>3, LaterPosition

\* What the end of a batch moves: nothing at the worker, and the positions, if at all, to the
\* version the program is at.
BatchEnds ==
    /\ inbox' = <<>> /\ work' = NoWork /\ stream' = "idle" /\ batch' = <<>>
    /\ UNCHANGED <<serverVars, mode, dead, programVars, cacheVars>>
    /\ spoiled' \in {spoiled, spoiled \cup {"left"}}
    /\ needsResync' \in BOOLEAN /\ paused' \in BOOLEAN /\ (needsResync => needsResync')
    /\ appliedSeq' \in Nat /\ savedSeq' \in Nat
    /\ SeqPerVersion <= savedSeq' /\ savedSeq' <= appliedSeq' /\ appliedSeq <= appliedSeq'

\* A batch applied, ignored or stopped at moves the position to the version the program is at.
LEMMA TakenSteps ==
    ASSUME Inv, BatchApplied \/ BatchStopsLoop \/ BatchIgnored
    PROVE  /\ BatchEnds /\ stream = "batch" /\ VersionOf(appliedSeq) <= openVersion
           /\ VersionOf(appliedSeq') = openVersion
           /\ appliedSeq' = Max({appliedSeq, Last(batch).seq})
           /\ Last(batch).seq \in Nat /\ VersionOf(Last(batch).seq) = openVersion
<1> DEFINE last == Last(batch).seq
<1>1. stream = "batch" /\ batch \in Seq(Event) /\ batch # <<>> /\ appliedSeq \in Nat /\ savedSeq \in Nat
      /\ openVersion \in Nat /\ needsResync \in BOOLEAN /\ paused \in BOOLEAN
  BY DEF Inv, Typed, StreamTyped, WorkerTyped, Versions, BatchApplied, BatchStopsLoop, BatchIgnored
<1>2. inbox = <<>> /\ work = NoWork /\ SeqPerVersion <= savedSeq /\ savedSeq <= appliedSeq
  BY <1>1 DEF Inv, Known, RequestsKnown, WorkKnown
<1>3. VersionOf(appliedSeq) <= openVersion /\ VersionOf(appliedSeq) \in Nat
  BY <1>1, VersionOfIs DEF Inv, BatchKnown
<1>4. last \in Nat /\ VersionOf(last) = openVersion
  <2>1. Len(batch) \in 1..Len(batch)
    BY <1>1, EmptySeq
  <2>2. batch[Len(batch)] \in Event /\ VersionOf(batch[Len(batch)].seq) = openVersion
    BY <1>1, <2>1 DEF Inv, BatchKnown
  <2> QED
    BY <2>2 DEF Last, Event
<1> HIDE DEF last
<1>5. /\ Max({appliedSeq, last}) \in Nat /\ appliedSeq <= Max({appliedSeq, last})
      /\ last <= Max({appliedSeq, last})
      /\ VersionOf(Max({appliedSeq, last})) = openVersion
  <2>1. VersionOf(Max({appliedSeq, last}))
          = IF VersionOf(appliedSeq) >= VersionOf(last) THEN VersionOf(appliedSeq) ELSE VersionOf(last)
    BY <1>1, <1>4, LaterPosition
  <2> QED
    BY <1>1, <1>3, <1>4, <2>1, LaterPosition
<1>6. /\ Max({savedSeq, last}) \in Nat /\ savedSeq <= Max({savedSeq, last})
      /\ Max({savedSeq, last}) <= Max({appliedSeq, last})
  <2>1. Max({savedSeq, last}) = IF savedSeq >= last THEN savedSeq ELSE last
    BY <1>1, <1>4, MaxOfTwo
  <2>2. Max({appliedSeq, last}) = IF appliedSeq >= last THEN appliedSeq ELSE last
    BY <1>1, <1>4, MaxOfTwo
  <2> QED
    BY <1>1, <1>2, <1>4, <2>1, <2>2
<1>7. SeqPerVersion \in Nat
  BY Spacing
<1>8. CASE BatchApplied
  <2>1. appliedSeq' = Max({appliedSeq, last}) /\ savedSeq' \in {savedSeq, Max({savedSeq, last})}
    BY <1>8 DEF BatchApplied, last
  <2>2. savedSeq' \in Nat /\ SeqPerVersion <= savedSeq' /\ savedSeq' <= appliedSeq'
    BY <1>1, <1>2, <1>5, <1>6, <1>7, <2>1
  <2>3. BatchEnds
    BY <1>1, <1>2, <1>5, <1>8, <2>1, <2>2 DEF BatchApplied, BatchEnds, EndBatch, workerVars
  <2> QED
    BY <1>1, <1>3, <1>4, <1>5, <2>1, <2>3 DEF last
<1>9. CASE BatchStopsLoop
  <2>1. appliedSeq' = Max({appliedSeq, last}) /\ savedSeq' = savedSeq
    BY <1>9 DEF BatchStopsLoop, last, modelVars
  <2>2. BatchEnds
    BY <1>1, <1>2, <1>5, <1>7, <1>9, <2>1 DEF BatchStopsLoop, BatchEnds, EndBatch, workerVars
  <2> QED
    BY <1>1, <1>3, <1>4, <1>5, <2>1, <2>2 DEF last
<1>10. CASE BatchIgnored
  <2>1. appliedSeq' = Max({appliedSeq, last}) /\ savedSeq' = savedSeq
    BY <1>10 DEF BatchIgnored, last, modelVars
  <2>2. BatchEnds
    BY <1>1, <1>2, <1>5, <1>7, <1>10, <2>1 DEF BatchIgnored, BatchEnds, EndBatch, workerVars
  <2> QED
    BY <1>1, <1>3, <1>4, <1>5, <2>1, <2>2 DEF last
<1> QED
  BY <1>8, <1>9, <1>10

\* A batch that failed moves no position.
LEMMA FailedStep ==
    ASSUME Inv, BatchFails
    PROVE  /\ BatchEnds /\ stream = "batch" /\ VersionOf(appliedSeq) <= openVersion
           /\ UNCHANGED <<appliedSeq, savedSeq, savedReadAt>>
<1>1. stream = "batch" /\ appliedSeq \in Nat /\ savedSeq \in Nat
      /\ openVersion \in Nat /\ needsResync \in BOOLEAN /\ paused \in BOOLEAN
  BY DEF Inv, Typed, StreamTyped, WorkerTyped, Versions, BatchFails
<1>2. inbox = <<>> /\ work = NoWork /\ SeqPerVersion <= savedSeq /\ savedSeq <= appliedSeq
  BY <1>1 DEF Inv, Known, RequestsKnown, WorkKnown
<1>3. VersionOf(appliedSeq) <= openVersion
  BY <1>1 DEF Inv, BatchKnown
<1>4. BatchEnds
  BY <1>1, <1>2 DEF BatchFails, BatchEnds, EndBatch, workerVars
<1> QED
  BY <1>1, <1>3, <1>4 DEF BatchFails

\* What a check-in and a rollback leave of the history.
LEMMA HistoryGrows ==
    ASSUME ServerTyped, CheckIn
    PROVE  /\ ServerTyped' /\ Latest' = Latest + 1 /\ Latest \in Nat
           /\ \A v \in 1..Latest : v \in 1..Latest' /\ history'[v] = history[v]
           /\ UNCHANGED <<rolledBack, workerVars, streamVars, needsResync, modelVars, faults>>
           /\ spoiled \subseteq spoiled' /\ spoiled' \subseteq spoiled \cup {"number", "restored"}
           /\ rolledBack => "number" \in spoiled'
<1>1. PICK c \in CheckIns :
           /\ history' = Append(history, c)
           /\ spoiled' = spoiled \cup (IF rolledBack THEN {"number"} ELSE {})
                                 \cup (IF Restores(c) THEN {"restored"} ELSE {})
  BY DEF CheckIn
<1>2. history \in Seq(CheckIns \cup {Nothing}) /\ Latest \in Nat /\ Latest >= 1 /\ Latest < MaxVersion
  BY DEF ServerTyped, CheckIn, Versions
<1>3. /\ history' \in Seq(CheckIns \cup {Nothing}) /\ Len(history') = Len(history) + 1
      /\ \A v \in 1..Len(history) : history'[v] = history[v]
  BY <1>1, <1>2
<1>4. Latest' = Latest + 1 /\ \A v \in 1..Latest : history'[v] = history[v]
  BY <1>3 DEF Latest
<1>5. Latest' \in Versions
  BY <1>2, <1>4, FollowerAssumption DEF Versions
<1>6. \A v \in 1..Latest : v \in 1..Latest'
  <2> DEFINE n == Latest
  <2>1. Latest' = n + 1 /\ n \in Nat
    BY <1>2, <1>4
  <2> HIDE DEF n
  <2>2. \A v \in 1..n : v \in 1..(n + 1)
    BY <2>1
  <2> QED
    BY <2>1, <2>2 DEF n
<1>7. /\ UNCHANGED <<rolledBack, workerVars, streamVars, needsResync, modelVars, faults>>
      /\ spoiled \subseteq spoiled' /\ spoiled' \subseteq spoiled \cup {"number", "restored"}
      /\ rolledBack => "number" \in spoiled'
  BY <1>1 DEF CheckIn
<1> QED
  BY <1>2, <1>3, <1>4, <1>5, <1>6, <1>7 DEF ServerTyped

\* A rollback takes the last version away and leaves the others.
LEMMA HistoryShrinks ==
    ASSUME ServerTyped, Rollback
    PROVE  /\ ServerTyped' /\ Latest' = Latest - 1 /\ Latest' \in Nat /\ Latest \in Nat
           /\ \A v \in 1..Latest' : v \in 1..Latest /\ history'[v] = history[v]
           /\ UNCHANGED <<workerVars, streamVars, needsResync, modelVars>>
           /\ rolledBack' = TRUE
           /\ spoiled' = spoiled \cup (IF work # NoWork THEN {"rollback"} ELSE {})
<1> DEFINE n == Len(history)
<1>1. history \in Seq(CheckIns \cup {Nothing}) /\ n \in Versions /\ n > 1
  BY DEF ServerTyped, Rollback, Latest
<1>2. n \in Nat
  BY <1>1 DEF Versions
<1>3. history # <<>>
  BY <1>1, <1>2
<1>4. history' = SubSeq(history, 1, n - 1)
  BY DEF Rollback, Front
<1> HIDE DEF n
<1>5. n - 1 \in Nat /\ n - 1 >= 1 /\ n - 1 <= n /\ n - 1 \in Versions
  BY <1>1, <1>2, FollowerAssumption DEF Versions
<1>6. /\ history' \in Seq(CheckIns \cup {Nothing}) /\ Len(history') = n - 1
      /\ \A v \in 1..(n - 1) : history'[v] = history[v]
  BY <1>1, <1>2, <1>4, <1>5 DEF n
<1>7. \A v \in 1..(n - 1) : v \in 1..n
  BY <1>2, <1>5
<1>8. /\ UNCHANGED <<workerVars, streamVars, needsResync, modelVars>>
      /\ rolledBack' = TRUE
      /\ spoiled' = spoiled \cup (IF work # NoWork THEN {"rollback"} ELSE {})
  BY DEF Rollback
<1>9. Latest = n /\ Latest' = n - 1
  BY <1>6 DEF Latest, n
<1> QED
  BY <1>2, <1>5, <1>6, <1>7, <1>8, <1>9 DEF ServerTyped

\* What an answer leaves of the requests, and where the stream is after it.
Told(version) ==
    \/ ToldNothing
    \/ ToldPosition(version)
    \/ \E page : ToldEvents(page) /\ page \in Seq(Event)

\* Whatever an answer does keeps the requests left consistent with the position.
LEMMA AnswerKeeps ==
    ASSUME Typed, Known, AnswersHead, UNCHANGED modelVars, NEW version \in Nat, Told(version)
    PROVE  /\ Requests' /\ StreamTyped' /\ (needsResync => needsResync')
           /\ VersionOf(appliedSeq') \in {VersionOf(appliedSeq), version}
<1>1. /\ stream \in Streams /\ appliedSeq \in Nat /\ savedSeq \in Nat /\ batch \in Seq(Event)
      /\ SeqPerVersion <= savedSeq /\ savedSeq <= appliedSeq /\ savedSeq' = savedSeq
      /\ needsResync \in BOOLEAN
  BY DEF Typed, StreamTyped, Known, RequestsKnown, modelVars
<1>2. inbox # <<>> /\ inbox' = Tail(inbox) /\ work' = NoWork /\ batch = <<>>
      /\ needsResync' \in BOOLEAN /\ paused' \in BOOLEAN
  BY DEF AnswersHead
<1>3. CASE ToldNothing
  <2>1. Requests'
    BY <1>1, <1>2, <1>3, RequestsLeft DEF ToldNothing
  <2> QED
    BY <1>1, <1>2, <1>3, <2>1 DEF ToldNothing, StreamTyped
<1>4. CASE ToldPosition(version)
  <2>1. appliedSeq' \in Nat /\ appliedSeq <= appliedSeq'
        /\ VersionOf(appliedSeq') \in {VersionOf(appliedSeq), version}
    BY <1>1, <1>4, PositionTold
  <2>2. inbox' = <<>> /\ stream' = "idle" /\ UNCHANGED <<batch, needsResync>>
    BY <1>4 DEF ToldPosition
  <2>3. SeqPerVersion <= savedSeq' /\ savedSeq' <= appliedSeq'
    BY <1>1, <2>1, Spacing
  <2>4. Requests'
    BY <1>2, <2>2, <2>3, NoRequests
  <2> QED
    BY <1>1, <1>2, <2>1, <2>2, <2>4 DEF StreamTyped, Streams
<1>5. CASE \E page : ToldEvents(page) /\ page \in Seq(Event)
  <2>1. PICK page : ToldEvents(page) /\ page \in Seq(Event)
    BY <1>5
  <2>2. /\ batch' \in Seq(Event) /\ batch' # <<>>
        /\ inbox' = <<>> /\ stream' = "batch" /\ UNCHANGED <<appliedSeq, needsResync>>
    BY <2>1 DEF ToldEvents
  <2>3. Requests'
    BY <1>1, <1>2, <2>2, NoRequests
  <2> QED
    BY <1>1, <1>2, <2>2, <2>3 DEF StreamTyped, Streams
<1> QED
  BY <1>3, <1>4, <1>5 DEF Told

\* The same for the answer to a step, and how far the position can get by it.
LEMMA StepKeeps ==
    ASSUME Typed, Known, AnswersHead, UNCHANGED modelVars, NEW to \in Nat, NEW events, StepTold(events, to)
    PROVE  /\ Requests' /\ StreamTyped' /\ (needsResync => needsResync')
           /\ VersionOf(appliedSeq') \in {VersionOf(appliedSeq), to}
           /\ VersionOf(appliedSeq) < to => VersionOf(appliedSeq') <= to
           /\ VersionOf(appliedSeq) \in Nat
           /\ stream' = "batch" =>
                /\ VersionOf(appliedSeq') <= to
                /\ \A i \in 1..Len(batch') : VersionOf(batch'[i].seq) = to
<1>1. appliedSeq \in Nat /\ VersionOf(appliedSeq) \in Nat
  BY VersionOfIs DEF Typed, StreamTyped
<1>2. Told(to)
  <2>1. \A page : PageOf(page, events, to, appliedSeq, Limit) => page \in Seq(Event)
    BY DEF PageOf
  <2> QED
    BY <2>1 DEF StepTold, Told
<1>3. Requests' /\ StreamTyped' /\ (needsResync => needsResync')
      /\ VersionOf(appliedSeq') \in {VersionOf(appliedSeq), to}
  BY <1>2, AnswerKeeps
<1>4. CASE ToldNothing
  BY <1>1, <1>3, <1>4 DEF ToldNothing
<1>5. CASE VersionOf(appliedSeq) <= to /\ ToldPosition(to)
  <2>1. VersionOf(appliedSeq') = IF VersionOf(appliedSeq) >= to THEN VersionOf(appliedSeq) ELSE to
    BY <1>1, <1>5, PositionTold
  <2>2. VersionOf(appliedSeq') = to
    BY <1>1, <1>5, <2>1
  <2>3. stream' # "batch"
    BY <1>5 DEF ToldPosition
  <2> QED
    BY <1>1, <1>3, <2>2, <2>3
<1>6. CASE VersionOf(appliedSeq) <= to
           /\ \E page : ToldEvents(page) /\ PageOf(page, events, to, appliedSeq, Limit)
  <2>1. PICK page : ToldEvents(page) /\ PageOf(page, events, to, appliedSeq, Limit)
    BY <1>6
  <2>2. batch' = page /\ appliedSeq' = appliedSeq
    BY <2>1 DEF ToldEvents
  <2>3. \A i \in 1..Len(page) : VersionOf(page[i].seq) = to
    BY <2>1 DEF PageOf
  <2> QED
    BY <1>1, <1>3, <1>6, <2>2, <2>3
<1> QED
  BY <1>4, <1>5, <1>6 DEF StepTold

-----------------------------------------------------------------------------
(* The invariant holds.                                                      *)

\* A stream that has just started satisfies the invariant.
LEMMA InvInit == ASSUME Init PROVE Inv
<1>1. 1 \in Versions /\ SeqPerVersion \in Nat /\ MaxFaults \in Nat /\ MaxEvents \in Nat
  BY FollowerAssumption DEF Versions
<1>2. history \in Seq(CheckIns \cup {Nothing}) /\ Len(history) = 1
  <2>1. history = <<Nothing>>
    BY DEF Init
  <2> QED
    BY <2>1
<1>9. <<>> \in Seq(Event)
  BY EmptySeq
<1>3. ServerTyped /\ WorkerTyped /\ StreamTyped /\ ModelTyped
  <2>1. ServerTyped
    BY <1>1, <1>2 DEF Init, ServerTyped, Latest
  <2>2. WorkerTyped
    BY <1>1, <1>9 DEF Init, WorkerTyped
  <2>3. StreamTyped
    BY <1>1, <1>9 DEF Init, StreamTyped, Streams
  <2>4. ModelTyped
    BY <1>1 DEF Init, ModelTyped
  <2> QED
    BY <2>1, <2>2, <2>3, <2>4
<1>4. Requests
  BY <1>1 DEF Init, Requests, RequestsTyped, Known, RequestsKnown, WorkKnown, NoWork, Work
<1>5. EventsOf(<<>>, 0)
  BY NoEvents
<1>6. CacheKnown
  BY <1>1, <1>5 DEF Init, CacheKnown
<1>7. BatchKnown
  BY DEF Init, BatchKnown
<1>8. PositionKnown
  <2>1. 1 * SeqPerVersion + 0 = SeqPerVersion /\ VersionOf(1 * SeqPerVersion + 0) = 1
    BY <1>1, Spacing, VersionOfEvent
  <2> QED
    BY <2>1, FollowerAssumption DEF Init, PositionKnown
<1> QED
  BY <1>3, <1>4, <1>6, <1>7, <1>8 DEF Inv, Typed, Requests

\* Types and requests after an answer.
LEMMA InvCaughtUp == ASSUME Inv, AnswerCaughtUp PROVE Inv'
<1>1. Typed /\ Known /\ PositionKnown /\ CacheKnown /\ Latest \in Versions /\ openVersion \in Versions
      /\ program \in Versions /\ file \in Versions /\ appliedSeq \in Nat /\ VersionOf(appliedSeq) \in Nat
  BY VersionOfIs DEF Inv, Typed, ServerTyped, WorkerTyped, StreamTyped
<1>2. /\ AnswersHead /\ Latest <= VersionOf(appliedSeq)
      /\ openVersion' = IF openVersion >= Latest THEN openVersion ELSE Latest
      /\ program' = IF openVersion < Latest THEN Latest ELSE program
      /\ file' = IF openVersion < Latest /\ mode = "checkout" THEN Latest ELSE file
      /\ ToldNothing \/ ToldPosition(openVersion')
      /\ UNCHANGED <<serverVars, mode, dead, cacheVars, modelVars, spoiled, faults>>
  BY CaughtUpStep
<1>3. openVersion' \in Versions /\ program' \in Versions /\ file' \in Versions /\ openVersion' \in Nat
  BY <1>1, <1>2 DEF Versions
<1>4. Requests' /\ StreamTyped' /\ VersionOf(appliedSeq') \in {VersionOf(appliedSeq), openVersion'}
  BY <1>1, <1>2, <1>3, AnswerKeeps DEF Told
<1>9. PositionKnown'
  BY <1>1, <1>3, <1>4 DEF PositionKnown, Versions
<1>5. ServerTyped' /\ WorkerTyped' /\ ModelTyped'
  BY <1>1, <1>2, <1>3 DEF Typed, ServerTyped, WorkerTyped, ModelTyped, serverVars, cacheVars, modelVars, Latest
<1>6. BatchKnown'
  <2>1. stream' # "batch"
    BY <1>2 DEF ToldNothing, ToldPosition
  <2> QED
    BY <2>1 DEF BatchKnown
<1>7. cachedFrom < cachedTo => cachedTo = openVersion' /\ VersionOf(appliedSeq') <= openVersion'
  <2> SUFFICES ASSUME cachedFrom < cachedTo
               PROVE  cachedTo = openVersion' /\ VersionOf(appliedSeq') <= openVersion'
    OBVIOUS
  <2>1. cachedTo = openVersion /\ VersionOf(appliedSeq) <= openVersion
    BY <1>1 DEF CacheKnown
  <2>2. openVersion' = openVersion
    BY <1>1, <1>2, <2>1 DEF Versions
  <2>3. CASE ToldNothing
    BY <2>1, <2>2, <2>3 DEF ToldNothing
  <2>4. CASE ToldPosition(openVersion')
    <3>1. VersionOf(appliedSeq') = IF VersionOf(appliedSeq) >= openVersion' THEN VersionOf(appliedSeq)
                                   ELSE openVersion'
      BY <1>1, <1>3, <2>4, PositionTold
    <3> QED
      BY <1>1, <1>3, <2>1, <2>2, <3>1
  <2> QED
    BY <1>2, <2>3, <2>4
<1>8. CacheKnown'
  BY <1>1, <1>2, <1>7 DEF CacheKnown, cacheVars, EventsOf
<1> QED
  BY <1>4, <1>5, <1>6, <1>8, <1>9 DEF Inv, Typed, Requests

\* After the last answer given once more.
LEMMA InvCached == ASSUME Inv, AnswerCached PROVE Inv'
<1>1. Typed /\ Known /\ PositionKnown /\ CacheKnown /\ openVersion \in Nat
  BY DEF Inv, Typed, WorkerTyped, Versions
<1>2. /\ AnswersHead /\ cachedFrom = VersionOf(appliedSeq) /\ cachedFrom < cachedTo
      /\ cachedTo = openVersion
      /\ StepTold(cachedEvents, openVersion)
      /\ UNCHANGED <<serverVars, mode, dead, programVars, cacheVars, modelVars, spoiled, faults>>
  BY CachedStep
<1>3. /\ Requests' /\ StreamTyped' /\ VersionOf(appliedSeq') \in {VersionOf(appliedSeq), openVersion}
      /\ VersionOf(appliedSeq') <= openVersion
      /\ stream' = "batch" => \A i \in 1..Len(batch') : VersionOf(batch'[i].seq) = openVersion
  <2>1. UNCHANGED modelVars /\ VersionOf(appliedSeq) < openVersion
    BY <1>2
  <2> QED
    BY <1>1, <1>2, <2>1, StepKeeps
<1>4. ServerTyped' /\ WorkerTyped' /\ ModelTyped'
  BY <1>1, <1>2 DEF Typed, ServerTyped, WorkerTyped, ModelTyped, serverVars, programVars, cacheVars, modelVars,
     Latest
<1>5. CacheKnown' /\ BatchKnown'
  BY <1>1, <1>2, <1>3 DEF CacheKnown, BatchKnown, cacheVars, programVars, EventsOf
<1>6. PositionKnown'
  BY <1>1, <1>3 DEF Inv, PositionKnown, Typed, WorkerTyped, Versions
<1> QED
  BY <1>3, <1>4, <1>5, <1>6 DEF Inv, Typed, Requests

\* After a step computed.
LEMMA InvOpen == ASSUME Inv, OpenAndTranslate PROVE Inv'
<1>1. Typed /\ Known /\ program \in Versions /\ file \in Versions /\ work.to \in Nat
  BY OpenStep DEF Inv, Typed, WorkerTyped, Versions
<1>2. /\ AnswersHead /\ work.to \in Versions
      /\ openVersion' = work.to /\ program' = NewVersion(work.to)
      /\ file' = IF mode = "checkout" THEN work.to ELSE file
      /\ cachedFrom' = VersionOf(appliedSeq) /\ cachedTo' = work.to
      /\ EventsOf(cachedEvents', work.to)
      /\ StepTold(cachedEvents', work.to)
      /\ UNCHANGED <<serverVars, mode, dead, modelVars, spoiled, faults>>
  BY OpenStep
<1>3. /\ Requests' /\ StreamTyped' /\ VersionOf(appliedSeq') \in {VersionOf(appliedSeq), work.to}
      /\ VersionOf(appliedSeq) < work.to => VersionOf(appliedSeq') <= work.to
      /\ stream' = "batch" =>
           /\ VersionOf(appliedSeq') <= work.to
           /\ \A i \in 1..Len(batch') : VersionOf(batch'[i].seq) = work.to
  BY <1>1, <1>2, StepKeeps
<1>4. program' \in Versions /\ file' \in Versions
  BY <1>1, <1>2 DEF NewVersion
<1>5. ServerTyped' /\ ModelTyped'
  BY <1>1, <1>2 DEF Typed, ServerTyped, ModelTyped, serverVars, modelVars, Latest
<1>6. cachedFrom' \in {0} \cup Versions /\ cachedEvents' \in Seq(Event) /\ PositionKnown'
  <2>1. VersionOf(appliedSeq) \in Nat /\ VersionOf(appliedSeq) <= MaxVersion /\ MaxVersion \in Nat
    BY VersionOfIs, FollowerAssumption DEF Inv, PositionKnown, Typed, StreamTyped
  <2>2. VersionOf(appliedSeq) \in {0} \cup Versions
    BY <2>1 DEF Versions
  <2>3. PositionKnown'
    BY <1>2, <1>3, <2>1 DEF PositionKnown, Versions
  <2> QED
    BY <1>2, <2>2, <2>3 DEF EventsOf
<1>7. WorkerTyped'
  BY <1>1, <1>2, <1>4, <1>6 DEF Typed, WorkerTyped
<1>8. BatchKnown'
  BY <1>2, <1>3 DEF BatchKnown
<1>9. CacheKnown'
  <2>1. EventsOf(cachedEvents', cachedTo')
    BY <1>2
  <2>2. EventsOf(cachedEvents, cachedTo)'
    BY <2>1 DEF EventsOf
  <2> QED
    BY <1>2, <1>3, <2>2 DEF CacheKnown
<1> QED
  BY <1>3, <1>5, <1>6, <1>7, <1>8, <1>9 DEF Inv, Typed, Requests

\* After the server moved: the follower is where it was.
LEMMA InvServer == ASSUME Inv, CheckIn \/ Rollback PROVE Inv'
<1>1. Typed /\ Known
  BY DEF Inv
<1>2. /\ ServerTyped' /\ UNCHANGED <<workerVars, streamVars, needsResync, modelVars>>
      /\ spoiled' \subseteq spoiled \cup {"number", "rollback", "restored"}
  BY <1>1, HistoryGrows, HistoryShrinks DEF Typed
<1>3. faults' \in 0..MaxFaults
  BY <1>1, FaultCounted DEF CheckIn, Rollback
<1>4. WorkerTyped' /\ RequestsTyped' /\ StreamTyped' /\ Known' /\ PositionKnown' /\ BatchKnown'
  BY <1>1, <1>2 DEF Inv, Typed, WorkerTyped, RequestsTyped, StreamTyped, Known, RequestsKnown, WorkKnown,
     PositionKnown, BatchKnown, workerVars, programVars, cacheVars, streamVars, modelVars
<1>5. CacheKnown'
  BY <1>2 DEF Inv, CacheKnown, EventsOf, workerVars, programVars, cacheVars, streamVars
<1>6. ModelTyped'
  BY <1>1, <1>2, <1>3 DEF Typed, ModelTyped, modelVars
<1> QED
  BY <1>2, <1>4, <1>5, <1>6 DEF Inv, Typed

\* After a step that answers nobody.
LEMMA InvSilent == ASSUME Inv, Silent PROVE Inv'
<1>1. Typed /\ Latest \in Versions
  BY DEF Inv, Typed, ServerTyped
<1>2. Quiet /\ Requests'
  BY SilentSteps
<1>3. WorkerTyped'
  BY <1>1, <1>2 DEF Typed, WorkerTyped, Quiet, cacheVars
<1>4. ServerTyped'
  BY <1>1, <1>2 DEF Typed, ServerTyped, Quiet, serverVars, Latest
<1>5. StreamTyped'
  BY <1>1, <1>2 DEF Typed, StreamTyped, Quiet, modelVars
<1>6. ModelTyped'
  BY <1>1, <1>2 DEF Typed, ModelTyped, Quiet, modelVars
<1>7. CacheKnown' /\ BatchKnown' /\ PositionKnown'
  BY <1>2 DEF Inv, CacheKnown, BatchKnown, PositionKnown, EventsOf, Quiet, cacheVars
<1> QED
  BY <1>2, <1>3, <1>4, <1>5, <1>6, <1>7 DEF Inv, Typed, Requests

\* What a handler read again it read from the program.
Rereads ==
    /\ readAt' \in [Functions -> Versions] /\ savedReadAt' \in [Functions -> Versions]
    /\ faults' \in 0..MaxFaults

\* A function read again is at a version there is.
LEMMA RereadTyped ==
    ASSUME Typed, NEW fs, Reread(fs)
    PROVE  readAt' \in [Functions -> Versions]
BY DEF Typed, ModelTyped, WorkerTyped, Reread

\* What the end of a batch leaves of the model.
LEMMA BatchRereads == ASSUME Typed, Batched PROVE Rereads
<1>1. /\ readAt \in [Functions -> Versions] /\ savedReadAt \in [Functions -> Versions]
      /\ faults \in 0..MaxFaults
      /\ (Fault \/ UNCHANGED faults) => faults' \in 0..MaxFaults
  BY FaultCounted DEF Typed, ModelTyped
<1>2. CASE BatchApplied
  <2>1. readAt' \in [Functions -> Versions]
    BY <1>2, RereadTyped DEF BatchApplied
  <2>2. savedReadAt' \in {savedReadAt, readAt'} /\ (Fault \/ UNCHANGED faults)
    BY <1>2 DEF BatchApplied
  <2> QED
    BY <1>1, <2>1, <2>2 DEF Rereads
<1>3. CASE BatchStopsLoop
  BY <1>1, <1>3 DEF BatchStopsLoop, modelVars, Rereads
<1>4. CASE BatchIgnored
  BY <1>1, <1>4 DEF BatchIgnored, modelVars, Rereads
<1>5. CASE BatchFails
  <2>1. readAt' \in [Functions -> Versions]
    BY <1>5, RereadTyped DEF BatchFails
  <2> QED
    BY <1>1, <1>5, <2>1 DEF BatchFails, Rereads
<1> QED
  BY <1>2, <1>3, <1>4, <1>5 DEF Batched

\* After a batch.
LEMMA InvBatched == ASSUME Inv, Batched PROVE Inv'
<1>1. Typed /\ openVersion \in Versions /\ appliedSeq \in Nat
  BY DEF Inv, Typed, WorkerTyped, StreamTyped
<1>2. BatchEnds /\ VersionOf(appliedSeq') \in {VersionOf(appliedSeq), openVersion}
      /\ VersionOf(appliedSeq) <= openVersion
  BY TakenSteps, FailedStep DEF Batched
<1>3. Rereads
  BY <1>1, BatchRereads
<1>4. Requests'
  BY <1>2, NoRequests DEF BatchEnds
<1>5. ServerTyped' /\ WorkerTyped'
  BY <1>1, <1>2 DEF Typed, ServerTyped, WorkerTyped, BatchEnds, serverVars, programVars, cacheVars, Latest
<1>6. StreamTyped'
  BY <1>2 DEF BatchEnds, StreamTyped, Streams
<1>7. ModelTyped'
  BY <1>1, <1>2, <1>3 DEF Typed, ModelTyped, Rereads, BatchEnds
<1>8. PositionKnown'
  BY <1>1, <1>2 DEF Inv, PositionKnown, Versions
<1>9. BatchKnown'
  BY <1>2 DEF BatchKnown, BatchEnds
<1>10. VersionOf(appliedSeq') <= openVersion
  BY <1>1, <1>2 DEF Versions
<1>11. CacheKnown'
  BY <1>2, <1>10 DEF Inv, CacheKnown, EventsOf, BatchEnds, programVars, cacheVars
<1> QED
  BY <1>4, <1>5, <1>6, <1>7, <1>8, <1>9, <1>11 DEF Inv, Typed, Requests

\* After a restart: the position is an earlier one, and nothing is kept of the process.
LEMMA InvRestart == ASSUME Inv, Restart PROVE Inv'
<1>1. Typed /\ Known /\ Latest \in Versions /\ MaxVersion \in Nat
  BY FollowerAssumption DEF Inv, Typed, ServerTyped
<1>2. /\ savedSeq \in Nat /\ SeqPerVersion <= savedSeq /\ savedSeq <= appliedSeq /\ appliedSeq \in Nat
      /\ savedReadAt \in [Functions -> Versions]
  BY <1>1 DEF Typed, StreamTyped, ModelTyped, Known, RequestsKnown
<1>3. /\ openVersion' = Latest /\ file' = Latest
      /\ program' \in Versions /\ spoiled' \subseteq spoiled \cup {"start"}
      /\ cachedFrom' = 0 /\ cachedTo' = 0 /\ cachedEvents' = <<>>
      /\ dead' = FALSE /\ inbox' = <<>> /\ work' = NoWork
      /\ stream' = "starting" /\ batch' = <<>> /\ appliedSeq' = savedSeq
      /\ paused' = FALSE /\ needsResync' = FALSE
      /\ readAt' = savedReadAt
      /\ UNCHANGED <<serverVars, mode, savedSeq, savedReadAt>>
  BY <1>1 DEF Restart, Versions
<1>4. faults' \in 0..MaxFaults
  BY <1>1, FaultCounted DEF Restart
<1>5. Requests'
  BY <1>2, <1>3, NoRequests
<1>12. <<>> \in Seq(Event)
  BY EmptySeq
<1>6. ServerTyped' /\ StreamTyped' /\ ModelTyped'
  <2>1. ServerTyped'
    BY <1>1, <1>3 DEF Typed, ServerTyped, serverVars, Latest
  <2>2. StreamTyped'
    BY <1>2, <1>3, <1>12 DEF StreamTyped, Streams
  <2>3. ModelTyped'
    BY <1>1, <1>2, <1>3, <1>4 DEF Typed, ModelTyped
  <2> QED
    BY <2>1, <2>2, <2>3
<1>7. WorkerTyped'
  BY <1>1, <1>3, <1>12 DEF Typed, WorkerTyped
<1>8. PositionKnown'
  <2>1. VersionOf(savedSeq) <= VersionOf(appliedSeq) /\ VersionOf(savedSeq) \in Nat /\ VersionOf(appliedSeq) \in Nat
    BY <1>2, VersionOfGrows, VersionOfIs
  <2> QED
    BY <1>1, <1>3, <2>1 DEF Inv, PositionKnown
<1>9. EventsOf(<<>>, 0)
  BY NoEvents
<1>10. CacheKnown'
  <2>1. EventsOf(cachedEvents', cachedTo')
    BY <1>3, <1>9
  <2>2. EventsOf(cachedEvents, cachedTo)'
    BY <2>1 DEF EventsOf
  <2> QED
    BY <1>3, <2>2 DEF CacheKnown
<1>11. BatchKnown'
  BY <1>3 DEF BatchKnown
<1> QED
  BY <1>5, <1>6, <1>7, <1>8, <1>10, <1>11 DEF Inv, Typed, Requests

\* After nothing.
LEMMA InvStutter == ASSUME Inv, UNCHANGED vars PROVE Inv'
<1>1. UNCHANGED <<serverVars, workerVars, streamVars, needsResync, modelVars, spoiled, faults>>
  BY DEF vars
<1>2. UNCHANGED <<history, rolledBack, mode, dead, openVersion, program, file, cachedFrom, cachedTo,
                  cachedEvents, inbox, work, stream, batch, appliedSeq, paused, readAt, savedSeq, savedReadAt>>
  BY <1>1 DEF serverVars, workerVars, programVars, cacheVars, streamVars, modelVars
<1>3. Typed'
  BY <1>1, <1>2 DEF Inv, Typed, ServerTyped, WorkerTyped, RequestsTyped, StreamTyped, ModelTyped, Latest
<1>4. Known' /\ PositionKnown' /\ CacheKnown' /\ BatchKnown'
  BY <1>1, <1>2 DEF Inv, Known, RequestsKnown, WorkKnown, PositionKnown, CacheKnown, EventsOf, BatchKnown
<1> QED
  BY <1>3, <1>4 DEF Inv

\* The steps there are.
LEMMA Steps ==
    Next => \/ CheckIn \/ Rollback \/ AnswerCaughtUp \/ AnswerCached \/ OpenAndTranslate \/ Silent \/ Batched
            \/ Restart
BY DEF Next, Worker, Consumer, Silent, Batched

\* Every step keeps the invariant.
LEMMA InvNext == ASSUME Inv, [Next]_vars PROVE Inv'
BY Steps, InvServer, InvCaughtUp, InvCached, InvOpen, InvSilent, InvBatched, InvRestart, InvStutter

\* The inductive invariant holds in every reachable state: no request waits from another position
\* than the one the stream is at, and whatever is cached or handed over is of the version the program
\* was opened at.
THEOREM SpecInv == Spec => []Inv
<1>1. Init => Inv
  BY InvInit
<1>2. Inv /\ [Next]_vars => Inv'
  BY InvNext
<1> QED
  BY <1>1, <1>2, PTL DEF Spec

\* Type correctness of the follower, at most one request with a caller included.
THEOREM SpecTypeOK == Spec => []TypeOK
<1>1. Inv => TypeOK
  BY TypeOKIs DEF Inv, Known
<1> QED
  BY <1>1, SpecInv, PTL

-----------------------------------------------------------------------------
(* The program the worker has open.                                          *)

\* The version the worker believes its program and its checkout are at is the one they are at,
\* unless a check-in came in between at a start, or a step failed after an update.
OpenKnown ==
    /\ "start" \notin spoiled => program = openVersion
    /\ mode = "checkout" /\ "update" \notin spoiled => file = openVersion

\* Every step keeps the versions of the program and the checkout told apart.
LEMMA OpenNext == ASSUME Inv, OpenKnown, [Next]_vars PROVE OpenKnown'
<1>1. openVersion \in Nat /\ Latest \in Nat
  BY DEF Inv, Typed, WorkerTyped, ServerTyped, Versions
<1>2. CASE CheckIn \/ Rollback
  <2>1. UNCHANGED <<program, openVersion, file, mode>> /\ spoiled \subseteq spoiled'
    BY <1>2 DEF CheckIn, Rollback, workerVars, programVars
  <2> QED
    BY <2>1 DEF OpenKnown
<1>3. CASE AnswerCaughtUp
  <2>1. /\ openVersion' = IF openVersion >= Latest THEN openVersion ELSE Latest
        /\ program' = IF openVersion < Latest THEN Latest ELSE program
        /\ file' = IF openVersion < Latest /\ mode = "checkout" THEN Latest ELSE file
        /\ UNCHANGED <<mode, spoiled>>
    BY <1>3, CaughtUpStep
  <2>2. CASE openVersion < Latest
    <3>1. openVersion' = Latest
      BY <1>1, <2>1, <2>2
    <3>2. program' = Latest /\ (mode = "checkout" => file' = Latest) /\ mode' = mode
      BY <2>1, <2>2
    <3> QED
      BY <3>1, <3>2 DEF OpenKnown
  <2>3. CASE openVersion >= Latest
    BY <1>1, <2>1, <2>3 DEF OpenKnown
  <2> QED
    BY <1>1, <2>2, <2>3
<1>4. CASE AnswerCached
  BY <1>4, CachedStep DEF OpenKnown, programVars
<1>5. CASE OpenAndTranslate
  <2>1. openVersion' = work.to /\ program' = NewVersion(work.to)
        /\ file' = (IF mode = "checkout" THEN work.to ELSE file)
        /\ UNCHANGED <<mode, spoiled>>
    BY <1>5, OpenStep
  <2> QED
    BY <2>1 DEF OpenKnown, NewVersion
<1>6. CASE Silent
  BY <1>6, SilentSteps DEF Quiet, OpenKnown
<1>7. CASE Batched
  <2>1. BatchEnds
    BY <1>7, TakenSteps, FailedStep DEF Batched
  <2> QED
    BY <2>1 DEF BatchEnds, OpenKnown, programVars
<1>8. CASE Restart
  BY <1>8 DEF Restart, OpenKnown
<1>9. CASE UNCHANGED vars
  BY <1>9 DEF vars, workerVars, programVars, OpenKnown
<1> QED
  BY <1>2, <1>3, <1>4, <1>5, <1>6, <1>7, <1>8, <1>9, Steps

\* The worker knows which version it has open, as the code that compares against the open program
\* assumes.
THEOREM SpecOpenKnown == Spec => []OpenKnown
<1>1. Init => OpenKnown
  BY DEF Init, OpenKnown
<1>2. Inv /\ OpenKnown /\ [Next]_vars => OpenKnown'
  BY OpenNext
<1> QED
  BY <1>1, <1>2, SpecInv, PTL DEF Spec

\* BatchReadsItsVersion: a batch is re-read from the version its events describe, through every
\* check-in, timeout, exit and restart between the two.
THEOREM SpecBatchReadsItsVersion == Spec => []BatchReadsItsVersion
<1>1. Inv /\ OpenKnown => BatchReadsItsVersion
  <2> SUFFICES ASSUME Inv, OpenKnown, Free({"start"}), NEW i \in 1..Len(batch)
               PROVE  VersionOf(batch[i].seq) = program
    BY DEF BatchReadsItsVersion
  <2>1. program = openVersion
    BY DEF OpenKnown, Free
  <2>2. batch # <<>>
    <3>1. batch = <<>> => Len(batch) = 0
      OBVIOUS
    <3> QED
      BY <3>1
  <2>3. stream = "batch"
    BY <2>2 DEF Inv, Typed, StreamTyped
  <2> QED
    BY <2>1, <2>3 DEF Inv, BatchKnown
<1> QED
  BY <1>1, SpecInv, SpecOpenKnown, PTL

-----------------------------------------------------------------------------
(* Where the worker and the stream are, and what a step read.                *)

\* As long as nothing was rolled back, nobody is ahead of the server.
Behind == ~rolledBack =>
    /\ openVersion <= Latest /\ cachedTo <= Latest /\ work.to <= Latest
    /\ VersionOf(appliedSeq) <= Latest

TouchedIn(h, from, to) == UNION {h[v].touched : v \in (from + 1)..to}

\* A step's range ends at a version there is, and once its end was seen to be the latest, what
\* was read is all of it.
WorkFresh == "rollback" \notin spoiled /\ work # NoWork =>
    /\ work.from < work.to /\ work.to <= Latest
    /\ work.step = "check" /\ work.to = Latest => work.touched = TouchedIn(history, work.from, work.to)
    /\ work.step = "open" => work.touched = TouchedIn(history, work.from, work.to)

\* How the work on a request goes on while the stream waits.
WorkMoves ==
    \/ work' = work
    \/ work' = NoWork
    \/ /\ work' = [step |-> "read", from |-> VersionOf(appliedSeq), to |-> Latest, touched |-> {}]
       /\ VersionOf(appliedSeq) < Latest
    \/ /\ work.step = "read"
       /\ work' = [work EXCEPT !.step = "check", !.touched = ChangeSet(work.from, work.to)]
    \/ work.step = "check" /\ work.to = Latest /\ work' = [work EXCEPT !.step = "open"]
    \/ work.step = "check" /\ work.to # Latest /\ work' = [work EXCEPT !.step = "read", !.to = Latest]

\* The steps that answer nobody move the work on, drop it or leave it.
LEMMA WorkSteps == ASSUME Inv, Silent PROVE WorkMoves
<1>1. Typed /\ Known
  BY DEF Inv
<1>2. CASE StartCompute
  <2>1. inbox # <<>> /\ From(Head(inbox).since) = VersionOf(appliedSeq)
    <3>1. inbox # <<>>
      BY <1>2 DEF StartCompute
    <3> QED
      BY <1>1, <3>1, Asked
  <2> QED
    BY <1>2, <2>1 DEF StartCompute, WorkMoves
<1>3. CASE ReadChangeSet
  BY <1>3 DEF ReadChangeSet, WorkMoves
<1>4. CASE CheckLatest
  BY <1>4 DEF CheckLatest, WorkMoves
<1>5. CASE OpenFails \/ UpdateFails \/ RequestFails \/ WorkerExits
  BY <1>5 DEF OpenFails, UpdateFails, RequestFails, WorkerExits, RepliesFailure, WorkMoves
<1>6. CASE VerifyResume \/ Poll \/ CallTimesOut \/ Pause \/ Resume
  BY <1>6 DEF VerifyResume, Poll, CallTimesOut, Pause, Resume, workerVars, WorkMoves
<1> QED
  BY <1>2, <1>3, <1>4, <1>5, <1>6 DEF Silent

\* The numbers an invariant state holds.
LEMMA Numbers ==
    ASSUME Inv
    PROVE  /\ Latest \in Nat /\ Latest >= 1 /\ rolledBack \in BOOLEAN
           /\ openVersion \in Nat /\ cachedTo \in Nat /\ cachedFrom \in Nat
           /\ work \in Work /\ work.from \in Nat /\ work.to \in Nat
           /\ appliedSeq \in Nat /\ VersionOf(appliedSeq) \in Nat
           /\ savedSeq \in Nat /\ VersionOf(savedSeq) \in Nat /\ savedSeq <= appliedSeq
           /\ VersionOf(savedSeq) <= VersionOf(appliedSeq)
           /\ Typed /\ Known /\ ServerTyped
<1>1. Typed /\ Known
  BY DEF Inv
<1>2. Latest \in Nat /\ Latest >= 1 /\ rolledBack \in BOOLEAN /\ ServerTyped
  BY <1>1 DEF Typed, ServerTyped, Versions
<1>3. openVersion \in Nat /\ cachedTo \in Nat /\ cachedFrom \in Nat
  <2>1. Versions \subseteq Nat /\ {0} \cup Versions \subseteq Nat
    BY DEF Versions
  <2> QED
    BY <1>1, <2>1 DEF Typed, WorkerTyped
<1>4. work \in Work /\ work.from \in Nat /\ work.to \in Nat
  BY <1>1 DEF Typed, RequestsTyped, Work
<1>5. appliedSeq \in Nat /\ savedSeq \in Nat /\ savedSeq <= appliedSeq
  BY <1>1 DEF Typed, StreamTyped, Known, RequestsKnown
<1>6. /\ VersionOf(appliedSeq) \in Nat /\ VersionOf(savedSeq) \in Nat
      /\ VersionOf(savedSeq) <= VersionOf(appliedSeq)
  BY <1>5, VersionOfIs, VersionOfGrows
<1> QED
  BY <1>1, <1>2, <1>3, <1>4, <1>5, <1>6

\* A range that ends at a version both histories have is the same in both.
LEMMA SameTouched ==
    ASSUME NEW h, NEW g, NEW from \in Nat, NEW to \in Nat, NEW n \in Nat, to <= n,
           \A v \in 1..n : g[v] = h[v]
    PROVE  TouchedIn(g, from, to) = TouchedIn(h, from, to)
<1>1. \A v \in (from + 1)..to : g[v] = h[v]
  <2> TAKE v \in (from + 1)..to
  <2>1. v \in 1..n
    OBVIOUS
  <2> QED
    BY <2>1
<1> QED
  BY <1>1 DEF TouchedIn

Fresh == Behind /\ WorkFresh

\* A worker at rest has read nothing that could be stale.
LEMMA FreshIdle == ASSUME work' = NoWork PROVE WorkFresh'
BY DEF WorkFresh

\* What was read stays what the history holds, through the steps that answer nobody,
LEMMA FreshSilent == ASSUME Inv, Fresh, Silent PROVE Fresh'
<1>1. /\ Latest \in Nat /\ work \in Work /\ appliedSeq \in Nat /\ VersionOf(appliedSeq) \in Nat
      /\ openVersion \in Nat /\ cachedTo \in Nat /\ work.from \in Nat /\ work.to \in Nat
      /\ rolledBack \in BOOLEAN
  BY Numbers
<1>2. Quiet /\ WorkMoves
  BY SilentSteps, WorkSteps
<1>3. /\ UNCHANGED <<history, rolledBack, openVersion, cachedFrom, cachedTo, appliedSeq>> /\ Latest' = Latest
      /\ spoiled \subseteq spoiled'
  BY <1>2 DEF Quiet, serverVars, cacheVars, Latest
<1>4. WorkFresh' /\ (~rolledBack => work'.to <= Latest)
  <2>1. CASE work' = work
    BY <1>1, <1>3, <2>1 DEF Fresh, Behind, WorkFresh
  <2>2. CASE work' = NoWork
    BY <1>1, <2>2, FreshIdle DEF NoWork
  <2>3. CASE /\ work' = [step |-> "read", from |-> VersionOf(appliedSeq), to |-> Latest, touched |-> {}]
             /\ VersionOf(appliedSeq) < Latest
    <3>1. work'.step = "read" /\ work'.from < work'.to /\ work'.to = Latest
      BY <2>3
    <3> QED
      BY <1>1, <1>3, <3>1 DEF WorkFresh
  <2>4. CASE /\ work.step = "read"
             /\ work' = [work EXCEPT !.step = "check", !.touched = ChangeSet(work.from, work.to)]
    <3>1. work'.step = "check" /\ work'.from = work.from /\ work'.to = work.to
          /\ work'.touched = ChangeSet(work.from, work.to)
      BY <1>1, <2>4 DEF Work
    <3>2. work # NoWork
      BY <2>4 DEF NoWork
    <3>3. work.to = Latest => ChangeSet(work.from, work.to) = TouchedIn(history, work.from, work.to)
      BY DEF ChangeSet, TouchedIn
    <3> QED
      BY <1>1, <1>3, <3>1, <3>2, <3>3 DEF Fresh, Behind, WorkFresh
  <2>5. CASE work.step = "check" /\ work.to = Latest /\ work' = [work EXCEPT !.step = "open"]
    <3>1. work'.step = "open" /\ work'.from = work.from /\ work'.to = work.to
          /\ work'.touched = work.touched
      BY <1>1, <2>5 DEF Work
    <3>2. work # NoWork
      BY <2>5 DEF NoWork
    <3> QED
      BY <1>1, <1>3, <2>5, <3>1, <3>2 DEF Fresh, Behind, WorkFresh
  <2>6. CASE work.step = "check" /\ work.to # Latest
             /\ work' = [work EXCEPT !.step = "read", !.to = Latest]
    <3>1. work'.step = "read" /\ work'.from = work.from /\ work'.to = Latest
      BY <1>1, <2>6 DEF Work
    <3>2. work # NoWork
      BY <2>6 DEF NoWork
    <3> QED
      BY <1>1, <1>3, <2>6, <3>1, <3>2 DEF Fresh, Behind, WorkFresh
  <2> QED
    BY <1>2, <2>1, <2>2, <2>3, <2>4, <2>5, <2>6 DEF WorkMoves
<1> QED
  BY <1>1, <1>3, <1>4 DEF Fresh, Behind

\* through the server moving under the step,
LEMMA FreshServer == ASSUME Inv, Fresh, CheckIn \/ Rollback PROVE Fresh'
<1>1. /\ Latest \in Nat /\ work \in Work /\ VersionOf(appliedSeq) \in Nat
      /\ openVersion \in Nat /\ cachedTo \in Nat /\ work.from \in Nat /\ work.to \in Nat
      /\ rolledBack \in BOOLEAN /\ ServerTyped
  BY Numbers
<1>2. CASE CheckIn
  <2>1. /\ Latest' = Latest + 1 /\ \A v \in 1..Latest : history'[v] = history[v]
        /\ UNCHANGED <<rolledBack, work, openVersion, cachedTo, appliedSeq>> /\ spoiled \subseteq spoiled'
    BY <1>1, <1>2, HistoryGrows DEF workerVars, programVars, cacheVars, streamVars
  <2>2. Behind'
    BY <1>1, <2>1 DEF Fresh, Behind
  <2>3. work.to <= Latest => TouchedIn(history', work.from, work.to) = TouchedIn(history, work.from, work.to)
    <3> DEFINE from == work.from
               to == work.to
               n == Latest
    <3>1. from \in Nat /\ to \in Nat /\ n \in Nat /\ \A v \in 1..n : history'[v] = history[v]
      BY <1>1, <2>1
    <3> HIDE DEF from, to, n
    <3>2. to <= n => TouchedIn(history', from, to) = TouchedIn(history, from, to)
      BY <3>1, SameTouched
    <3> QED
      BY <3>2 DEF from, to, n
  <2>4. WorkFresh'
    <3> SUFFICES ASSUME "rollback" \notin spoiled', work' # NoWork
                 PROVE  /\ work'.from < work'.to /\ work'.to <= Latest'
                        /\ work'.step = "check" /\ work'.to = Latest' =>
                               work'.touched = TouchedIn(history', work'.from, work'.to)
                        /\ work'.step = "open" => work'.touched = TouchedIn(history', work'.from, work'.to)
      BY DEF WorkFresh
    <3>1. work.from < work.to /\ work.to <= Latest /\ work' = work
          /\ (work.step = "open" => work.touched = TouchedIn(history, work.from, work.to))
      BY <2>1 DEF Fresh, WorkFresh
    <3>2. work.to # Latest' /\ work.to <= Latest'
      BY <1>1, <2>1, <3>1
    <3> QED
      BY <2>3, <3>1, <3>2
  <2> QED
    BY <2>2, <2>4 DEF Fresh
<1>3. CASE Rollback
  <2>1. /\ rolledBack' = TRUE /\ work' = work
        /\ spoiled' = spoiled \cup (IF work # NoWork THEN {"rollback"} ELSE {})
    BY <1>1, <1>3, HistoryShrinks DEF workerVars
  <2>2. Behind'
    BY <2>1 DEF Behind
  <2>3. WorkFresh'
    BY <2>1 DEF WorkFresh
  <2> QED
    BY <2>2, <2>3 DEF Fresh
<1> QED
  BY <1>2, <1>3

\* and through every step.
LEMMA FreshNext == ASSUME Inv, Fresh, [Next]_vars PROVE Fresh'
<1>1. /\ Latest \in Nat /\ Latest >= 1 /\ VersionOf(appliedSeq) \in Nat /\ appliedSeq \in Nat /\ savedSeq \in Nat
      /\ openVersion \in Nat /\ cachedTo \in Nat /\ NoWork.to = 0
      /\ rolledBack \in BOOLEAN /\ Typed /\ Known
  BY Numbers DEF NoWork
<1>2. CASE AnswerCaughtUp
  <2>1. /\ openVersion' = IF openVersion >= Latest THEN openVersion ELSE Latest
        /\ AnswersHead /\ (ToldNothing \/ ToldPosition(openVersion'))
        /\ UNCHANGED <<serverVars, cacheVars, modelVars>>
    BY <1>2, CaughtUpStep
  <2>2. openVersion' \in Nat
    BY <1>1, <2>1
  <2>3. VersionOf(appliedSeq') \in {VersionOf(appliedSeq), openVersion'}
    BY <1>1, <2>1, <2>2, AnswerKeeps DEF Told
  <2>4. work' = NoWork /\ UNCHANGED <<history, rolledBack, cachedTo>> /\ Latest' = Latest
    BY <2>1 DEF AnswersHead, serverVars, cacheVars, Latest
  <2>5. ~rolledBack => openVersion' <= Latest
    BY <1>1, <2>1 DEF Fresh, Behind
  <2> QED
    BY <1>1, <2>2, <2>3, <2>4, <2>5, FreshIdle DEF Fresh, Behind
<1>3. CASE AnswerCached
  <2>1. /\ AnswersHead /\ StepTold(cachedEvents, openVersion)
        /\ UNCHANGED <<serverVars, programVars, cacheVars, modelVars>>
    BY <1>3, CachedStep
  <2>2. VersionOf(appliedSeq') \in {VersionOf(appliedSeq), openVersion}
    BY <1>1, <2>1, StepKeeps
  <2>3. work' = NoWork /\ UNCHANGED <<history, rolledBack, cachedTo, openVersion>> /\ Latest' = Latest
    BY <2>1 DEF AnswersHead, serverVars, programVars, cacheVars, Latest
  <2> QED
    BY <1>1, <2>2, <2>3, FreshIdle DEF Fresh, Behind
<1>4. CASE OpenAndTranslate
  <2>1. /\ AnswersHead /\ StepTold(cachedEvents', work.to) /\ work.to \in Versions /\ work.to <= Latest
        /\ UNCHANGED <<serverVars, modelVars>> /\ openVersion' = work.to /\ cachedTo' = work.to
    BY <1>4, OpenStep
  <2>2. VersionOf(appliedSeq') \in {VersionOf(appliedSeq), work.to} /\ work.to \in Nat
    BY <1>1, <2>1, StepKeeps DEF Versions
  <2>3. work' = NoWork /\ UNCHANGED <<history, rolledBack>> /\ Latest' = Latest
    BY <2>1 DEF AnswersHead, serverVars, Latest
  <2> QED
    BY <1>1, <2>1, <2>2, <2>3, FreshIdle DEF Fresh, Behind
<1>5. CASE Batched
  <2>1. BatchEnds /\ VersionOf(appliedSeq') \in {VersionOf(appliedSeq), openVersion}
    BY <1>5, TakenSteps, FailedStep DEF Batched
  <2>2. work' = NoWork /\ UNCHANGED <<history, rolledBack, cachedTo, openVersion>> /\ Latest' = Latest
    BY <2>1 DEF BatchEnds, serverVars, programVars, cacheVars, Latest
  <2> QED
    BY <1>1, <2>1, <2>2, FreshIdle DEF Fresh, Behind
<1>6. CASE Restart
  <2>1. /\ openVersion' = Latest /\ cachedTo' = 0 /\ work' = NoWork /\ appliedSeq' = savedSeq
        /\ UNCHANGED <<history, rolledBack>> /\ Latest' = Latest
    BY <1>6 DEF Restart, serverVars, Latest
  <2>2. VersionOf(savedSeq) <= VersionOf(appliedSeq) /\ VersionOf(savedSeq) \in Nat
    BY Numbers
  <2> QED
    BY <1>1, <2>1, <2>2, FreshIdle DEF Fresh, Behind
<1>7. CASE UNCHANGED vars
  <2>1. UNCHANGED <<history, rolledBack, openVersion, cachedTo, work, appliedSeq, spoiled>> /\ Latest' = Latest
    BY <1>7 DEF vars, serverVars, workerVars, programVars, cacheVars, streamVars, Latest
  <2> QED
    BY <2>1 DEF Fresh, Behind, WorkFresh
<1> QED
  BY <1>2, <1>3, <1>4, <1>5, <1>6, <1>7, FreshSilent, FreshServer, Steps

\* As long as nothing was rolled back during it, a step opens with everything its range touched,
\* however often checkLatest() sent it back.
THEOREM SpecFresh == Spec => []Fresh
<1>1. Init => Fresh
  <2> SUFFICES ASSUME Init PROVE Fresh
    OBVIOUS
  <2>1. Latest = 1 /\ openVersion = 1 /\ cachedTo = 0 /\ work = NoWork /\ NoWork.to = 0 /\ appliedSeq = SeqPerVersion
    BY DEF Init, Latest, NoWork
  <2>2. VersionOf(SeqPerVersion) = 1
    <3>1. 1 * SeqPerVersion + 0 = SeqPerVersion /\ VersionOf(1 * SeqPerVersion + 0) = 1
      BY Spacing, VersionOfEvent
    <3> QED
      BY <3>1
  <2> QED
    BY <2>1, <2>2 DEF Fresh, Behind, WorkFresh
<1>2. Inv /\ Fresh /\ [Next]_vars => Fresh'
  BY FreshNext
<1> QED
  BY <1>1, <1>2, SpecInv, PTL DEF Spec

-----------------------------------------------------------------------------
(* What the versions say of each other.                                      *)

Changed(h, from, to) == {v \in 1..Len(h) : from < v /\ v <= to}

Sees(h, v, f) == h[v].signature[f]

\* A function looks as before to its callers until it is touched, and, unless a signature was
\* restored, whatever looks the same in two versions looked so in between.
HistoryTold ==
    /\ \A f \in Functions : \A u, w \in 1..Len(history) :
          u <= w /\ (\A v \in Changed(history, u, w) : f \notin history[v].touched)
          => Sees(history, u, f) = Sees(history, w, f)
    /\ "restored" \notin spoiled =>
          \A f \in Functions : \A u, v, w \in 1..Len(history) :
              u <= v /\ v <= w /\ Sees(history, u, f) = Sees(history, w, f)
              => Sees(history, v, f) = Sees(history, w, f)

\* A check-in changes what callers see of the functions it touches alone.
LEMMA ToldGrows == ASSUME ServerTyped, HistoryTold, CheckIn PROVE HistoryTold'
<1> DEFINE n == Len(history)
<1>1. PICK c \in CheckIns :
           /\ \A f \in Functions \ c.touched : c.signature[f] = history[Latest].signature[f]
           /\ history' = Append(history, c)
           /\ spoiled' = spoiled \cup (IF rolledBack THEN {"number"} ELSE {})
                                 \cup (IF Restores(c) THEN {"restored"} ELSE {})
  BY DEF CheckIn
<1>2. history \in Seq(CheckIns \cup {Nothing}) /\ n \in Nat /\ n >= 1
  BY DEF ServerTyped, Versions, Latest
<1>3. /\ Len(history') = n + 1 /\ history'[n + 1] = c
      /\ \A v \in 1..n : history'[v] = history[v]
  BY <1>1, <1>2
<1> HIDE DEF n
<1>4. \A v \in 1..(n + 1) : v \in 1..n \/ v = n + 1
  BY <1>2
<1>5. n \in 1..n /\ n + 1 \in 1..(n + 1) /\ \A v \in 1..n : v <= n /\ v \in 1..(n + 1) /\ ~ (n + 1 <= v)
  BY <1>2
<1>6. \A f \in Functions \ c.touched : Sees(history', n + 1, f) = Sees(history, n, f)
  BY <1>1, <1>3 DEF Sees, Latest, n
<1>7. \A v \in 1..n : \A f : Sees(history', v, f) = Sees(history, v, f)
  BY <1>3 DEF Sees
<1>8. ASSUME NEW f \in Functions, NEW u \in 1..(n + 1), NEW w \in 1..(n + 1), u <= w,
             \A v \in Changed(history', u, w) : f \notin history'[v].touched
      PROVE  Sees(history', u, f) = Sees(history', w, f)
  <2>1. CASE w \in 1..n
    <3>1. u \in 1..n
      BY <1>2, <1>8, <2>1
    <3>2. \A v \in Changed(history, u, w) : v \in Changed(history', u, w) /\ history'[v] = history[v]
      BY <1>3, <1>5 DEF Changed, n
    <3>3. \A v \in Changed(history, u, w) : f \notin history[v].touched
      BY <1>8, <3>2
    <3>4. Sees(history, u, f) = Sees(history, w, f)
      BY <1>8, <2>1, <3>1, <3>3 DEF HistoryTold, n
    <3> QED
      BY <1>7, <2>1, <3>1, <3>4
  <2>2. CASE w = n + 1 /\ u \in 1..n
    <3>1. n + 1 \in Changed(history', u, w)
      BY <1>2, <1>3, <1>5, <2>2 DEF Changed
    <3>2. f \notin c.touched
      BY <1>3, <1>8, <3>1
    <3>3. \A v \in Changed(history, u, n) : v \in Changed(history', u, w) /\ history'[v] = history[v]
      BY <1>2, <1>3, <1>5, <2>2 DEF Changed, n
    <3>4. \A v \in Changed(history, u, n) : f \notin history[v].touched
      BY <1>8, <3>3
    <3>5. Sees(history, u, f) = Sees(history, n, f)
      BY <1>5, <2>2, <3>4 DEF HistoryTold, n
    <3> QED
      BY <1>6, <1>7, <2>2, <3>2, <3>5
  <2>3. CASE w = n + 1 /\ u = n + 1
    BY <2>3
  <2> QED
    BY <1>4, <2>1, <2>2, <2>3
<1>9. ASSUME "restored" \notin spoiled', NEW f \in Functions,
             NEW u \in 1..(n + 1), NEW v \in 1..(n + 1), NEW w \in 1..(n + 1), u <= v, v <= w,
             Sees(history', u, f) = Sees(history', w, f)
      PROVE  Sees(history', v, f) = Sees(history', w, f)
  <2>1. "restored" \notin spoiled /\ ~Restores(c)
    BY <1>1, <1>9
  <2>2. CASE w \in 1..n
    <3>1. u \in 1..n /\ v \in 1..n
      BY <1>2, <1>9, <2>2
    <3> QED
      BY <1>7, <1>9, <2>1, <2>2, <3>1 DEF HistoryTold, n
  <2>3. CASE w = n + 1 /\ v \in 1..n
    <3>1. u \in 1..n
      BY <1>2, <1>9, <2>3
    <3>2. Sees(history, n, f) = Sees(history', w, f)
      <4>1. CASE f \in c.touched
        <5>1. history[u].signature[f] = c.signature[f] => history[Latest].signature[f] = c.signature[f]
          BY <2>1, <3>1, <4>1 DEF Restores, Latest, n
        <5> QED
          BY <1>3, <1>7, <1>9, <2>3, <3>1, <5>1 DEF Sees, Latest, n
      <4>2. CASE f \notin c.touched
        BY <1>6, <2>3, <4>2
      <4> QED
        BY <4>1, <4>2
    <3>3. Sees(history, u, f) = Sees(history, n, f)
      BY <1>7, <1>9, <3>1, <3>2
    <3>4. Sees(history, v, f) = Sees(history, n, f)
      BY <1>5, <1>9, <2>1, <2>3, <3>1, <3>3 DEF HistoryTold, n
    <3> QED
      BY <1>7, <2>3, <3>2, <3>4
  <2>4. CASE w = n + 1 /\ v = n + 1
    BY <2>4
  <2> QED
    BY <1>4, <2>2, <2>3, <2>4
<1> QED
  BY <1>3, <1>8, <1>9 DEF HistoryTold

\* A rollback leaves versions that say of each other what they said.
LEMMA ToldShrinks == ASSUME ServerTyped, HistoryTold, Rollback PROVE HistoryTold'
<1> DEFINE m == Len(history')
<1>1. /\ \A v \in 1..m : v \in 1..Len(history) /\ history'[v] = history[v]
      /\ spoiled \subseteq spoiled'
  BY HistoryShrinks DEF Latest
<1>2. m \in Nat /\ Len(history) \in Nat /\ m <= Len(history)
  <2>1. m = Len(history) - 1 /\ m \in Nat /\ Len(history) \in Nat
    BY HistoryShrinks DEF Latest
  <2> HIDE DEF m
  <2> QED
    BY <2>1
<1> HIDE DEF m
<1>3. \A v \in 1..m : \A f : Sees(history', v, f) = Sees(history, v, f)
  BY <1>1 DEF Sees
<1>4. ASSUME NEW f \in Functions, NEW u \in 1..m, NEW w \in 1..m, u <= w,
             \A v \in Changed(history', u, w) : f \notin history'[v].touched
      PROVE  Sees(history', u, f) = Sees(history', w, f)
  <2>1. \A v \in Changed(history, u, w) : v \in Changed(history', u, w) /\ history'[v] = history[v]
    <3>1. \A v \in 1..Len(history) : v <= w => v \in 1..m
      BY <1>2
    <3> QED
      BY <1>1, <3>1 DEF Changed, m
  <2>2. \A v \in Changed(history, u, w) : f \notin history[v].touched
    BY <1>4, <2>1
  <2> QED
    BY <1>1, <1>3, <1>4, <2>2 DEF HistoryTold
<1>5. ASSUME "restored" \notin spoiled', NEW f \in Functions, NEW u \in 1..m, NEW v \in 1..m, NEW w \in 1..m,
             u <= v, v <= w, Sees(history', u, f) = Sees(history', w, f)
      PROVE  Sees(history', v, f) = Sees(history', w, f)
  BY <1>1, <1>3, <1>5 DEF HistoryTold
<1> QED
  BY <1>4, <1>5 DEF HistoryTold, m

\* Nothing else touches the history, or takes back what has happened.
LEMMA ToldNext == ASSUME Inv, HistoryTold, [Next]_vars PROVE HistoryTold'
<1>1. ServerTyped
  BY Numbers
<1>2. CASE CheckIn
  BY <1>1, <1>2, ToldGrows
<1>3. CASE Rollback
  BY <1>1, <1>3, ToldShrinks
<1>4. ASSUME UNCHANGED history, spoiled \subseteq spoiled' PROVE HistoryTold'
  BY <1>4 DEF HistoryTold, Changed, Sees
<1>5. CASE AnswerCaughtUp \/ AnswerCached \/ OpenAndTranslate
  BY <1>4, <1>5 DEF AnswerCaughtUp, AnswerCached, OpenAndTranslate, serverVars
<1>6. CASE Silent
  <2>1. UNCHANGED history /\ spoiled \subseteq spoiled'
    BY <1>6, SilentSteps DEF Quiet, serverVars
  <2> QED
    BY <1>4, <2>1
<1>7. CASE Batched
  <2>1. BatchEnds
    BY <1>7, TakenSteps, FailedStep DEF Batched
  <2> QED
    BY <1>4, <2>1 DEF BatchEnds, serverVars
<1>8. CASE Restart
  BY <1>4, <1>8 DEF Restart, serverVars
<1>9. CASE UNCHANGED vars
  BY <1>4, <1>9 DEF vars, serverVars
<1> QED
  BY <1>2, <1>3, <1>5, <1>6, <1>7, <1>8, <1>9, Steps

\* What the versions on the server say of each other, through check-ins and rollbacks.
THEOREM SpecHistoryTold == Spec => []HistoryTold
<1>1. Init => HistoryTold
  <2> SUFFICES ASSUME Init PROVE HistoryTold
    OBVIOUS
  <2>1. Len(history) = 1
    BY DEF Init
  <2>2. \A u \in 1..Len(history) : u = 1
    BY <2>1
  <2> QED
    BY <2>2 DEF HistoryTold
<1>2. Inv /\ HistoryTold /\ [Next]_vars => HistoryTold'
  BY ToldNext
<1> QED
  BY <1>1, <1>2, SpecInv, PTL DEF Spec

-----------------------------------------------------------------------------
(* What the events of a step are good for.                                   *)

\* Two versions on the server, the first before the second.
Spans(h, from, to) == 1 <= from /\ from < to /\ to <= Len(h)

Names(h, events, from, to) ==
    \A v \in Changed(h, from, to) : \A f \in h[v].touched :
        \E i \in 1..Len(events) : events[i].key = f

Others(h, from, to) == Spans(h, from, to) => h[from].layout = h[to].layout

Calls(h, events, from, to) ==
    Spans(h, from, to) => \A f \in Functions : Sees(h, from, f) # Sees(h, to, f) =>
        \E i \in 1..Len(events) : events[i].key = f /\ ~events[i].callersUnaffected

\* No step has more events than the page the stream asks for.
StepsFit == MaxEvents <= Limit \/ Cardinality(Functions) < Limit

NamesHold(s) == StepsFit /\ s \cap {"number", "rollback"} = {}
OthersHold(s) == StepsFit /\ s \cap {"update", "start", "number"} = {}
CallsHold(s) == StepsFit /\ s \cap {"update", "start", "number", "rollback"} = {}

\* Events that do not stop the consumer say everything it has to hear of the versions between
\* two, as far as what has happened leaves that true.
Tells(h, s, events, from, to) ==
    \/ Stopping(events)
    \/ /\ NamesHold(s) => Names(h, events, from, to)
       /\ OthersHold(s) => Others(h, from, to)
       /\ CallsHold(s) => Calls(h, events, from, to)

\* The versions up to one are those there were.
Kept(h, g, to) == \A v \in 1..Len(g) : v <= to => v \in 1..Len(h) /\ g[v] = h[v]

\* What events tell survives a history that keeps the range and more that may have happened.
LEMMA TellsKept ==
    ASSUME NEW h, NEW g, NEW s, NEW t, NEW events, NEW from \in Nat, NEW to \in Nat, s \subseteq t,
           Len(h) \in Nat, Len(g) \in Nat,
           Tells(h, s, events, from, to), "number" \in t \/ Kept(h, g, to)
    PROVE  Tells(g, t, events, from, to)
<1>1. CASE Stopping(events)
  BY <1>1 DEF Tells
<1>2. CASE ~Stopping(events)
  <2>1. /\ NamesHold(s) => Names(h, events, from, to)
        /\ OthersHold(s) => Others(h, from, to)
        /\ CallsHold(s) => Calls(h, events, from, to)
    BY <1>2 DEF Tells
  <2>2. (NamesHold(t) => NamesHold(s)) /\ (OthersHold(t) => OthersHold(s)) /\ (CallsHold(t) => CallsHold(s))
    BY DEF NamesHold, OthersHold, CallsHold
  <2>3. CASE "number" \in t
    BY <2>3 DEF Tells, NamesHold, OthersHold, CallsHold
  <2>4. CASE Kept(h, g, to)
    <3>1. \A v \in Changed(g, from, to) : v \in Changed(h, from, to) /\ g[v] = h[v]
      BY <2>4 DEF Kept, Changed
    <3>2. Names(h, events, from, to) => Names(g, events, from, to)
      BY <3>1 DEF Names
    <3>3. Spans(g, from, to) => Spans(h, from, to) /\ g[from] = h[from] /\ g[to] = h[to]
      <4> SUFFICES ASSUME Spans(g, from, to)
                   PROVE  Spans(h, from, to) /\ g[from] = h[from] /\ g[to] = h[to]
        OBVIOUS
      <4>1. 1 <= from /\ from < to /\ from \in 1..Len(g) /\ to \in 1..Len(g) /\ from <= to /\ to <= to
        BY DEF Spans
      <4>2. to \in 1..Len(h) /\ g[from] = h[from] /\ g[to] = h[to]
        BY <2>4, <4>1 DEF Kept
      <4> QED
        BY <4>1, <4>2 DEF Spans
    <3>4. Others(h, from, to) => Others(g, from, to)
      BY <3>3 DEF Others
    <3>5. Calls(h, events, from, to) => Calls(g, events, from, to)
      BY <3>3 DEF Calls, Sees
    <3> QED
      BY <2>1, <2>2, <3>2, <3>4, <3>5 DEF Tells
  <2> QED
    BY <2>3, <2>4
<1> QED
  BY <1>1, <1>2

\* The versions up to one the server had are there after it moves, or a number is given out
\* again.
LEMMA ServerKeeps ==
    ASSUME Inv, CheckIn \/ Rollback, NEW to \in Nat, ~rolledBack => to <= Latest
    PROVE  /\ spoiled \subseteq spoiled' /\ ("number" \in spoiled' \/ Kept(history, history', to))
           /\ Len(history) \in Nat /\ Len(history') \in Nat
<1>1. Latest \in Nat /\ ServerTyped
  BY Numbers
<1> DEFINE n == Latest
           m == Latest'
<1>2. CASE CheckIn
  <2>1. /\ m = n + 1 /\ n \in Nat /\ \A v \in 1..n : history'[v] = history[v]
        /\ spoiled \subseteq spoiled' /\ (rolledBack => "number" \in spoiled')
    BY <1>1, <1>2, HistoryGrows
  <2>2. ~rolledBack => \A v \in 1..m : v <= to => v \in 1..n /\ history'[v] = history[v]
    <3>1. ~rolledBack => to <= n
      OBVIOUS
    <3> HIDE DEF n, m
    <3> QED
      BY <2>1, <3>1
  <2>3. ~rolledBack => Kept(history, history', to)
    BY <2>2 DEF Kept, Latest
  <2>4. n \in Nat /\ m \in Nat
    BY <2>1
  <2> QED
    BY <2>1, <2>3, <2>4 DEF Latest
<1>3. CASE Rollback
  <2>1. /\ \A v \in 1..Latest' : v \in 1..Latest /\ history'[v] = history[v]
        /\ spoiled \subseteq spoiled' /\ Latest' \in Nat
    BY <1>1, <1>3, HistoryShrinks
  <2>2. Kept(history, history', to)
    BY <2>1 DEF Kept, Latest
  <2> QED
    BY <1>1, <2>1, <2>2 DEF Latest
<1> QED
  BY <1>2, <1>3

\* What was just translated tells of the step it is the translation of.
LEMMA OpenTells ==
    ASSUME Inv, Fresh, OpenKnown, HistoryTold, OpenAndTranslate
    PROVE  Tells(history, spoiled, cachedEvents', work.from, work.to)
<1> DEFINE events == cachedEvents'
           from == work.from
           to == work.to
           touched == work.touched
<1>1. /\ work.step = "open" /\ touched \in SUBSET Functions
      /\ to <= Latest /\ Latest \in Nat /\ from \in Nat /\ to \in Nat
  BY OpenStep, Numbers
<1>9. PICK was \in Contents(OldVersion(from)) : events = Translate(touched, was, history[NewVersion(to)], to)
  BY OpenStep
<1> DEFINE now == history[NewVersion(to)]
<1>2. "rollback" \notin spoiled => touched = TouchedIn(history, from, to)
  BY <1>1 DEF Fresh, WorkFresh, NoWork
<1>3. "start" \notin spoiled /\ "update" \notin spoiled /\ Spans(history, from, to)
      => was = history[from] /\ now = history[to]
  <2> SUFFICES ASSUME "start" \notin spoiled, "update" \notin spoiled, Spans(history, from, to)
               PROVE  was = history[from] /\ now = history[to]
    OBVIOUS
  <2>1. OldVersion(from) = from /\ NewVersion(to) = to
    BY DEF OpenKnown, OldVersion, NewVersion
  <2>2. from <= Latest
    <3>1. from < to
      BY DEF Spans
    <3> HIDE DEF from, to
    <3> QED
      BY <1>1, <3>1
  <2> QED
    BY <2>1, <2>2 DEF Contents
<1> HIDE DEF events, from, to, touched, now
<1>4. Tell(events, touched, was, now)
  BY <1>1, <1>9, TranslateIs DEF now
<1>5. \A v \in Changed(history, from, to) : v \in (from + 1)..to /\ v \in 1..Latest
  BY <1>1 DEF Changed, Latest
<1>6. ~Stopping(events) => Tells(history, spoiled, events, from, to)
  <2> SUFFICES ASSUME ~Stopping(events) PROVE Tells(history, spoiled, events, from, to)
    OBVIOUS
  <2>1. was.layout = now.layout /\ \A f \in touched : \E i \in 1..Len(events) : events[i].key = f
    BY <1>4 DEF Tell
  <2>2. "rollback" \notin spoiled => \A v \in Changed(history, from, to) : history[v].touched \subseteq touched
    <3>1. touched = TouchedIn(history, from, to) => \A v \in (from + 1)..to : history[v].touched \subseteq touched
      BY DEF TouchedIn
    <3> QED
      BY <1>2, <1>5, <3>1
  <2>3. "rollback" \notin spoiled => Names(history, events, from, to)
    BY <2>1, <2>2 DEF Names
  <2>4. "start" \notin spoiled /\ "update" \notin spoiled => Others(history, from, to)
    BY <1>3, <2>1 DEF Others
  <2>5. "rollback" \notin spoiled /\ "start" \notin spoiled /\ "update" \notin spoiled
        => Calls(history, events, from, to)
    <3> SUFFICES ASSUME "rollback" \notin spoiled, "start" \notin spoiled, "update" \notin spoiled,
                        Spans(history, from, to), NEW f \in Functions,
                        Sees(history, from, f) # Sees(history, to, f)
                 PROVE  \E i \in 1..Len(events) : events[i].key = f /\ ~events[i].callersUnaffected
      BY DEF Calls
    <3>1. from \in 1..Len(history) /\ to \in 1..Len(history) /\ from <= to
      BY <1>1 DEF Spans, Latest
    <3>2. PICK v \in Changed(history, from, to) : f \in history[v].touched
      BY <3>1 DEF HistoryTold
    <3>3. PICK i \in 1..Len(events) : events[i].key = f
      BY <2>1, <2>2, <3>2
    <3>4. ~events[i].callersUnaffected
      BY <1>3, <1>4, <3>3 DEF Tell, Sees
    <3> QED
      BY <3>3, <3>4
  <2>6. /\ NamesHold(spoiled) => "rollback" \notin spoiled
        /\ OthersHold(spoiled) => "start" \notin spoiled /\ "update" \notin spoiled
        /\ CallsHold(spoiled) => "rollback" \notin spoiled /\ "start" \notin spoiled /\ "update" \notin spoiled
    BY DEF NamesHold, OthersHold, CallsHold
  <2> QED
    BY <2>3, <2>4, <2>5, <2>6 DEF Tells
<1>7. Tells(history, spoiled, events, from, to)
  BY <1>6 DEF Tells
<1> QED
  BY <1>7 DEF events, from, to

\* A page the stream is handed from before the step tells what the step's events tell: it is
\* all of them, or nothing is promised.
LEMMA PageTells ==
    ASSUME NEW h, NEW s, NEW page, NEW events, NEW to \in Nat, EventsOf(events, to),
           NEW since \in Nat, VersionOf(since) < to,
           PageOf(page, events, to, since, Limit), NEW from,
           Tells(h, s, events, from, to)
    PROVE  Tells(h, s, page, from, to)
<1>1. /\ Len(page) = IF Limit <= Len(events) THEN Limit ELSE Len(events)
      /\ \A i \in 1..Len(page) : page[i] = events[i] /\ i \in 1..Len(events)
      /\ Len(page) \in Nat /\ Limit \in Nat /\ MaxEvents \in Nat /\ Len(events) \in Nat
  BY FollowerAssumption DEF PageOf, EventsOf
<1>2. StepsFit => Len(page) = Len(events)
  <2>1. Len(events) <= MaxEvents /\ Len(events) <= Cardinality(Functions) + 1 /\ Cardinality(Functions) \in Nat
    BY Spacing DEF EventsOf
  <2>2. StepsFit => Len(events) <= Limit
    BY <1>1, <2>1 DEF StepsFit
  <2> QED
    BY <1>1, <2>2
<1>3. CASE ~StepsFit
  BY <1>3 DEF Tells, NamesHold, OthersHold, CallsHold
<1>4. CASE StepsFit
  <2>1. Len(page) = Len(events) /\ \A i \in 1..Len(events) : page[i] = events[i]
    BY <1>1, <1>2, <1>4
  <2>2. Stopping(events) => Stopping(page)
    BY <2>1 DEF Stopping
  <2>3. Names(h, events, from, to) => Names(h, page, from, to)
    BY <2>1 DEF Names
  <2>4. Calls(h, events, from, to) => Calls(h, page, from, to)
    BY <2>1 DEF Calls
  <2> QED
    BY <2>2, <2>3, <2>4 DEF Tells
<1> QED
  BY <1>3, <1>4

CacheTells == cachedFrom < cachedTo => Tells(history, spoiled, cachedEvents, cachedFrom, cachedTo)
BatchTells == stream = "batch" => Tells(history, spoiled, batch, VersionOf(appliedSeq), openVersion)

Telling == CacheTells /\ BatchTells

Sound == Inv /\ OpenKnown /\ Fresh /\ HistoryTold

\* Neither a check-in nor a rollback makes the events kept or handed over untrue.
LEMMA TellingServer == ASSUME Sound, Telling, CheckIn \/ Rollback PROVE Telling'
<1>1. /\ UNCHANGED <<stream, batch, appliedSeq, openVersion, cachedFrom, cachedTo, cachedEvents>>
  BY DEF CheckIn, Rollback, workerVars, programVars, cacheVars, streamVars
<1>2. /\ openVersion \in Nat /\ cachedFrom \in Nat /\ cachedTo \in Nat /\ VersionOf(appliedSeq) \in Nat
      /\ Inv
  BY Numbers DEF Sound
<1>3. ~rolledBack => openVersion <= Latest /\ cachedTo <= Latest
  BY DEF Sound, Fresh, Behind
<1>4. CacheTells'
  <2>1. /\ spoiled \subseteq spoiled' /\ ("number" \in spoiled' \/ Kept(history, history', cachedTo))
        /\ Len(history) \in Nat /\ Len(history') \in Nat
    BY <1>2, <1>3, ServerKeeps
  <2>2. Tells(history, spoiled, cachedEvents, cachedFrom, cachedTo)
        => Tells(history', spoiled', cachedEvents, cachedFrom, cachedTo)
    BY <1>2, <2>1, TellsKept
  <2>3. cachedFrom < cachedTo => Tells(history', spoiled', cachedEvents', cachedFrom', cachedTo')
    BY <1>1, <2>2 DEF Telling, CacheTells
  <2> QED
    BY <1>1, <2>3 DEF CacheTells
<1>5. BatchTells'
  <2> DEFINE from == VersionOf(appliedSeq)
  <2>1. /\ spoiled \subseteq spoiled' /\ ("number" \in spoiled' \/ Kept(history, history', openVersion))
        /\ Len(history) \in Nat /\ Len(history') \in Nat
    BY <1>2, <1>3, ServerKeeps
  <2>2. Tells(history, spoiled, batch, from, openVersion)
        => Tells(history', spoiled', batch, from, openVersion)
    BY <1>2, <2>1, TellsKept
  <2>3. VersionOf(appliedSeq') = from
    BY <1>1
  <2>4. stream = "batch" => Tells(history', spoiled', batch, from, openVersion)
    BY <2>2 DEF Telling, BatchTells
  <2> HIDE DEF from
  <2> QED
    BY <1>1, <2>3, <2>4 DEF BatchTells
<1> QED
  BY <1>4, <1>5 DEF Telling

\* Of no version there is nothing to tell.
LEMMA TellsNothing ==
    ASSUME NEW h, NEW s, NEW events, NEW from \in Nat, NEW to \in Nat, from >= to
    PROVE  Tells(h, s, events, from, to)
<1>1. Changed(h, from, to) = {} /\ ~Spans(h, from, to)
  BY DEF Changed, Spans
<1> QED
  BY <1>1 DEF Tells, Names, Others, Calls

\* What the stream is handed tells of all it has not applied.
LEMMA HandedTells ==
    ASSUME Sound, NEW to \in Nat, NEW events, EventsOf(events, to),
           StepTold(events, to), stream # "batch",
           VersionOf(appliedSeq) < to => Tells(history, spoiled, events, VersionOf(appliedSeq), to),
           UNCHANGED <<history, spoiled>>, openVersion' = to
    PROVE  BatchTells'
<1> SUFFICES ASSUME stream' = "batch" PROVE Tells(history', spoiled', batch', VersionOf(appliedSeq'), openVersion')
  BY DEF BatchTells
<1>1. VersionOf(appliedSeq) \in Nat /\ appliedSeq \in Nat
  BY Numbers DEF Sound
<1>2. ~ToldNothing /\ ~ToldPosition(to)
  BY DEF ToldNothing, ToldPosition
<1>3. VersionOf(appliedSeq) <= to
  BY <1>2 DEF StepTold
<1>4. PICK page : ToldEvents(page) /\ PageOf(page, events, to, appliedSeq, Limit)
  BY <1>2 DEF StepTold
<1>5. batch' = page /\ appliedSeq' = appliedSeq /\ page # <<>>
  BY <1>4 DEF ToldEvents
<1> DEFINE from == VersionOf(appliedSeq)
<1>6. Tells(history, spoiled, page, from, to)
  <2>1. CASE from < to
    <3>1. Tells(history, spoiled, events, from, to)
      BY <2>1
    <3> QED
      BY <1>1, <1>4, <1>5, <2>1, <3>1, PageTells
  <2>2. CASE from >= to
    BY <1>1, <2>2, TellsNothing
  <2> QED
    BY <1>1, <2>1, <2>2
<1>7. VersionOf(appliedSeq') = from
  BY <1>5
<1> HIDE DEF from
<1> QED
  BY <1>5, <1>6, <1>7

\* Every step keeps what is cached and handed over true.
LEMMA TellingNext == ASSUME Sound, Telling, [Next]_vars PROVE Telling'
<1>1. /\ openVersion \in Nat /\ cachedFrom \in Nat /\ cachedTo \in Nat /\ VersionOf(appliedSeq) \in Nat
      /\ Inv /\ CacheKnown /\ Typed
  BY Numbers DEF Sound, Inv
<1>2. CASE AnswerCaughtUp
  <2>1. UNCHANGED <<history, spoiled, cachedFrom, cachedTo, cachedEvents>> /\ stream' # "batch"
    BY <1>1, <1>2, CaughtUpStep DEF serverVars, cacheVars, ToldNothing, ToldPosition
  <2> QED
    BY <2>1 DEF Telling, CacheTells, BatchTells
<1>3. CASE AnswerCached
  <2>1. /\ AnswersHead /\ cachedFrom = VersionOf(appliedSeq) /\ cachedFrom < cachedTo
        /\ cachedTo = openVersion /\ StepTold(cachedEvents, openVersion)
        /\ UNCHANGED <<history, spoiled, openVersion, cachedFrom, cachedTo, cachedEvents>>
    BY <1>1, <1>3, CachedStep DEF serverVars, programVars, cacheVars
  <2>2. CacheTells'
    BY <2>1 DEF Telling, CacheTells
  <2>3. Tells(history, spoiled, cachedEvents, VersionOf(appliedSeq), openVersion)
        /\ EventsOf(cachedEvents, openVersion) /\ stream # "batch"
    BY <1>1, <2>1 DEF Telling, CacheTells, CacheKnown, AnswersHead
  <2>4. BatchTells'
    BY <1>1, <2>1, <2>3, HandedTells
  <2> QED
    BY <2>2, <2>4 DEF Telling
<1>4. CASE OpenAndTranslate
  <2>1. /\ AnswersHead /\ work.to \in Nat /\ work.from = VersionOf(appliedSeq)
        /\ openVersion' = work.to /\ cachedFrom' = work.from /\ cachedTo' = work.to
        /\ EventsOf(cachedEvents', work.to)
        /\ StepTold(cachedEvents', work.to)
        /\ UNCHANGED <<history, spoiled>>
    <3>1. cachedFrom' = VersionOf(appliedSeq) /\ cachedFrom' = work.from
      BY <1>1, <1>4, OpenStep
    <3> QED
      BY <1>1, <1>4, <3>1, OpenStep, Numbers DEF serverVars
  <2>2. Tells(history, spoiled, cachedEvents', work.from, work.to)
    BY <1>4, OpenTells DEF Sound
  <2>3. CacheTells'
    <3>1. Tells(history', spoiled', cachedEvents', cachedFrom', cachedTo')
      BY <2>1, <2>2
    <3> QED
      BY <3>1 DEF CacheTells
  <2>4. BatchTells'
    <3> DEFINE to == work.to
               events == cachedEvents'
    <3>1. /\ to \in Nat /\ EventsOf(events, to) /\ StepTold(events, to)
          /\ stream # "batch" /\ UNCHANGED <<history, spoiled>> /\ openVersion' = to
          /\ Tells(history, spoiled, events, VersionOf(appliedSeq), to)
      BY <2>1, <2>2 DEF AnswersHead
    <3> HIDE DEF to, events
    <3> QED
      BY <3>1, HandedTells
  <2> QED
    BY <2>3, <2>4 DEF Telling
<1>5. CASE Silent
  <2>1. /\ UNCHANGED <<history, openVersion, cachedFrom, cachedTo, cachedEvents, appliedSeq, batch>>
        /\ (stream' = "batch" <=> stream = "batch") /\ spoiled \subseteq spoiled'
    BY <1>1, <1>5, SilentSteps DEF Quiet, serverVars, cacheVars
  <2>2. Len(history) \in Nat /\ \A to : Kept(history, history, to)
    BY Numbers DEF Kept, Sound, Latest
  <2>3. \A events : \A from, to \in Nat :
          Tells(history, spoiled, events, from, to) => Tells(history, spoiled', events, from, to)
    BY <2>1, <2>2, TellsKept
  <2>4. CacheTells'
    <3>1. cachedFrom < cachedTo => Tells(history', spoiled', cachedEvents', cachedFrom', cachedTo')
      BY <1>1, <2>1, <2>3 DEF Telling, CacheTells
    <3> QED
      BY <2>1, <3>1 DEF CacheTells
  <2>5. BatchTells'
    <3>1. stream = "batch" => Tells(history', spoiled', batch', VersionOf(appliedSeq'), openVersion')
      BY <1>1, <2>1, <2>3 DEF Telling, BatchTells
    <3> QED
      BY <2>1, <3>1 DEF BatchTells
  <2> QED
    BY <2>4, <2>5 DEF Telling
<1>6. CASE Batched
  <2>1. BatchEnds
    BY <1>1, <1>6, TakenSteps, FailedStep DEF Batched
  <2>2. UNCHANGED <<history, cachedFrom, cachedTo, cachedEvents>> /\ stream' # "batch"
        /\ spoiled \subseteq spoiled'
    BY <2>1 DEF BatchEnds, serverVars, cacheVars
  <2>3. Len(history) \in Nat /\ Kept(history, history, cachedTo)
    BY Numbers DEF Kept, Sound, Latest
  <2>4. Tells(history, spoiled, cachedEvents, cachedFrom, cachedTo)
        => Tells(history, spoiled', cachedEvents, cachedFrom, cachedTo)
    BY <1>1, <2>2, <2>3, TellsKept
  <2> QED
    BY <2>2, <2>4 DEF Telling, CacheTells, BatchTells
<1>7. CASE Restart
  <2>1. cachedFrom' = 0 /\ cachedTo' = 0 /\ stream' = "starting"
    BY <1>7 DEF Restart
  <2> QED
    BY <2>1 DEF Telling, CacheTells, BatchTells
<1>8. CASE UNCHANGED vars
  <2>1. UNCHANGED <<history, spoiled, cachedFrom, cachedTo, cachedEvents, stream, batch, appliedSeq, openVersion>>
    BY <1>8 DEF vars, serverVars, workerVars, programVars, cacheVars, streamVars
  <2> QED
    BY <2>1 DEF Telling, CacheTells, BatchTells
<1> QED
  BY <1>2, <1>3, <1>4, <1>5, <1>6, <1>7, <1>8, TellingServer, Steps

\* The events the worker keeps, and those the stream is about to apply, tell everything the consumer
\* has to hear between the versions they connect.
THEOREM SpecTelling == Spec => [](Sound /\ Telling)
<1>1. Init => Telling
  BY DEF Init, Telling, CacheTells, BatchTells
<1>2. Sound /\ Telling /\ [Next]_vars => Telling'
  BY TellingNext
<1>3. Inv /\ OpenKnown /\ Fresh /\ HistoryTold => Sound
  BY DEF Sound
<1>4. Spec => []Sound
  BY <1>3, SpecInv, SpecOpenKnown, SpecFresh, SpecHistoryTold, PTL
<1> QED
  BY <1>1, <1>2, <1>4, PTL DEF Spec

-----------------------------------------------------------------------------
(* What the positions pass.                                                  *)

CoveredIn(h, seq) == {v \in 1..Len(h) : v <= VersionOf(seq)}

\* What the position may pass without an event.
NothingBetween(from, to) ==
    /\ NamesHold(spoiled) => \A v \in Changed(history, from, to) : history[v].touched = {}
    /\ OthersHold(spoiled) => Others(history, from, to)
    /\ CallsHold(spoiled) /\ Spans(history, from, to)
       => \A f \in Functions : Sees(history, from, f) = Sees(history, to, f)

\* What an answer moves: the position, over versions that hold nothing to be told.
AnswerMoves ==
    /\ UNCHANGED <<history, spoiled, readAt, savedSeq, savedReadAt>>
    /\ needsResync => needsResync'
    /\ VersionOf(appliedSeq) <= VersionOf(appliedSeq') /\ VersionOf(appliedSeq') \in Nat
    /\ NothingBetween(VersionOf(appliedSeq), VersionOf(appliedSeq'))

\* A step without events, if its events tell everything, held nothing.
LEMMA EmptyTells ==
    ASSUME NEW from, NEW to, Tells(history, spoiled, <<>>, from, to)
    PROVE  NothingBetween(from, to)
<1>1. ~Stopping(<<>>) /\ 1..Len(<<>>) = {}
  BY DEF Stopping
<1>2. /\ NamesHold(spoiled) => Names(history, <<>>, from, to)
      /\ OthersHold(spoiled) => Others(history, from, to)
      /\ CallsHold(spoiled) => Calls(history, <<>>, from, to)
  BY <1>1 DEF Tells
<1>3. NamesHold(spoiled) => \A v \in Changed(history, from, to) : history[v].touched = {}
  BY <1>1, <1>2 DEF Names
<1>4. CallsHold(spoiled) /\ Spans(history, from, to)
      => \A f \in Functions : Sees(history, from, f) = Sees(history, to, f)
  BY <1>1, <1>2 DEF Calls
<1> QED
  BY <1>2, <1>3, <1>4 DEF NothingBetween

\* Nothing is between a version and itself or one before it, or after all the server has.
LEMMA EmptyRange ==
    ASSUME NEW from \in Nat, NEW to \in Nat, from >= to \/ from >= Latest, Latest \in Nat
    PROVE  NothingBetween(from, to)
<1>1. Changed(history, from, to) = {} /\ ~Spans(history, from, to)
  BY DEF Changed, Spans, Latest
<1> QED
  BY <1>1 DEF NothingBetween, Others

\* A step without events moves the position over versions that hold nothing.
LEMMA StepMoves ==
    ASSUME Inv, NEW to \in Nat, NEW events, StepTold(events, to), AnswersHead,
           VersionOf(appliedSeq) < to => Tells(history, spoiled, events, VersionOf(appliedSeq), to),
           UNCHANGED <<history, spoiled, modelVars>>
    PROVE  AnswerMoves
<1> DEFINE from == VersionOf(appliedSeq)
<1>1. from \in Nat /\ appliedSeq \in Nat /\ Typed /\ Known /\ Latest \in Nat
  BY Numbers
<1>2. needsResync => needsResync'
  BY <1>1, StepKeeps
<1>3. UNCHANGED <<history, spoiled, readAt, savedSeq, savedReadAt>>
  BY DEF modelVars
<1>4. CASE appliedSeq' = appliedSeq
  <2>1. VersionOf(appliedSeq') = from
    BY <1>4
  <2>2. NothingBetween(from, from)
    <3> HIDE DEF from
    <3> QED
      BY <1>1, EmptyRange
  <2> QED
    BY <1>1, <1>2, <1>3, <2>1, <2>2 DEF AnswerMoves
<1>5. CASE appliedSeq' # appliedSeq
  <2>1. from <= to /\ ToldPosition(to) /\ (from < to => events = <<>>)
    BY <1>5 DEF StepTold, ToldNothing, ToldEvents
  <2>2. VersionOf(appliedSeq') = IF from >= to THEN from ELSE to
    BY <1>1, <2>1, PositionTold
  <2>3. VersionOf(appliedSeq') = to
    BY <1>1, <2>1, <2>2
  <2>4. NothingBetween(from, to)
    <3>1. from < to => Tells(history, spoiled, <<>>, from, to)
      BY <2>1
    <3> HIDE DEF from
    <3> QED
      BY <1>1, <3>1, EmptyTells, EmptyRange
  <2> QED
    BY <1>2, <1>3, <2>1, <2>3, <2>4 DEF AnswerMoves
<1> QED
  BY <1>4, <1>5

\* No answer moves the position over anything that had to be told.
LEMMA AnswersMove ==
    ASSUME Sound, Telling, AnswerCaughtUp \/ AnswerCached \/ OpenAndTranslate
    PROVE  AnswerMoves
<1>1. /\ openVersion \in Nat /\ VersionOf(appliedSeq) \in Nat /\ appliedSeq \in Nat /\ Latest \in Nat
      /\ Inv /\ Typed /\ Known
  BY Numbers DEF Sound
<1>2. CASE AnswerCaughtUp
  <2>1. /\ AnswersHead /\ Latest <= VersionOf(appliedSeq)
        /\ ToldNothing \/ ToldPosition(openVersion')
        /\ openVersion' = IF openVersion >= Latest THEN openVersion ELSE Latest
        /\ UNCHANGED <<serverVars, modelVars, spoiled>>
    BY <1>1, <1>2, CaughtUpStep
  <2>2. openVersion' \in Nat
    BY <1>1, <2>1
  <2>3. needsResync => needsResync'
    BY <1>1, <2>1, <2>2, AnswerKeeps DEF Told
  <2>4. VersionOf(appliedSeq) <= VersionOf(appliedSeq') /\ VersionOf(appliedSeq') \in Nat
    BY <1>1, <2>1, <2>2, PositionTold DEF ToldNothing
  <2>5. NothingBetween(VersionOf(appliedSeq), VersionOf(appliedSeq'))
    BY <1>1, <2>1, <2>4, EmptyRange
  <2> QED
    BY <2>1, <2>3, <2>4, <2>5 DEF AnswerMoves, serverVars, modelVars
<1>3. CASE AnswerCached
  <2>1. /\ AnswersHead /\ cachedFrom = VersionOf(appliedSeq) /\ cachedFrom < cachedTo
        /\ cachedTo = openVersion /\ StepTold(cachedEvents, openVersion)
        /\ UNCHANGED <<history, spoiled, modelVars>>
    BY <1>1, <1>3, CachedStep DEF serverVars
  <2>2. Tells(history, spoiled, cachedEvents, VersionOf(appliedSeq), openVersion)
    BY <2>1 DEF Telling, CacheTells
  <2> QED
    BY <1>1, <2>1, <2>2, StepMoves
<1>4. CASE OpenAndTranslate
  <2> DEFINE to == work.to
             events == cachedEvents'
  <2>1. /\ AnswersHead /\ to \in Nat /\ work.from = VersionOf(appliedSeq)
        /\ StepTold(events, to)
        /\ UNCHANGED <<history, spoiled, modelVars>>
    <3>1. cachedFrom' = VersionOf(appliedSeq) /\ cachedFrom' = work.from
      BY <1>1, <1>4, OpenStep
    <3> QED
      BY <1>1, <1>4, <3>1, OpenStep, Numbers DEF serverVars
  <2>2. Tells(history, spoiled, events, work.from, to)
    BY <1>4, OpenTells DEF Sound
  <2> HIDE DEF to, events
  <2> QED
    BY <1>1, <2>1, <2>2, StepMoves
<1> QED
  BY <1>2, <1>3, <1>4

\* A batch that is applied does not stop the consumer, and what is saved with it is its own
\* position and what the model has then read.
LEMMA AppliedMoves ==
    ASSUME Inv, BatchApplied
    PROVE  /\ ~Stopping(batch) /\ ~needsResync /\ UNCHANGED <<history, spoiled, needsResync>>
           /\ \/ UNCHANGED <<savedSeq, savedReadAt>>
              \/ VersionOf(savedSeq') = openVersion /\ savedReadAt' = readAt'
<1>1. VersionOf(appliedSeq) <= openVersion /\ Last(batch).seq \in Nat /\ VersionOf(Last(batch).seq) = openVersion
  BY TakenSteps
<1>2. /\ savedSeq \in Nat /\ VersionOf(savedSeq) <= VersionOf(appliedSeq) /\ openVersion \in Nat
      /\ VersionOf(appliedSeq) \in Nat /\ VersionOf(savedSeq) \in Nat
  BY Numbers, VersionOfIs
<1>3. /\ \A i \in 1..Len(batch) : batch[i].key # Program
      /\ ~needsResync /\ UNCHANGED <<history, spoiled, needsResync>>
      /\ \/ savedSeq' = Max({savedSeq, Last(batch).seq}) /\ savedReadAt' = readAt'
         \/ UNCHANGED <<savedSeq, savedReadAt>>
  BY DEF BatchApplied, serverVars
<1>4. VersionOf(Max({savedSeq, Last(batch).seq})) = openVersion
  <2>1. VersionOf(Max({savedSeq, Last(batch).seq}))
          = IF VersionOf(savedSeq) >= VersionOf(Last(batch).seq) THEN VersionOf(savedSeq)
                                                                 ELSE VersionOf(Last(batch).seq)
    BY <1>1, <1>2, LaterPosition
  <2> QED
    BY <1>1, <1>2, <2>1
<1> QED
  BY <1>3, <1>4 DEF Stopping

\* No position is before the first version.
LEMMA OnePosition == ASSUME NEW seq \in Nat, SeqPerVersion <= seq PROVE VersionOf(seq) >= 1
<1>1. 1 * SeqPerVersion + 0 = SeqPerVersion /\ VersionOf(1 * SeqPerVersion + 0) = 1 /\ SeqPerVersion \in Nat
  BY Spacing, VersionOfEvent
<1>2. VersionOf(SeqPerVersion) <= VersionOf(seq)
  BY <1>1, VersionOfGrows
<1> QED
  BY <1>1, <1>2

\* Where the positions are.
LEMMA Positions ==
    ASSUME Inv
    PROVE  /\ appliedSeq \in Nat /\ savedSeq \in Nat
           /\ SeqPerVersion <= savedSeq /\ SeqPerVersion <= appliedSeq
           /\ VersionOf(appliedSeq) \in Nat /\ VersionOf(appliedSeq) >= 1
           /\ VersionOf(savedSeq) \in Nat /\ VersionOf(savedSeq) >= 1
           /\ VersionOf(savedSeq) <= VersionOf(appliedSeq)
           /\ Len(history) \in Nat /\ Len(history) >= 1
<1>1. /\ appliedSeq \in Nat /\ savedSeq \in Nat
      /\ VersionOf(appliedSeq) \in Nat /\ VersionOf(savedSeq) <= VersionOf(appliedSeq)
      /\ Latest \in Nat /\ Latest >= 1 /\ VersionOf(savedSeq) \in Nat
  BY Numbers, VersionOfIs
<1>2. SeqPerVersion <= savedSeq /\ savedSeq <= appliedSeq /\ SeqPerVersion \in Nat
  BY Spacing DEF Inv, Known, RequestsKnown
<1>3. SeqPerVersion <= appliedSeq
  BY <1>1, <1>2
<1> QED
  BY <1>1, <1>2, <1>3, OnePosition DEF Latest

\* What a position covers is there after the server moves, or a number is given out again.
LEMMA ServerCovers ==
    ASSUME Sound, CheckIn \/ Rollback, NEW seq \in Nat, VersionOf(seq) <= VersionOf(appliedSeq)
    PROVE  /\ spoiled \subseteq spoiled'
           /\ \/ "number" \in spoiled'
              \/ \A v \in CoveredIn(history', seq) : v \in CoveredIn(history, seq) /\ history'[v] = history[v]
<1> DEFINE to == VersionOf(seq)
<1>1. to \in Nat /\ Inv /\ VersionOf(appliedSeq) \in Nat /\ Latest \in Nat
  BY VersionOfIs, Numbers DEF Sound
<1>2. ~rolledBack => VersionOf(appliedSeq) <= Latest
  BY DEF Sound, Fresh, Behind
<1>3. ~rolledBack => to <= Latest
  <2>1. to <= VersionOf(appliedSeq)
    OBVIOUS
  <2> HIDE DEF to
  <2> QED
    BY <1>1, <1>2, <2>1
<1>4. spoiled \subseteq spoiled' /\ ("number" \in spoiled' \/ Kept(history, history', to))
  <2> HIDE DEF to
  <2> QED
    BY <1>1, <1>3, ServerKeeps
<1>5. Kept(history, history', to)
        => \A v \in CoveredIn(history', seq) : v \in CoveredIn(history, seq) /\ history'[v] = history[v]
  BY DEF Kept, CoveredIn
<1> QED
  BY <1>4, <1>5

\* The version of a position is among those it covers, if the server has it.
LEMMA ServerCoversPosition ==
    ASSUME Sound, CheckIn \/ Rollback, NEW seq \in Nat, SeqPerVersion <= seq,
           VersionOf(seq) <= VersionOf(appliedSeq), VersionOf(seq) <= Latest', "number" \notin spoiled'
    PROVE  /\ VersionOf(seq) <= Latest
           /\ \A v \in 1..VersionOf(seq) : v \in 1..Latest /\ history'[v] = history[v]
<1>1. VersionOf(seq) \in Nat /\ Latest \in Nat /\ Latest' \in Nat
  <2>1. Inv
    BY DEF Sound
  <2>2. Len(history') \in Nat
    <3>1. 0 \in Nat /\ (~rolledBack => 0 <= Latest)
      BY <2>1, Numbers
    <3> QED
      BY <2>1, <3>1, ServerKeeps
  <2> QED
    BY <2>1, <2>2, VersionOfIs, Numbers DEF Latest
<1>2. VersionOf(seq) >= 1
  BY OnePosition
<1>3. \A v \in CoveredIn(history', seq) : v \in CoveredIn(history, seq) /\ history'[v] = history[v]
  BY ServerCovers
<1>4. \A v \in 1..VersionOf(seq) : v \in CoveredIn(history', seq)
  BY <1>1 DEF CoveredIn, Latest
<1>5. \A v \in 1..VersionOf(seq) : v \in 1..Latest /\ history'[v] = history[v]
  BY <1>3, <1>4 DEF CoveredIn, Latest
<1>6. VersionOf(seq) \in 1..Latest
  BY <1>1, <1>2, <1>5
<1> QED
  BY <1>1, <1>5, <1>6

-----------------------------------------------------------------------------
(* What no event describes.                                                  *)

\* A version has the layout the model was extracted with.
LayoutOf(h, at) == at <= Len(h) => h[at].layout = h[1].layout

OthersKnown == OthersHold(spoiled) =>
    /\ needsResync \/ LayoutOf(history, VersionOf(appliedSeq))
    /\ LayoutOf(history, VersionOf(savedSeq))

\* A step without a stopping event goes from a layout to the same layout.
LEMMA LayoutMoves ==
    ASSUME NEW h, NEW from \in Nat, NEW to \in Nat, from >= 1, from <= to, Len(h) \in Nat,
           Others(h, from, to), LayoutOf(h, from)
    PROVE  LayoutOf(h, to)
<1>1. CASE from = to
  BY <1>1
<1>2. CASE from # to
  <2> SUFFICES ASSUME to <= Len(h) PROVE h[to].layout = h[1].layout
    BY DEF LayoutOf
  <2>1. Spans(h, from, to) /\ from <= Len(h)
    BY <1>2 DEF Spans
  <2> QED
    BY <2>1 DEF Others, LayoutOf
<1> QED
  BY <1>1, <1>2

\* The server moving puts no other version under a position.
LEMMA OthersServer == ASSUME Sound, OthersKnown, CheckIn \/ Rollback PROVE OthersKnown'
<1>1. UNCHANGED <<appliedSeq, savedSeq, needsResync>>
  BY DEF CheckIn, Rollback, streamVars, modelVars
<1>2. spoiled \subseteq spoiled'
  BY DEF CheckIn, Rollback
<1> SUFFICES ASSUME OthersHold(spoiled')
             PROVE  /\ needsResync \/ LayoutOf(history', VersionOf(appliedSeq))
                    /\ LayoutOf(history', VersionOf(savedSeq))
  BY <1>1 DEF OthersKnown
<1>3. OthersHold(spoiled) /\ "number" \notin spoiled'
  BY <1>2 DEF OthersHold
<1>4. ASSUME NEW seq \in Nat, SeqPerVersion <= seq, VersionOf(seq) <= VersionOf(appliedSeq),
             LayoutOf(history, VersionOf(seq))
      PROVE  LayoutOf(history', VersionOf(seq))
  <2> SUFFICES ASSUME VersionOf(seq) <= Len(history')
               PROVE  history'[VersionOf(seq)].layout = history'[1].layout
    BY DEF LayoutOf
  <2>1. VersionOf(seq) <= Latest /\ \A v \in 1..VersionOf(seq) : v \in 1..Latest /\ history'[v] = history[v]
    BY <1>3, <1>4, ServerCoversPosition DEF Latest
  <2>2. VersionOf(seq) \in 1..VersionOf(seq) /\ 1 \in 1..VersionOf(seq)
    BY <1>4, OnePosition, VersionOfIs
  <2> QED
    BY <1>4, <2>1, <2>2 DEF LayoutOf, Latest
<1>5. Inv
  BY DEF Sound
<1> QED
  BY <1>3, <1>4, <1>5, Positions DEF OthersKnown

\* A batch that was applied had nothing in it that no event describes.
LEMMA OthersApplied == ASSUME Sound, Telling, OthersKnown, BatchApplied PROVE OthersKnown'
<1>1. /\ stream = "batch" /\ VersionOf(appliedSeq') = openVersion
      /\ VersionOf(appliedSeq) <= openVersion /\ Inv
  BY TakenSteps DEF Sound
<1>2. /\ ~Stopping(batch) /\ ~needsResync /\ UNCHANGED <<history, spoiled, needsResync>>
      /\ savedSeq' = savedSeq \/ VersionOf(savedSeq') = openVersion
  BY <1>1, AppliedMoves
<1> SUFFICES ASSUME OthersHold(spoiled)
             PROVE  LayoutOf(history, VersionOf(appliedSeq')) /\ LayoutOf(history, VersionOf(savedSeq'))
  BY <1>2 DEF OthersKnown
<1>3. LayoutOf(history, openVersion)
  <2>1. Others(history, VersionOf(appliedSeq), openVersion)
    BY <1>1, <1>2 DEF Telling, BatchTells, Tells
  <2>2. LayoutOf(history, VersionOf(appliedSeq))
    BY <1>2 DEF OthersKnown
  <2>3. openVersion \in Nat
    BY <1>1, Numbers
  <2> QED
    BY <1>1, <2>1, <2>2, <2>3, Positions, LayoutMoves
<1> QED
  BY <1>1, <1>2, <1>3 DEF OthersKnown

\* Every step keeps it.
LEMMA OthersNext == ASSUME Sound, Telling, OthersKnown, [Next]_vars PROVE OthersKnown'
<1>1. Inv
  BY DEF Sound
<1>2. CASE AnswerCaughtUp \/ AnswerCached \/ OpenAndTranslate
  <2>1. AnswerMoves
    BY <1>2, AnswersMove
  <2>2. /\ UNCHANGED <<history, spoiled, savedSeq>> /\ (needsResync => needsResync')
        /\ VersionOf(appliedSeq) <= VersionOf(appliedSeq') /\ VersionOf(appliedSeq') \in Nat
        /\ OthersHold(spoiled) => Others(history, VersionOf(appliedSeq), VersionOf(appliedSeq'))
    BY <2>1 DEF AnswerMoves, NothingBetween
  <2>3. OthersHold(spoiled) /\ LayoutOf(history, VersionOf(appliedSeq))
        => LayoutOf(history, VersionOf(appliedSeq'))
    BY <1>1, <2>2, Positions, LayoutMoves
  <2> QED
    BY <2>2, <2>3 DEF OthersKnown
<1>3. CASE Silent
  <2>1. UNCHANGED <<history, appliedSeq, savedSeq>> /\ (needsResync => needsResync') /\ spoiled \subseteq spoiled'
    BY <1>1, <1>3, SilentSteps DEF Quiet, serverVars, modelVars
  <2>2. OthersHold(spoiled') => OthersHold(spoiled)
    BY <2>1 DEF OthersHold
  <2> QED
    BY <2>1, <2>2 DEF OthersKnown
<1>4. CASE BatchStopsLoop \/ BatchIgnored
  <2>1. needsResync' /\ UNCHANGED <<history, spoiled, savedSeq>>
    BY <1>4 DEF BatchStopsLoop, BatchIgnored, serverVars, modelVars
  <2> QED
    BY <2>1 DEF OthersKnown
<1>5. CASE BatchFails
  <2>1. UNCHANGED <<history, savedSeq, appliedSeq, needsResync>> /\ spoiled \subseteq spoiled'
    BY <1>5 DEF BatchFails, serverVars
  <2>2. OthersHold(spoiled') => OthersHold(spoiled)
    BY <2>1 DEF OthersHold
  <2> QED
    BY <2>1, <2>2 DEF OthersKnown
<1>6. CASE Restart
  <2>1. UNCHANGED <<history, savedSeq>> /\ appliedSeq' = savedSeq /\ spoiled \subseteq spoiled'
    BY <1>6 DEF Restart, serverVars
  <2>2. OthersHold(spoiled') => OthersHold(spoiled)
    BY <2>1 DEF OthersHold
  <2> QED
    BY <2>1, <2>2 DEF OthersKnown
<1>7. CASE UNCHANGED vars
  <2>1. UNCHANGED <<history, spoiled, savedSeq, appliedSeq, needsResync>>
    BY <1>7 DEF vars, serverVars, streamVars, modelVars
  <2> QED
    BY <2>1 DEF OthersKnown
<1> QED
  BY <1>2, <1>3, <1>4, <1>5, <1>6, <1>7, OthersServer, OthersApplied, Steps DEF Batched

\* OtherChangesStop: what no event describes stops the loop before the saved position passes it,
\* through failed batches, repeated answers, timeouts and restarts, wherever among its step's
\* events the one that stops the loop is, provided a step fits a page.
THEOREM SpecOtherChangesStop == ASSUME StepsFit PROVE Spec => []OtherChangesStop
<1>1. Init => OthersKnown
  <2> SUFFICES ASSUME Init PROVE \A v \in Nat : LayoutOf(history, v) \/ v = 0
    <3>1. Init => Inv
      BY InvInit
    <3> QED
      BY <3>1, Positions DEF OthersKnown
  <2>1. Len(history) = 1
    BY DEF Init
  <2> QED
    BY <2>1 DEF LayoutOf
<1>2. Sound /\ Telling /\ OthersKnown /\ [Next]_vars => OthersKnown'
  BY OthersNext
<1>3. OthersKnown => OtherChangesStop
  BY DEF OthersKnown, OtherChangesStop, OthersHold, Free, LayoutOf, Latest
<1> QED
  BY <1>1, <1>2, <1>3, SpecTelling, PTL DEF Spec

-----------------------------------------------------------------------------
(* What the model has read.                                                  *)

HoldsIn(h, seq, read) == \A v \in CoveredIn(h, seq) : \A f \in h[v].touched : read[f] >= v

ReadFree(s) == s \cap {"start", "number", "rollback"} = {}

ReadKnown == ReadFree(spoiled) =>
    /\ needsResync \/ HoldsIn(history, appliedSeq, readAt)
    /\ HoldsIn(history, savedSeq, savedReadAt)

\* Only functions are touched.
LEMMA TouchedFunctions == ASSUME ServerTyped, NEW v \in 1..Latest PROVE history[v].touched \subseteq Functions
<1>1. history[v] \in CheckIns \cup {Nothing}
  BY DEF ServerTyped, Latest
<1> QED
  BY <1>1, FollowerAssumption DEF Nothing

\* An event reaches the function it names, and its callers unless they are unaffected.
LEMMA ReachedIs ==
    ASSUME NEW events, NEW i \in 1..Len(events), events[i].key # Program
    PROVE  /\ events[i].key \in Reached(events)
           /\ ~events[i].callersUnaffected => Callers[events[i].key] \subseteq Reached(events)
<1> DEFINE all == {events[j] : j \in 1..Len(events)}
           reach(e) == IF e.key = Program THEN {}
                       ELSE {e.key} \cup (IF e.callersUnaffected THEN {} ELSE Callers[e.key])
<1>1. Reached(events) = UNION {reach(e) : e \in all}
  BY DEF Reached
<1>2. events[i] \in all
  OBVIOUS
<1>3. events[i].key \in reach(events[i])
      /\ (~events[i].callersUnaffected => Callers[events[i].key] \subseteq reach(events[i]))
  OBVIOUS
<1> HIDE DEF all, reach
<1>4. reach(events[i]) \subseteq Reached(events)
  BY <1>1, <1>2
<1> QED
  BY <1>3, <1>4

\* Reading some functions again loses nothing the position promises.
LEMMA RereadHolds ==
    ASSUME Inv, program = openVersion, VersionOf(appliedSeq) <= openVersion,
           HoldsIn(history, appliedSeq, readAt), NEW fs, Reread(fs)
    PROVE  HoldsIn(history, appliedSeq, readAt')
<1> SUFFICES ASSUME NEW v \in CoveredIn(history, appliedSeq), NEW f \in history[v].touched
             PROVE  readAt'[f] >= v
  BY DEF HoldsIn
<1>1. v \in 1..Latest /\ v <= VersionOf(appliedSeq) /\ VersionOf(appliedSeq) \in Nat /\ openVersion \in Nat
      /\ v \in Nat /\ ServerTyped
  BY Numbers DEF CoveredIn, Latest
<1>2. f \in Functions
  BY <1>1, TouchedFunctions
<1>3. readAt'[f] = IF f \in fs THEN program ELSE readAt[f]
  BY <1>2 DEF Reread
<1>4. readAt[f] >= v
  BY DEF HoldsIn
<1>5. program >= v
  BY <1>1
<1> QED
  BY <1>3, <1>4, <1>5

\* A batch that was applied leaves the model with all the new position covers.
LEMMA ReadApplied ==
    ASSUME StepsFit, Sound, Telling, ReadKnown, BatchApplied, ReadFree(spoiled)
    PROVE  HoldsIn(history, appliedSeq', readAt') /\ HoldsIn(history, savedSeq', savedReadAt')
<1>1. /\ stream = "batch" /\ VersionOf(appliedSeq') = openVersion
      /\ VersionOf(appliedSeq) <= openVersion /\ Inv
  BY TakenSteps DEF Sound
<1>2. /\ ~Stopping(batch) /\ ~needsResync
      /\ \/ UNCHANGED <<savedSeq, savedReadAt>>
         \/ VersionOf(savedSeq') = openVersion /\ savedReadAt' = readAt'
  BY <1>1, AppliedMoves
<1>3. Reread(Reached(batch)) /\ \A i \in 1..Len(batch) : batch[i].key # Program
  BY DEF BatchApplied
<1>4. /\ program = openVersion /\ openVersion \in Nat /\ ServerTyped /\ VersionOf(appliedSeq) \in Nat
      /\ Latest \in Nat
  BY <1>1, Numbers DEF Sound, OpenKnown, ReadFree
<1>5. HoldsIn(history, appliedSeq, readAt) /\ HoldsIn(history, savedSeq, savedReadAt)
  BY <1>2 DEF ReadKnown
<1>6. HoldsIn(history, appliedSeq, readAt')
  BY <1>1, <1>3, <1>4, <1>5, RereadHolds
<1>7. HoldsIn(history, appliedSeq', readAt')
  <2> SUFFICES ASSUME NEW v \in CoveredIn(history, appliedSeq'), NEW f \in history[v].touched
               PROVE  readAt'[f] >= v
    BY DEF HoldsIn
  <2>1. CASE v \in CoveredIn(history, appliedSeq)
    BY <1>6, <2>1 DEF HoldsIn
  <2>2. CASE v \notin CoveredIn(history, appliedSeq)
    <3>1. v \in 1..Latest /\ v <= openVersion /\ v \in Changed(history, VersionOf(appliedSeq), openVersion)
      BY <1>1, <1>4, <2>2 DEF CoveredIn, Changed, Latest
    <3>2. Names(history, batch, VersionOf(appliedSeq), openVersion)
      BY <1>1, <1>2 DEF Telling, BatchTells, Tells, NamesHold, ReadFree
    <3>3. PICK i \in 1..Len(batch) : batch[i].key = f
      BY <3>1, <3>2 DEF Names
    <3>4. f \in Reached(batch)
      BY <1>3, <3>3, ReachedIs
    <3>5. f \in Functions
      BY <1>4, <3>1, TouchedFunctions
    <3>6. readAt'[f] = program
      BY <1>3, <3>4, <3>5 DEF Reread
    <3> QED
      BY <1>4, <3>1, <3>6
  <2> QED
    BY <2>1, <2>2
<1>8. CASE VersionOf(savedSeq') = openVersion /\ savedReadAt' = readAt'
  BY <1>1, <1>7, <1>8 DEF HoldsIn, CoveredIn
<1>9. CASE UNCHANGED <<savedSeq, savedReadAt>>
  BY <1>5, <1>7, <1>9
<1> QED
  BY <1>2, <1>8, <1>9

\* The server moving obliges the model to nothing before the position passes it.
LEMMA ReadServer ==
    ASSUME Sound, ReadKnown, CheckIn \/ Rollback, ReadFree(spoiled')
    PROVE  /\ needsResync \/ HoldsIn(history', appliedSeq, readAt)
           /\ HoldsIn(history', savedSeq, savedReadAt)
<1>1. Inv
  BY DEF Sound
<1>2. /\ spoiled \subseteq spoiled'
      /\ \A v \in CoveredIn(history', appliedSeq) : v \in CoveredIn(history, appliedSeq) /\ history'[v] = history[v]
      /\ \A v \in CoveredIn(history', savedSeq) : v \in CoveredIn(history, savedSeq) /\ history'[v] = history[v]
  BY <1>1, Positions, ServerCovers DEF ReadFree
<1>3. ReadFree(spoiled)
  BY <1>2 DEF ReadFree
<1> QED
  BY <1>2, <1>3 DEF ReadKnown, HoldsIn

\* Every step keeps it.
LEMMA ReadNext == ASSUME StepsFit, Sound, Telling, ReadKnown, [Next]_vars PROVE ReadKnown'
<1>1. Inv
  BY DEF Sound
<1> SUFFICES ASSUME ReadFree(spoiled')
             PROVE  /\ needsResync' \/ HoldsIn(history', appliedSeq', readAt')
                    /\ HoldsIn(history', savedSeq', savedReadAt')
  BY DEF ReadKnown
<1>2. spoiled \subseteq spoiled' =>
        /\ ReadFree(spoiled)
        /\ needsResync \/ HoldsIn(history, appliedSeq, readAt)
        /\ HoldsIn(history, savedSeq, savedReadAt)
  <2>1. spoiled \subseteq spoiled' => ReadFree(spoiled)
    BY DEF ReadFree
  <2> QED
    BY <2>1 DEF ReadKnown
<1>3. CASE AnswerCaughtUp \/ AnswerCached \/ OpenAndTranslate
  <2>1. AnswerMoves
    BY <1>3, AnswersMove
  <2>2. /\ UNCHANGED <<history, spoiled, readAt, savedSeq, savedReadAt>> /\ (needsResync => needsResync')
        /\ NamesHold(spoiled) => \A v \in Changed(history, VersionOf(appliedSeq), VersionOf(appliedSeq')) :
               history[v].touched = {}
        /\ VersionOf(appliedSeq) \in Nat /\ VersionOf(appliedSeq') \in Nat
    BY <1>1, <2>1, Positions DEF AnswerMoves, NothingBetween
  <2>3. NamesHold(spoiled)
    BY <1>2, <2>2 DEF ReadFree, NamesHold
  <2>4. \A v \in CoveredIn(history, appliedSeq') :
          v \in CoveredIn(history, appliedSeq) \/ history[v].touched = {}
    BY <2>2, <2>3 DEF CoveredIn, Changed
  <2>5. HoldsIn(history, appliedSeq, readAt) => HoldsIn(history, appliedSeq', readAt)
    BY <2>4 DEF HoldsIn
  <2> QED
    BY <1>2, <2>2, <2>5
<1>4. CASE Silent
  <2>1. UNCHANGED <<history, appliedSeq, readAt, savedSeq, savedReadAt>> /\ (needsResync => needsResync')
        /\ spoiled \subseteq spoiled'
    BY <1>1, <1>4, SilentSteps DEF Quiet, serverVars, modelVars
  <2> QED
    BY <1>2, <2>1
<1>5. CASE BatchApplied
  <2>1. UNCHANGED <<history, spoiled>>
    BY <1>5 DEF BatchApplied, serverVars
  <2>2. HoldsIn(history, appliedSeq', readAt') /\ HoldsIn(history, savedSeq', savedReadAt')
    BY <1>2, <1>5, <2>1, ReadApplied
  <2> QED
    BY <2>1, <2>2
<1>6. CASE BatchStopsLoop \/ BatchIgnored
  <2>1. needsResync' /\ UNCHANGED <<history, spoiled, savedSeq, savedReadAt>>
    BY <1>6 DEF BatchStopsLoop, BatchIgnored, serverVars, modelVars
  <2> QED
    BY <1>2, <2>1
<1>7. CASE BatchFails
  <2>1. UNCHANGED <<history, savedSeq, savedReadAt, appliedSeq, needsResync>>
        /\ VersionOf(appliedSeq) <= openVersion /\ spoiled \subseteq spoiled'
    BY <1>1, <1>7, FailedStep DEF BatchFails, serverVars
  <2>2. PICK fs \in SUBSET Reached(batch) : Reread(fs)
    BY <1>7 DEF BatchFails
  <2>3. program = openVersion
    BY <1>2, <2>1 DEF Sound, OpenKnown, ReadFree
  <2>4. HoldsIn(history, appliedSeq, readAt) => HoldsIn(history, appliedSeq, readAt')
    BY <1>1, <2>1, <2>2, <2>3, RereadHolds
  <2> QED
    BY <1>2, <2>1, <2>4
<1>8. CASE Restart
  <2>1. UNCHANGED <<history, savedSeq, savedReadAt>> /\ appliedSeq' = savedSeq /\ readAt' = savedReadAt
        /\ spoiled \subseteq spoiled'
    BY <1>8 DEF Restart, serverVars
  <2> QED
    BY <1>2, <2>1
<1>9. CASE UNCHANGED vars
  <2>1. UNCHANGED <<history, spoiled, savedSeq, appliedSeq, needsResync, readAt, savedReadAt>>
    BY <1>9 DEF vars, serverVars, streamVars, modelVars
  <2> QED
    BY <1>2, <2>1
<1>10. CASE CheckIn \/ Rollback
  <2>1. UNCHANGED <<savedSeq, appliedSeq, needsResync, readAt, savedReadAt>>
    BY <1>10 DEF CheckIn, Rollback, streamVars, modelVars
  <2>2. /\ needsResync \/ HoldsIn(history', appliedSeq, readAt)
        /\ HoldsIn(history', savedSeq, savedReadAt)
    BY <1>10, ReadServer
  <2> QED
    BY <2>1, <2>2
<1> QED
  BY <1>3, <1>4, <1>5, <1>6, <1>7, <1>8, <1>9, <1>10, Steps DEF Batched

\* NothingSkipped: no position, running or saved, passes a version one of whose functions was not read
\* again at it, provided a step fits a page.
THEOREM SpecNothingSkipped == ASSUME StepsFit PROVE Spec => []NothingSkipped
<1>1. Init => ReadKnown
  <2> SUFFICES ASSUME Init PROVE \A v \in 1..Len(history) : history[v].touched = {}
    BY DEF ReadKnown, HoldsIn, CoveredIn
  <2>1. history = <<Nothing>> /\ Nothing.touched = {}
    BY DEF Init, Nothing
  <2> QED
    BY <2>1
<1>2. Sound /\ Telling /\ ReadKnown /\ [Next]_vars => ReadKnown'
  BY ReadNext
<1>3. ReadKnown => NothingSkipped
  BY DEF ReadKnown, NothingSkipped, ReadFree, Free, HoldsIn, HoldsUpTo, CoveredIn, Covered, Latest
<1> QED
  BY <1>1, <1>2, <1>3, SpecTelling, PTL DEF Spec

-----------------------------------------------------------------------------
(* What the callers were made for.                                           *)

CallersFree(s) == CallsHold(s) /\ ~ ({"left", "restored"} \subseteq s)

\* Every caller was read at a version or later, or when what it calls looked to it as there.
CallersOf(h, at, read) ==
    at <= Len(h) => \A f \in Functions : \A c \in Callers[f] :
        read[c] >= at \/ Sees(h, read[c], f) = Sees(h, at, f)

NotAhead(at, read) == \A f \in Functions : read[f] <= at

\* What a position holds with what was read: nothing was read beyond it unless a batch was
\* left in part.
CallersAt(seq, read) ==
    /\ CallersOf(history, VersionOf(seq), read)
    /\ "left" \notin spoiled => NotAhead(VersionOf(seq), read)

CallersKnown == CallersFree(spoiled) =>
    /\ needsResync \/ CallersAt(appliedSeq, readAt)
    /\ CallersAt(savedSeq, savedReadAt)

LEMMA ReadTypes ==
    ASSUME Inv
    PROVE  /\ readAt \in [Functions -> Versions] /\ savedReadAt \in [Functions -> Versions]
           /\ \A v \in Versions : v \in Nat /\ v >= 1
           /\ \A f \in Functions : Callers[f] \subseteq Functions
BY FollowerAssumption DEF Inv, Typed, ModelTyped, Versions

\* The caller of a function that looks the same at both ends of a step was read when it looked
\* so: at the first, or, where no signature is ever restored, anywhere between the two.
LEMMA CallersMove ==
    ASSUME Inv, HistoryTold, ~ ({"left", "restored"} \subseteq spoiled),
           NEW from \in Nat, NEW to \in Nat, from >= 1, from <= to,
           NEW read \in [Functions -> Versions], NEW fs, NEW now \in [Functions -> Nat],
           \A f \in Functions : now[f] = IF f \in fs THEN to ELSE read[f],
           Spans(history, from, to) => \A f \in Functions :
               Sees(history, from, f) # Sees(history, to, f) => Callers[f] \subseteq fs,
           CallersOf(history, from, read), "left" \notin spoiled => NotAhead(from, read)
    PROVE  CallersOf(history, to, now) /\ ("left" \notin spoiled => NotAhead(to, now))
<1>1. Len(history) \in Nat /\ \A f \in Functions : read[f] \in Nat /\ read[f] >= 1
  BY Positions, ReadTypes
<1>2. ASSUME to <= Len(history), NEW f \in Functions, NEW c \in Callers[f], ~ (now[c] >= to)
      PROVE  Sees(history, now[c], f) = Sees(history, to, f)
  <2>1. c \in Functions /\ c \notin fs /\ now[c] = read[c] /\ read[c] < to /\ read[c] \in Nat /\ read[c] >= 1
    BY <1>1, <1>2, ReadTypes
  <2>2. Sees(history, from, f) = Sees(history, to, f)
    BY <1>2, <2>1 DEF Spans
  <2>3. CASE ~ (read[c] >= from)
    BY <1>2, <2>1, <2>2, <2>3 DEF CallersOf
  <2>4. CASE read[c] >= from /\ "left" \notin spoiled
    <3>1. read[c] = from
      BY <2>1, <2>4 DEF NotAhead
    <3> QED
      BY <2>1, <2>2, <3>1
  <2>5. CASE read[c] >= from /\ "restored" \notin spoiled
    <3>1. from \in 1..Len(history) /\ read[c] \in 1..Len(history) /\ to \in 1..Len(history)
          /\ from <= read[c] /\ read[c] <= to
      BY <1>1, <1>2, <2>1, <2>5
    <3>2. Sees(history, read[c], f) = Sees(history, to, f)
      BY <2>2, <2>5, <3>1 DEF HistoryTold
    <3> QED
      BY <2>1, <3>2
  <2> QED
    BY <2>3, <2>4, <2>5
<1>3. "left" \notin spoiled => NotAhead(to, now)
  <2> SUFFICES ASSUME "left" \notin spoiled, NEW f \in Functions PROVE now[f] <= to
    BY DEF NotAhead
  <2>1. read[f] <= from /\ read[f] \in Nat
    BY <1>1 DEF NotAhead
  <2> QED
    BY <2>1
<1> QED
  BY <1>2, <1>3 DEF CallersOf

\* The server moving changes no version at or below a position.
LEMMA CallersServer == ASSUME Sound, CallersKnown, CheckIn \/ Rollback PROVE CallersKnown'
<1>1. UNCHANGED <<appliedSeq, savedSeq, needsResync, readAt, savedReadAt>> /\ spoiled \subseteq spoiled'
  BY DEF CheckIn, Rollback, streamVars, modelVars
<1> SUFFICES ASSUME CallersFree(spoiled')
             PROVE  /\ needsResync \/ CallersAt(appliedSeq, readAt)'
                    /\ CallersAt(savedSeq, savedReadAt)'
  BY <1>1 DEF CallersKnown
<1>2. /\ "number" \notin spoiled' /\ CallersFree(spoiled)
      /\ "left" \notin spoiled' => "left" \notin spoiled
  BY <1>1 DEF CallersFree, CallsHold
<1>3. Inv
  BY DEF Sound
<1>4. ASSUME NEW seq \in Nat, SeqPerVersion <= seq, VersionOf(seq) <= VersionOf(appliedSeq),
             NEW read \in [Functions -> Versions], CallersOf(history, VersionOf(seq), read)
      PROVE  CallersOf(history', VersionOf(seq), read)
  <2> SUFFICES ASSUME VersionOf(seq) <= Len(history'), NEW f \in Functions, NEW c \in Callers[f],
                      ~ (read[c] >= VersionOf(seq))
               PROVE  Sees(history', read[c], f) = Sees(history', VersionOf(seq), f)
    BY DEF CallersOf
  <2>1. VersionOf(seq) <= Latest /\ \A v \in 1..VersionOf(seq) : v \in 1..Latest /\ history'[v] = history[v]
    BY <1>2, <1>4, ServerCoversPosition DEF Latest
  <2>2. VersionOf(seq) \in Nat /\ VersionOf(seq) >= 1
    BY <1>4, OnePosition, VersionOfIs
  <2>3. read[c] \in Nat /\ read[c] >= 1
    BY <1>3, <1>4, ReadTypes
  <2>4. VersionOf(seq) \in 1..VersionOf(seq) /\ read[c] \in 1..VersionOf(seq)
    BY <2>2, <2>3
  <2>5. Sees(history, read[c], f) = Sees(history, VersionOf(seq), f)
    BY <1>4, <2>1 DEF CallersOf, Latest
  <2> QED
    BY <2>1, <2>4, <2>5 DEF Sees
<1>5. /\ needsResync \/ CallersOf(history', VersionOf(appliedSeq), readAt)
      /\ CallersOf(history', VersionOf(savedSeq), savedReadAt)
  <2>1. VersionOf(appliedSeq) <= VersionOf(appliedSeq)
    BY <1>3, Positions
  <2> QED
    BY <1>2, <1>3, <1>4, <2>1, Positions, ReadTypes DEF CallersKnown, CallersAt
<1>6. /\ needsResync \/ ("left" \notin spoiled' => NotAhead(VersionOf(appliedSeq), readAt))
      /\ "left" \notin spoiled' => NotAhead(VersionOf(savedSeq), savedReadAt)
  BY <1>2 DEF CallersKnown, CallersAt
<1>7. /\ CallersAt(appliedSeq, readAt)' <=>
            /\ CallersOf(history', VersionOf(appliedSeq), readAt)
            /\ "left" \notin spoiled' => NotAhead(VersionOf(appliedSeq), readAt)
      /\ CallersAt(savedSeq, savedReadAt)' <=>
            /\ CallersOf(history', VersionOf(savedSeq), savedReadAt)
            /\ "left" \notin spoiled' => NotAhead(VersionOf(savedSeq), savedReadAt)
  BY <1>1 DEF CallersAt
<1> QED
  BY <1>5, <1>6, <1>7

\* A batch that was applied reached the callers of all that looks different at its end.
LEMMA CallersApplied == ASSUME StepsFit, Sound, Telling, CallersKnown, BatchApplied PROVE CallersKnown'
<1>1. /\ stream = "batch" /\ VersionOf(appliedSeq') = openVersion
      /\ VersionOf(appliedSeq) <= openVersion /\ Inv /\ HistoryTold
  BY TakenSteps DEF Sound
<1>2. /\ ~Stopping(batch) /\ ~needsResync /\ UNCHANGED <<history, spoiled, needsResync>>
      /\ \/ UNCHANGED <<savedSeq, savedReadAt>>
         \/ VersionOf(savedSeq') = openVersion /\ savedReadAt' = readAt'
  BY <1>1, AppliedMoves
<1> SUFFICES ASSUME CallersFree(spoiled)
             PROVE  CallersAt(appliedSeq, readAt)' /\ CallersAt(savedSeq, savedReadAt)'
  BY <1>2 DEF CallersKnown
<1>3. CallersAt(appliedSeq, readAt) /\ CallersAt(savedSeq, savedReadAt)
  BY <1>2 DEF CallersKnown
<1> DEFINE fs == Reached(batch)
<1>4. Reread(fs) /\ \A i \in 1..Len(batch) : batch[i].key # Program
  BY DEF BatchApplied
<1>5. program = openVersion /\ openVersion \in Nat /\ VersionOf(appliedSeq) \in Nat /\ VersionOf(appliedSeq) >= 1
  BY <1>1, Numbers, Positions DEF Sound, OpenKnown, CallersFree, CallsHold
<1>6. Spans(history, VersionOf(appliedSeq), openVersion) => \A f \in Functions :
          Sees(history, VersionOf(appliedSeq), f) # Sees(history, openVersion, f) => Callers[f] \subseteq fs
  <2> SUFFICES ASSUME Spans(history, VersionOf(appliedSeq), openVersion), NEW f \in Functions,
                      Sees(history, VersionOf(appliedSeq), f) # Sees(history, openVersion, f)
               PROVE  Callers[f] \subseteq fs
    OBVIOUS
  <2>1. Calls(history, batch, VersionOf(appliedSeq), openVersion)
    BY <1>1, <1>2 DEF Telling, BatchTells, Tells, CallersFree
  <2>2. PICK i \in 1..Len(batch) : batch[i].key = f /\ ~batch[i].callersUnaffected
    BY <2>1 DEF Calls
  <2>3. Callers[batch[i].key] \subseteq fs
    BY <1>4, <2>2, ReachedIs
  <2> QED
    BY <2>2, <2>3
<1> HIDE DEF fs
<1>7. readAt' = [f \in Functions |-> IF f \in fs THEN openVersion ELSE readAt[f]]
  BY <1>4, <1>5 DEF Reread
<1>8. readAt' \in [Functions -> Nat] /\ readAt \in [Functions -> Versions]
  BY <1>1, <1>5, <1>7, ReadTypes
<1>9. /\ CallersOf(history, openVersion, readAt')
      /\ "left" \notin spoiled => NotAhead(openVersion, readAt')
  <2>1. \A f \in Functions : readAt'[f] = IF f \in fs THEN openVersion ELSE readAt[f]
    BY <1>7
  <2>2. /\ CallersOf(history, VersionOf(appliedSeq), readAt)
        /\ "left" \notin spoiled => NotAhead(VersionOf(appliedSeq), readAt)
    BY <1>3 DEF CallersAt
  <2>3. ~ ({"left", "restored"} \subseteq spoiled)
    BY DEF CallersFree
  <2> QED
    BY <1>1, <1>5, <1>6, <1>8, <2>1, <2>2, <2>3, CallersMove
<1>10. CallersAt(appliedSeq, readAt)'
  BY <1>1, <1>2, <1>9 DEF CallersAt
<1>11. CallersAt(savedSeq, savedReadAt)'
  <2>1. CASE UNCHANGED <<savedSeq, savedReadAt>>
    BY <1>2, <1>3, <2>1 DEF CallersAt
  <2>2. CASE VersionOf(savedSeq') = openVersion /\ savedReadAt' = readAt'
    BY <1>2, <1>9, <2>2 DEF CallersAt
  <2> QED
    BY <1>2, <2>1, <2>2
<1> QED
  BY <1>10, <1>11

\* A batch that failed left functions read at a version no position is beyond.
LEMMA CallersFails == ASSUME Sound, CallersKnown, BatchFails PROVE CallersKnown'
<1>1. /\ UNCHANGED <<history, savedSeq, savedReadAt, appliedSeq, needsResync>> /\ ~needsResync
      /\ VersionOf(appliedSeq) <= openVersion /\ spoiled \subseteq spoiled' /\ Inv
  BY FailedStep DEF BatchFails, serverVars, Sound
<1>2. PICK fs \in SUBSET Reached(batch) :
           Reread(fs) /\ spoiled' = spoiled \cup (IF fs = {} THEN {} ELSE {"left"})
  BY DEF BatchFails
<1> SUFFICES ASSUME CallersFree(spoiled')
             PROVE  CallersAt(appliedSeq, readAt)' /\ CallersAt(savedSeq, savedReadAt)'
  BY DEF CallersKnown
<1>3. CallersAt(appliedSeq, readAt) /\ CallersAt(savedSeq, savedReadAt) /\ program = openVersion
      /\ ("left" \notin spoiled' => "left" \notin spoiled)
  <2>1. CallersFree(spoiled)
    BY <1>1 DEF CallersFree, CallsHold
  <2> QED
    BY <1>1, <2>1 DEF CallersKnown, Sound, OpenKnown, CallersFree, CallsHold
<1>4. CallersAt(savedSeq, savedReadAt)'
  BY <1>1, <1>3 DEF CallersAt
<1>5. \A f \in Functions : readAt'[f] = readAt[f] \/ readAt'[f] = openVersion
  BY <1>2, <1>3 DEF Reread
<1>6. CallersOf(history, VersionOf(appliedSeq), readAt')
  <2> SUFFICES ASSUME VersionOf(appliedSeq) <= Len(history), NEW f \in Functions, NEW c \in Callers[f],
                      ~ (readAt'[c] >= VersionOf(appliedSeq))
               PROVE  Sees(history, readAt'[c], f) = Sees(history, VersionOf(appliedSeq), f)
    BY DEF CallersOf
  <2>1. c \in Functions /\ openVersion \in Nat /\ VersionOf(appliedSeq) \in Nat
    BY <1>1, ReadTypes, Numbers
  <2>2. readAt'[c] = readAt[c]
    BY <1>1, <1>5, <2>1
  <2> QED
    BY <1>3, <2>2 DEF CallersAt, CallersOf
<1>7. "left" \notin spoiled' => NotAhead(VersionOf(appliedSeq), readAt')
  <2> SUFFICES ASSUME "left" \notin spoiled' PROVE NotAhead(VersionOf(appliedSeq), readAt')
    OBVIOUS
  <2>1. fs = {} /\ NotAhead(VersionOf(appliedSeq), readAt)
    BY <1>2, <1>3 DEF CallersAt
  <2>2. \A f \in Functions : readAt'[f] = readAt[f]
    BY <1>2, <2>1 DEF Reread
  <2> QED
    BY <2>1, <2>2 DEF NotAhead
<1> QED
  BY <1>1, <1>4, <1>6, <1>7 DEF CallersAt

\* Every step keeps it.
LEMMA CallersNext == ASSUME StepsFit, Sound, Telling, CallersKnown, [Next]_vars PROVE CallersKnown'
<1>1. Inv /\ HistoryTold
  BY DEF Sound
<1>2. CASE AnswerCaughtUp \/ AnswerCached \/ OpenAndTranslate
  <2>1. AnswerMoves
    BY <1>2, AnswersMove
  <2>2. /\ UNCHANGED <<history, spoiled, readAt, savedSeq, savedReadAt>> /\ (needsResync => needsResync')
        /\ VersionOf(appliedSeq) <= VersionOf(appliedSeq') /\ VersionOf(appliedSeq') \in Nat
        /\ CallsHold(spoiled) /\ Spans(history, VersionOf(appliedSeq), VersionOf(appliedSeq'))
           => \A f \in Functions : Sees(history, VersionOf(appliedSeq), f) = Sees(history, VersionOf(appliedSeq'), f)
    BY <2>1 DEF AnswerMoves, NothingBetween
  <2> SUFFICES ASSUME CallersFree(spoiled)
               PROVE  (needsResync \/ CallersAt(appliedSeq, readAt)) => (needsResync' \/ CallersAt(appliedSeq, readAt)')
    <3>1. CallersAt(savedSeq, savedReadAt) => CallersAt(savedSeq, savedReadAt)'
      BY <2>2 DEF CallersAt
    <3> QED
      BY <2>2, <3>1 DEF CallersKnown
  <2> SUFFICES ASSUME CallersAt(appliedSeq, readAt) PROVE CallersAt(appliedSeq, readAt)'
    BY <2>2
  <2>3. CallsHold(spoiled) /\ ~ ({"left", "restored"} \subseteq spoiled)
    BY DEF CallersFree
  <2>4. readAt \in [Functions -> Versions] /\ readAt \in [Functions -> Nat]
        /\ VersionOf(appliedSeq) \in Nat /\ VersionOf(appliedSeq) >= 1
    <3>1. readAt \in [Functions -> Versions] /\ \A v \in Versions : v \in Nat
      BY <1>1, ReadTypes
    <3>2. readAt \in [Functions -> Nat]
      BY <3>1
    <3> QED
      BY <1>1, <3>1, <3>2, Positions
  <2>5. Spans(history, VersionOf(appliedSeq), VersionOf(appliedSeq')) => \A f \in Functions :
            Sees(history, VersionOf(appliedSeq), f) # Sees(history, VersionOf(appliedSeq'), f) => Callers[f] \subseteq {}
    BY <2>2, <2>3
  <2>6. /\ CallersOf(history, VersionOf(appliedSeq'), readAt)
        /\ "left" \notin spoiled => NotAhead(VersionOf(appliedSeq'), readAt)
    <3>1. PICK none : none = {}
      OBVIOUS
    <3>3. PICK from \in Nat, to \in Nat : from = VersionOf(appliedSeq) /\ to = VersionOf(appliedSeq')
      BY <2>2, <2>4
    <3>4. /\ \A f \in Functions : readAt[f] = IF f \in none THEN to ELSE readAt[f]
          /\ from >= 1 /\ from <= to
          /\ Spans(history, from, to) => \A f \in Functions :
                 Sees(history, from, f) # Sees(history, to, f) => Callers[f] \subseteq none
      BY <2>2, <2>4, <2>5, <3>1, <3>3
    <3>2. /\ CallersOf(history, VersionOf(appliedSeq), readAt)
          /\ "left" \notin spoiled => NotAhead(VersionOf(appliedSeq), readAt)
      BY DEF CallersAt
    <3> QED
      BY <1>1, <2>3, <2>4, <3>2, <3>3, <3>4, CallersMove
  <2> QED
    BY <2>2, <2>6 DEF CallersAt
<1>3. ASSUME UNCHANGED <<history, appliedSeq, readAt, savedSeq, savedReadAt>>, needsResync => needsResync',
             spoiled \subseteq spoiled'
      PROVE  CallersKnown'
  <2>1. CallersFree(spoiled') => CallersFree(spoiled)
    BY <1>3 DEF CallersFree, CallsHold
  <2>2. /\ CallersAt(appliedSeq, readAt) => CallersAt(appliedSeq, readAt)'
        /\ CallersAt(savedSeq, savedReadAt) => CallersAt(savedSeq, savedReadAt)'
    BY <1>3 DEF CallersAt
  <2> QED
    BY <1>3, <2>1, <2>2 DEF CallersKnown
<1>4. CASE Silent
  <2>1. UNCHANGED <<history, appliedSeq, readAt, savedSeq, savedReadAt>> /\ (needsResync => needsResync')
        /\ spoiled \subseteq spoiled'
    BY <1>1, <1>4, SilentSteps DEF Quiet, serverVars, modelVars
  <2> QED
    BY <1>3, <2>1
<1>5. CASE BatchStopsLoop \/ BatchIgnored
  <2>1. needsResync' /\ UNCHANGED <<history, spoiled, savedSeq, savedReadAt>>
    BY <1>5 DEF BatchStopsLoop, BatchIgnored, serverVars, modelVars
  <2>2. CallersAt(savedSeq, savedReadAt) => CallersAt(savedSeq, savedReadAt)'
    BY <2>1 DEF CallersAt
  <2> QED
    BY <2>1, <2>2 DEF CallersKnown
<1>6. CASE Restart
  <2>1. UNCHANGED <<history, savedSeq, savedReadAt>> /\ appliedSeq' = savedSeq /\ readAt' = savedReadAt
        /\ spoiled \subseteq spoiled'
    BY <1>6 DEF Restart, serverVars
  <2>2. CallersFree(spoiled') => CallersFree(spoiled)
    BY <2>1 DEF CallersFree, CallsHold
  <2>3. CallersAt(savedSeq, savedReadAt) => CallersAt(savedSeq, savedReadAt)' /\ CallersAt(appliedSeq, readAt)'
    BY <2>1 DEF CallersAt
  <2> QED
    BY <2>2, <2>3 DEF CallersKnown
<1>7. CASE UNCHANGED vars
  <2>1. UNCHANGED <<history, spoiled, savedSeq, appliedSeq, needsResync, readAt, savedReadAt>>
    BY <1>7 DEF vars, serverVars, streamVars, modelVars
  <2> QED
    BY <1>3, <2>1
<1> QED
  BY <1>2, <1>4, <1>5, <1>6, <1>7, CallersServer, CallersApplied, CallersFails, Steps DEF Batched

\* CallersReread: no position, running or saved, leaves a caller with a text made for a signature
\* other than the one called there, through folded steps, steps computed twice and failed batches,
\* but for a batch left in part whose change is taken back; provided a step fits a page.
THEOREM SpecCallersReread == ASSUME StepsFit PROVE Spec => []CallersReread
<1>1. Init => CallersKnown
  <2> SUFFICES ASSUME Init PROVE CallersKnown
    OBVIOUS
  <2>1. /\ Inv /\ history = <<Nothing>> /\ appliedSeq = SeqPerVersion /\ savedSeq = SeqPerVersion
        /\ readAt = [f \in Functions |-> 1] /\ savedReadAt = readAt
    BY InvInit DEF Init
  <2>2. VersionOf(SeqPerVersion) = 1 /\ \A f \in Functions : Callers[f] \subseteq Functions
    <3>1. 1 * SeqPerVersion + 0 = SeqPerVersion /\ VersionOf(1 * SeqPerVersion + 0) = 1
      BY Spacing, VersionOfEvent
    <3> QED
      BY <3>1, FollowerAssumption
  <2> QED
    BY <2>1, <2>2 DEF CallersKnown, CallersAt, CallersOf, NotAhead
<1>2. Sound /\ Telling /\ CallersKnown /\ [Next]_vars => CallersKnown'
  BY CallersNext
<1>3. CallersKnown /\ Inv => CallersReread
  <2> SUFFICES ASSUME CallersKnown, Inv, Free({"update", "start", "number", "rollback"}),
                      ~ ({"left", "restored"} \subseteq spoiled)
               PROVE  (needsResync \/ CallersCurrent(appliedSeq, readAt)) /\ CallersCurrent(savedSeq, savedReadAt)
    BY DEF CallersReread
  <2>1. CallersFree(spoiled)
    BY DEF Free, CallersFree, CallsHold
  <2> QED
    BY <2>1 DEF CallersKnown, CallersAt, CallersOf, CallersCurrent, Sees, Latest
<1> QED
  BY <1>1, <1>2, <1>3, SpecTelling, PTL DEF Spec, Sound

-----------------------------------------------------------------------------
(* The journal is a function of the history.                                 *)

\* What a step from one version to another gives, all of it read.
Journal(h, from, to) == Translate(TouchedIn(h, from, to), h[from], h[to], to)

\* A step gives the same events in two histories that have its range in common.
LEMMA SameJournal ==
    ASSUME NEW h, NEW g, NEW from \in Nat, NEW to \in Nat, NEW n \in Nat, to <= n, 1 <= from, from < to,
           \A v \in 1..n : g[v] = h[v]
    PROVE  Journal(g, from, to) = Journal(h, from, to)
<1>1. TouchedIn(g, from, to) = TouchedIn(h, from, to)
  BY SameTouched
<1>2. from \in 1..n /\ to \in 1..n
  OBVIOUS
<1>3. g[from] = h[from] /\ g[to] = h[to]
  BY <1>2
<1> QED
  BY <1>1, <1>3 DEF Journal

AllHold(s) == s \cap {"update", "start", "number", "rollback"} = {}

\* The answer kept is what the history gives for its range.
CacheIs == AllHold(spoiled) /\ cachedFrom > 0 =>
    /\ cachedFrom < cachedTo
    /\ cachedTo <= Latest => cachedEvents = Journal(history, cachedFrom, cachedTo)

\* Every step keeps the last answer what the history gives.
LEMMA CacheIsNext == ASSUME Sound, CacheIs, [Next]_vars PROVE CacheIs'
<1>1. cachedFrom \in Nat /\ cachedTo \in Nat /\ Latest \in Nat /\ ServerTyped /\ Inv
  BY Numbers DEF Sound
<1>2. ASSUME UNCHANGED <<history, cachedFrom, cachedTo, cachedEvents>>, spoiled \subseteq spoiled'
      PROVE  CacheIs'
  <2>1. AllHold(spoiled') => AllHold(spoiled)
    BY <1>2 DEF AllHold
  <2>2. Latest' = Latest
    BY <1>2 DEF Latest
  <2>3. AllHold(spoiled') /\ cachedFrom > 0 =>
          /\ cachedFrom < cachedTo
          /\ cachedTo <= Latest => cachedEvents = Journal(history, cachedFrom, cachedTo)
    BY <2>1 DEF CacheIs
  <2> QED
    BY <1>2, <2>2, <2>3 DEF CacheIs
<1>3. ASSUME UNCHANGED <<cachedFrom, cachedTo, cachedEvents>>, spoiled \subseteq spoiled',
             NEW n \in Nat, n <= Latest, \A v \in 1..n : history'[v] = history[v],
             AllHold(spoiled') /\ cachedTo <= Latest' => cachedTo <= n
      PROVE  CacheIs'
  <2> SUFFICES ASSUME AllHold(spoiled'), cachedFrom > 0
               PROVE  /\ cachedFrom < cachedTo
                      /\ cachedTo <= Latest' => cachedEvents = Journal(history', cachedFrom, cachedTo)
    BY <1>3 DEF CacheIs
  <2>1. AllHold(spoiled)
    BY <1>3 DEF AllHold
  <2>2. cachedFrom < cachedTo
    BY <2>1 DEF CacheIs
  <2>3. ASSUME cachedTo <= Latest' PROVE cachedEvents = Journal(history', cachedFrom, cachedTo)
    <3>1. cachedTo <= n /\ cachedTo <= Latest
      BY <1>1, <1>3, <2>3
    <3>2. cachedEvents = Journal(history, cachedFrom, cachedTo)
      BY <2>1, <3>1 DEF CacheIs
    <3>3. 1 <= cachedFrom
      BY <1>1
    <3>4. Journal(history', cachedFrom, cachedTo) = Journal(history, cachedFrom, cachedTo)
      BY <1>1, <1>3, <2>2, <3>1, <3>3, SameJournal
    <3> QED
      BY <3>2, <3>4
  <2> QED
    BY <2>2, <2>3
<1>4. CASE CheckIn
  <2>1. /\ Latest' = Latest + 1 /\ \A v \in 1..Latest : history'[v] = history[v]
        /\ UNCHANGED <<cachedFrom, cachedTo, cachedEvents>>
        /\ spoiled \subseteq spoiled' /\ (rolledBack => "number" \in spoiled')
    BY <1>1, <1>4, HistoryGrows DEF workerVars, cacheVars
  <2>2. AllHold(spoiled') => cachedTo <= Latest
    BY <2>1 DEF AllHold, Sound, Fresh, Behind
  <2>3. PICK n \in Nat : n = Latest /\ \A v \in 1..n : history'[v] = history[v]
    BY <1>1, <2>1
  <2> QED
    BY <1>1, <1>3, <2>1, <2>2, <2>3
<1>5. CASE Rollback
  <2>1. /\ Latest' = Latest - 1 /\ Latest' \in Nat /\ \A v \in 1..Latest' : history'[v] = history[v]
        /\ UNCHANGED <<cachedFrom, cachedTo, cachedEvents>> /\ spoiled \subseteq spoiled'
    BY <1>1, <1>5, HistoryShrinks DEF workerVars, cacheVars
  <2>2. PICK n \in Nat : n = Latest' /\ \A v \in 1..n : history'[v] = history[v]
    BY <2>1
  <2>3. n <= Latest
    BY <1>1, <2>1, <2>2
  <2> QED
    BY <1>3, <2>1, <2>2, <2>3
<1>6. CASE AnswerCaughtUp \/ AnswerCached
  <2>1. UNCHANGED <<history, cachedFrom, cachedTo, cachedEvents>> /\ spoiled \subseteq spoiled'
    BY <1>1, <1>6, CaughtUpStep, CachedStep DEF serverVars, cacheVars
  <2> QED
    BY <1>2, <2>1
<1>7. CASE OpenAndTranslate
  <2>1. /\ work.step = "open" /\ cachedFrom' = work.from /\ cachedTo' = work.to
        /\ \E was \in Contents(OldVersion(work.from)) :
              cachedEvents' = Translate(work.touched, was, history[NewVersion(work.to)], work.to)
        /\ UNCHANGED <<history, spoiled>> /\ work.from \in Nat /\ work.to \in Nat
    BY <1>1, <1>7, OpenStep, Numbers DEF serverVars
  <2> SUFFICES ASSUME AllHold(spoiled)
               PROVE  /\ work.from < work.to
                      /\ cachedEvents' = Journal(history, work.from, work.to)
    BY <2>1 DEF CacheIs
  <2>2. OldVersion(work.from) = work.from /\ NewVersion(work.to) = work.to
    BY DEF AllHold, Sound, OpenKnown, OldVersion, NewVersion
  <2>3. /\ work.from < work.to /\ work.to <= Latest
        /\ work.touched = TouchedIn(history, work.from, work.to)
    BY <2>1 DEF AllHold, Sound, Fresh, WorkFresh, NoWork
  <2>4. Contents(work.from) = {history[work.from]}
    <3>1. work.from <= Latest
      BY <1>1, <2>1, <2>3
    <3> QED
      BY <3>1 DEF Contents
  <2> QED
    BY <2>1, <2>2, <2>3, <2>4 DEF Journal
<1>8. CASE Silent
  <2>1. UNCHANGED <<history, cachedFrom, cachedTo, cachedEvents>> /\ spoiled \subseteq spoiled'
    BY <1>1, <1>8, SilentSteps DEF Quiet, serverVars, cacheVars
  <2> QED
    BY <1>2, <2>1
<1>9. CASE Batched
  <2>1. BatchEnds
    BY <1>1, <1>9, TakenSteps, FailedStep DEF Batched
  <2>2. UNCHANGED <<history, cachedFrom, cachedTo, cachedEvents>> /\ spoiled \subseteq spoiled'
    BY <2>1 DEF BatchEnds, serverVars, cacheVars
  <2> QED
    BY <1>2, <2>2
<1>10. CASE Restart
  <2>1. cachedFrom' = 0
    BY <1>10 DEF Restart
  <2> QED
    BY <2>1 DEF CacheIs
<1>11. CASE UNCHANGED vars
  <2>1. UNCHANGED <<history, cachedFrom, cachedTo, cachedEvents>> /\ spoiled \subseteq spoiled'
    BY <1>11 DEF vars, serverVars, workerVars, cacheVars
  <2> QED
    BY <1>2, <2>1
<1> QED
  BY <1>4, <1>5, <1>6, <1>7, <1>8, <1>9, <1>10, <1>11, Steps

\* AnswersAreTheHistory: what is kept as the last answer is what computing it again would give.
THEOREM SpecAnswersAreTheHistory == Spec => []AnswersAreTheHistory
<1>1. Init => CacheIs
  BY DEF Init, CacheIs
<1>2. Sound /\ CacheIs /\ [Next]_vars => CacheIs'
  BY CacheIsNext
<1>3. CacheIs /\ Inv => AnswersAreTheHistory
  <2> SUFFICES ASSUME CacheIs, Inv, Free({"update", "start", "number", "rollback"}), cachedTo = Latest,
                      cachedFrom > 0
               PROVE  cachedEvents = Translate(ChangeSet(cachedFrom, cachedTo), history[cachedFrom],
                                                history[cachedTo], cachedTo)
    BY DEF AnswersAreTheHistory
  <2>1. cachedTo <= Latest
    BY Numbers
  <2>2. cachedEvents = Journal(history, cachedFrom, cachedTo)
    BY <2>1 DEF CacheIs, AllHold, Free
  <2>3. ChangeSet(cachedFrom, cachedTo) = TouchedIn(history, cachedFrom, cachedTo)
    BY DEF ChangeSet, TouchedIn
  <2> QED
    BY <2>2, <2>3 DEF Journal
<1> QED
  BY <1>1, <1>2, <1>3, SpecTelling, PTL DEF Spec, Sound

-----------------------------------------------------------------------------
(* The work queue.                                                           *)

\* An empty queue holds no entry.
LEMMA RangeOfEmpty == Range(<<>>) = {}
BY DEF Range

\* Taking an entry out of the queue leaves a queue of entries that were in it.
LEMMA RangeOfRest ==
    ASSUME NEW S, NEW s \in Seq(S), NEW i \in 1..Len(s)
    PROVE  /\ RemoveAt(s, i) \in Seq(S)
           /\ Range(RemoveAt(s, i)) \subseteq Range(s)
           /\ s[i] \in Range(s)
<1> DEFINE l == SubSeq(s, 1, i-1)
           r == SubSeq(s, i+1, Len(s))
<1>0. Len(s) \in Nat /\ (\A k \in 1..Len(s) : s[k] \in S) /\ Range(s) = {s[k] : k \in 1..Len(s)}
  BY RangeEquality, LenProperties, ElementOfSeq
<1>1. /\ l \in Seq(S) /\ Len(l) = i - 1
      /\ \A k \in 1..(i-1) : l[k] = s[k]
  BY <1>0
<1>2. /\ r \in Seq(S) /\ Len(r) = Len(s) - i
      /\ \A k \in 1..(Len(s)-i) : r[k] = s[i + k]
  BY <1>0
<1> HIDE DEF l, r
<1>3. l \o r \in Seq(S) /\ Range(l \o r) = Range(l) \cup Range(r)
  BY <1>1, <1>2, ConcatProperties, RangeConcatenation
<1>4. Range(l) \subseteq Range(s)
  BY <1>0, <1>1, RangeEquality
<1>5. Range(r) \subseteq Range(s)
  BY <1>0, <1>2, RangeEquality
<1>6. RemoveAt(s, i) = l \o r
  BY DEF RemoveAt, l, r
<1> QED
  BY <1>0, <1>3, <1>4, <1>5, <1>6

-----------------------------------------------------------------------------
(* The inductive invariant.  What the properties do not say by themselves:   *)
(* the guard of the drain loop is up exactly while a task runs, and anything *)
(* pending at all has a loop that will come to it.                           *)

AllMayRun(queue, isBlocked) == \A t \in Range(queue) : MayRun(t, isBlocked)

LoopActive == draining <=> running # {}

LoopWillCome == pending # <<>> => running # {}

QueueInv ==
    /\ QueueTypeOK
    /\ OneAtATime
    /\ LoopActive
    /\ LoopWillCome
    /\ BlockedHoldsOnlyRecovery

\* In a state of the invariant every pending entry may run.
LEMMA QueueInvMayRun == QueueInv => AllMayRun(pending, blocked)
BY DEF QueueInv, BlockedHoldsOnlyRecovery, AllMayRun, MayRun

\* A turn of the loop over a queue whose every entry may run takes its first entry.
LEMMA TurnTakesFirst ==
    ASSUME NEW queue \in Seq(Tasks), NEW isBlocked \in BOOLEAN,
           AllMayRun(queue, isBlocked), DrainTurn(queue, isBlocked, {})
    PROVE  /\ pending' \in Seq(Tasks)
           /\ Range(pending') \subseteq Range(queue)
           /\ running' \subseteq Tasks
           /\ draining' \in BOOLEAN
           /\ OneAtATime'
           /\ LoopActive'
           /\ LoopWillCome'
           /\ queue # <<>> => running' = {Head(queue)}
           /\ queue = <<>> => running' = {}
<1> DEFINE candidates == RunnableIn(queue, isBlocked)
<1>1. Len(queue) \in Nat /\ \A i \in 1..Len(queue) : queue[i] \in Tasks
  BY LenProperties, ElementOfSeq
<1>2. candidates = 1..Len(queue)
  BY <1>1, RangeEquality DEF RunnableIn, AllMayRun
<1> HIDE DEF candidates
<1>3. queue # <<>> => Len(queue) >= 1 /\ Head(queue) = queue[1]
  BY <1>1, EmptySeq
<1>4. CASE candidates = {}
  <2>1. queue = <<>>
    BY <1>2, <1>3, <1>4
  <2>2. pending' = queue /\ running' = {} /\ draining' = FALSE
    BY <1>4 DEF DrainTurn, candidates
  <2> QED
    BY <2>1, <2>2 DEF OneAtATime, LoopActive, LoopWillCome
<1>5. CASE candidates # {}
  <2>1. PICK i \in candidates : /\ IsFirst(i, candidates)
                                /\ pending' = RemoveAt(queue, i)
                                /\ running' = {} \cup {queue[i]}
                                /\ draining' = TRUE
    BY <1>5 DEF DrainTurn, candidates
  <2>2. i \in 1..Len(queue) /\ i = 1
    <3>1. i \in 1..Len(queue) /\ \A j \in 1..Len(queue) : i <= j
      BY <1>2, <2>1 DEF IsFirst
    <3>2. 1 \in 1..Len(queue)
      BY <1>1, <3>1
    <3> QED
      BY <1>1, <3>1, <3>2
  <2>3. /\ pending' \in Seq(Tasks)
        /\ Range(pending') \subseteq Range(queue)
    BY <2>1, <2>2, RangeOfRest
  <2>4. running' = {queue[1]} /\ queue[1] \in Tasks
    BY <1>1, <2>1, <2>2
  <2>5. queue # <<>>
    BY <2>2
  <2> QED
    BY <1>3, <2>1, <2>3, <2>4, <2>5 DEF OneAtATime, LoopActive, LoopWillCome
<1> QED
  BY <1>4, <1>5

\* A new queue satisfies the invariant.
LEMMA QueueInitInv == QueueInit => QueueInv
<1> SUFFICES ASSUME QueueInit PROVE QueueInv
  OBVIOUS
<1>1. Range(pending) = {}
  BY RangeOfEmpty DEF QueueInit
<1> QED
  BY <1>1, EmptySeq DEF QueueInit, QueueInv, QueueTypeOK, OneAtATime, LoopActive, LoopWillCome,
     BlockedHoldsOnlyRecovery, PromiseStates

\* What drain() does to the invariant after an entry was queued or the block lifted.
LEMMA DrainKeeps ==
    ASSUME QueueInv, NEW queue \in Seq(Tasks), NEW isBlocked \in BOOLEAN,
           AllMayRun(queue, isBlocked), Drain(queue, isBlocked)
    PROVE  /\ pending' \in Seq(Tasks)
           /\ Range(pending') \subseteq Range(queue)
           /\ running' \subseteq Tasks
           /\ draining' \in BOOLEAN
           /\ OneAtATime'
           /\ LoopActive'
           /\ LoopWillCome'
<1>1. CASE draining
  BY <1>1 DEF Drain, QueueInv, QueueTypeOK, OneAtATime, LoopActive, LoopWillCome
<1>2. CASE ~draining
  <2>1. running = {}
    BY <1>2 DEF QueueInv, LoopActive
  <2>2. DrainTurn(queue, isBlocked, {})
    BY <1>2, <2>1 DEF Drain
  <2> QED
    BY <2>2, TurnTakesFirst
<1> QED
  BY <1>1, <1>2

\* A submission that is queued keeps the invariant, whether or not a loop is active.
LEMMA SubmitKeeps ==
    ASSUME QueueInv, NEW t \in Tasks, SubmitQueued(t)
    PROVE  QueueInv'
<1>1. Append(pending, t) \in Seq(Tasks) /\ Range(Append(pending, t)) = Range(pending) \cup {t}
  <2>1. pending \in Seq(Tasks)
    BY DEF QueueInv, QueueTypeOK
  <2>2. Append(pending, t) = pending \o <<t>> /\ <<t>> \in Seq(Tasks)
    BY <2>1, AppendIsConcat
  <2>3. Range(<<t>>) = {t}
    <3>1. DOMAIN <<t>> = {1} /\ <<t>>[1] = t
      OBVIOUS
    <3> QED
      BY <3>1 DEF Range
  <2>4. Range(pending \o <<t>>) = Range(pending) \cup Range(<<t>>)
    BY <2>1, <2>2, RangeConcatenation
  <2>5. pending \o <<t>> \in Seq(Tasks)
    BY <2>1, <2>2, ConcatProperties
  <2> QED
    BY <2>2, <2>3, <2>4, <2>5
<1>2. AllMayRun(Append(pending, t), blocked) /\ blocked \in BOOLEAN
  BY <1>1, QueueInvMayRun DEF SubmitQueued, Refused, AllMayRun, MayRun, QueueInv, QueueTypeOK
<1>3. Drain(Append(pending, t), blocked)
  BY DEF SubmitQueued
<1>4. /\ pending' \in Seq(Tasks)
      /\ Range(pending') \subseteq Range(Append(pending, t))
      /\ running' \subseteq Tasks
      /\ draining' \in BOOLEAN
      /\ OneAtATime'
      /\ LoopActive'
      /\ LoopWillCome'
  BY <1>1, <1>2, <1>3, DrainKeeps
<1>5. BlockedHoldsOnlyRecovery'
  BY <1>2, <1>4 DEF SubmitQueued, AllMayRun, MayRun, BlockedHoldsOnlyRecovery
<1>6. QueueTypeOK'
  BY <1>4 DEF SubmitQueued, QueueInv, QueueTypeOK, PromiseStates
<1> QED
  BY <1>4, <1>5, <1>6 DEF QueueInv

\* The end of a task keeps the invariant and starts the first pending entry.
LEMMA FinishKeeps ==
    ASSUME QueueInv, NEW t \in Tasks, Finish(t)
    PROVE  QueueInv' /\ (pending # <<>> => running' = {Head(pending)})
<1>1. running \ {t} = {}
  BY DEF Finish, QueueInv, OneAtATime
<1>2. DrainTurn(pending, blocked, {}) /\ pending \in Seq(Tasks) /\ blocked \in BOOLEAN
  BY <1>1 DEF Finish, QueueInv, QueueTypeOK
<1>3. /\ pending' \in Seq(Tasks)
      /\ Range(pending') \subseteq Range(pending)
      /\ running' \subseteq Tasks
      /\ draining' \in BOOLEAN
      /\ OneAtATime'
      /\ LoopActive'
      /\ LoopWillCome'
      /\ pending # <<>> => running' = {Head(pending)}
  BY <1>2, QueueInvMayRun, TurnTakesFirst
<1>4. BlockedHoldsOnlyRecovery'
  BY <1>3 DEF Finish, QueueInv, BlockedHoldsOnlyRecovery
<1>5. done' \subseteq Tasks
  BY DEF Finish, QueueInv, QueueTypeOK
<1>6. QueueTypeOK'
  BY <1>3, <1>5 DEF Finish, QueueInv, QueueTypeOK, PromiseStates
<1> QED
  BY <1>3, <1>4, <1>6 DEF QueueInv

\* Lifting the block keeps the invariant.
LEMMA UnblockKeeps ==
    ASSUME QueueInv, Unblock
    PROVE  QueueInv'
<1>1. AllMayRun(pending, FALSE) /\ Drain(pending, FALSE) /\ pending \in Seq(Tasks)
  BY DEF AllMayRun, MayRun, Unblock, QueueInv, QueueTypeOK
<1>2. /\ pending' \in Seq(Tasks)
      /\ Range(pending') \subseteq Range(pending)
      /\ running' \subseteq Tasks
      /\ draining' \in BOOLEAN
      /\ OneAtATime'
      /\ LoopActive'
      /\ LoopWillCome'
  BY <1>1, DrainKeeps
<1> QED
  BY <1>2 DEF Unblock, QueueInv, QueueTypeOK, BlockedHoldsOnlyRecovery

\* Every step keeps the invariant.
LEMMA QueueNextInv == QueueInv /\ [QueueNext]_queueVars => QueueInv'
<1> SUFFICES ASSUME QueueInv, [QueueNext]_queueVars PROVE QueueInv'
  OBVIOUS
<1>1. ASSUME NEW t \in Tasks, SubmitRefused(t) PROVE QueueInv'
  BY <1>1 DEF SubmitRefused, QueueInv, QueueTypeOK, PromiseStates, OneAtATime, LoopActive,
     LoopWillCome, BlockedHoldsOnlyRecovery
<1>2. ASSUME NEW t \in Tasks, SubmitFolded(t) PROVE QueueInv'
  <2>1. PICK i \in Absorbers(t) : carries' = [carries EXCEPT ![pending[i]] = @ \cup {t}]
    BY <1>2 DEF SubmitFolded
  <2>2. carries' \in [Tasks -> SUBSET Tasks]
    BY <1>2, <2>1 DEF QueueInv, QueueTypeOK
  <2> QED
    BY <1>2, <2>2 DEF SubmitFolded, QueueInv, QueueTypeOK, PromiseStates, OneAtATime, LoopActive,
       LoopWillCome, BlockedHoldsOnlyRecovery
<1>3. ASSUME NEW t \in Tasks, SubmitQueued(t) PROVE QueueInv'
  BY <1>3, SubmitKeeps
<1>4. ASSUME NEW t \in Tasks, Finish(t) PROVE QueueInv'
  BY <1>4, FinishKeeps
<1>5. CASE Block
  <2>1. pending' = <<>> /\ Range(pending') = {} /\ pending' \in Seq(Tasks)
    BY <1>5, EmptySeq, RangeOfEmpty DEF Block
  <2> QED
    BY <1>5, <2>1 DEF Block, QueueInv, QueueTypeOK, PromiseStates, OneAtATime, LoopActive,
       LoopWillCome, BlockedHoldsOnlyRecovery
<1>6. CASE Unblock
  BY <1>6, UnblockKeeps
<1>7. CASE UNCHANGED queueVars
  BY <1>7 DEF queueVars, QueueInv, QueueTypeOK, OneAtATime, LoopActive, LoopWillCome,
     BlockedHoldsOnlyRecovery
<1> QED
  BY <1>1, <1>2, <1>3, <1>4, <1>5, <1>6, <1>7 DEF QueueNext

-----------------------------------------------------------------------------

\* The inductive invariant holds in every reachable state.
THEOREM SpecQueueInv == QueueSpec => []QueueInv
<1> QED
  BY QueueInitInv, QueueNextInv, PTL DEF QueueSpec

\* The state is well typed.
THEOREM SpecQueueTypeOK == QueueSpec => []QueueTypeOK
<1>1. QueueInv => QueueTypeOK
  BY DEF QueueInv
<1> QED
  BY <1>1, SpecQueueInv, PTL

\* Whatever callers, blocks and unblocks do between the awaits of a task, no two tasks
\* overlap.
THEOREM SpecOneAtATime == QueueSpec => []OneAtATime
<1>1. QueueInv => OneAtATime
  BY DEF QueueInv
<1> QED
  BY <1>1, SpecQueueInv, PTL

\* An entry that may run always has a loop coming to it.
THEOREM SpecNothingStranded == QueueSpec => []NothingStranded
<1>1. QueueInv => NothingStranded
  <2> SUFFICES ASSUME QueueInv, RunnableIn(pending, blocked) # {} PROVE running # {}
    BY DEF NothingStranded
  <2>1. pending # <<>>
    BY EmptySeq DEF RunnableIn
  <2> QED
    BY <2>1 DEF QueueInv, LoopWillCome
<1> QED
  BY <1>1, SpecQueueInv, PTL

\* A blocked queue holds nothing but recovery work.
THEOREM SpecBlockedHoldsOnlyRecovery == QueueSpec => []BlockedHoldsOnlyRecovery
<1>1. QueueInv => BlockedHoldsOnlyRecovery
  BY DEF QueueInv
<1> QED
  BY <1>1, SpecQueueInv, PTL

\* Tasks start in the order they were submitted, blocks notwithstanding.
THEOREM SpecStartsInOrder == QueueSpec => StartsInOrder
<1> DEFINE TakesFirst == \A t \in running' \ running : pending # <<>> => t = Head(pending)
<1>1. ASSUME QueueInv, [QueueNext]_queueVars PROVE TakesFirst
  <2> SUFFICES ASSUME NEW t \in running' \ running, pending # <<>> PROVE t = Head(pending)
    OBVIOUS
  <2>1. draining
    BY <1>1 DEF QueueInv, LoopActive, LoopWillCome
  <2>2. PICK u \in Tasks : Finish(u)
    BY <1>1, <2>1 DEF QueueNext, queueVars, SubmitRefused, SubmitFolded, SubmitQueued, Block, Unblock, Drain
  <2> QED
    BY <1>1, <2>2, FinishKeeps
<1> QED
  BY <1>1, SpecQueueInv, PTL DEF QueueSpec, StartsInOrder
=============================================================================
