---------------------------- MODULE FactCacheProofs ----------------------------
(***************************************************************************)
(* For any functions, any text a decompile shows, any values, edits, runs  *)
(* and scripts: a stored stamp is never newer than the facts beside it, an *)
(* entry found current holds the facts of the program as it is, and so     *)
(* does what a quiet extraction leaves.                                    *)
(*                                                                         *)
(* A stamp may be older than the facts: the memo of the types' stamps is   *)
(* one per script, and a function's labels are read after its stamp.  What *)
(* makes that harmless is that the part it is older in was edited during   *)
(* an extraction, so that the program has moved past the stamp; it stays   *)
(* past it unless that part is taken back to an earlier value.             *)
(***************************************************************************)
EXTENDS FactCache, TLAPS

Texts == UNION {[Printed(f) -> Values] : f \in Funs}
Sights == UNION {[Seen(f) -> Values] : f \in Funs}
TypeStamps == [TypeParts -> Values]

Before == {"texts", "stamps", "map", "types", "check"}
PCs == Before \cup {"idle", "facts", "labels", "attach"}
Steps == {"waiting", "stamped", "decompiled", "read", "done"}

Rows == [step : Steps, mod : Int, self : Values, text : Texts \cup {Nothing},
         seen : Sights \cup {Nothing}, deps : TypeStamps \cup {Nothing},
         stable : BOOLEAN, labels : Values]

RunType ==
    [pc : PCs, cache : {Nothing, Load(file)}, text : [Funs -> Texts \cup {Nothing}],
     self : [Funs -> Values \cup {-1}], map : Values \cup {-1}, types : TypeStamps \cup {Nothing},
     hits : SUBSET Funs, todo : SUBSET Funs, row : [Funs -> Rows],
     memo : TypeStamps \cup {Nothing}, quiet : BOOLEAN]

ProgramTyped ==
    /\ program \in [Parts -> Values] /\ highest \in [Parts -> Values]
    /\ \A p \in Parts : program[p] <= highest[p]
    /\ edits \in Int /\ script \in 0..MaxScript
    /\ during \subseteq Parts

\* How far each function's row is tells what of it has been filled.
RowTyped(f) ==
    LET row == run.row[f]
    IN  /\ row.step \in {"decompiled", "read", "done"} =>
              row.seen \in [Seen(f) -> Values] /\ row.text \in Texts
        /\ row.step \in {"read", "done"} => row.deps \in TypeStamps

RunTyped ==
    /\ run \in RunType
    /\ run.cache = IF run.pc = "idle" THEN Nothing ELSE Load(file)
    /\ run.pc # "idle" => attached = Nothing
    /\ run.pc \in Before \cup {"idle"} =>
          run.memo = Nothing /\ \A f \in Funs : run.row[f].step = "waiting"
    /\ run.pc = "facts" => \A f \in Funs : run.row[f].step # "done"
    /\ run.pc = "labels" => \A f \in run.todo : run.row[f].step \in {"read", "done"}
    /\ run.pc = "attach" => \A f \in run.todo : run.row[f].step = "done"
    /\ run.pc \in {"facts", "labels", "attach"} =>
          /\ Funs \ run.hits \subseteq run.todo
          /\ run.hits \subseteq DOMAIN run.cache
    /\ run.pc \notin {"idle", "texts"} => \A f \in Funs : run.text[f] # Nothing
    /\ \A f \in Funs : RowTyped(f) /\ (run.row[f].step # "waiting" => f \in run.todo)

-----------------------------------------------------------------------------
(* The stamps and what is beside them.                                       *)

Unspoiled == Free({"program", "reverted"})

\* The program has moved past a value of p that an extraction saw.
Passed(p, v) == p \in during /\ v < program[p]

\* The stamps of the types are those of what was decompiled, or the program has moved past them.
DepsFollow(deps, seen) ==
    \A p \in TypeParts : deps[p] = seen[p] \/ (deps[p] < seen[p] /\ Passed(p, deps[p]))

MemoInv ==
    Unspoiled /\ run.pc = "facts" /\ run.memo # Nothing =>
        \A p \in TypeParts : run.memo[p] = program[p] \/ Passed(p, run.memo[p])

\* A row whose modification number is still the program's is of the program as it is.
RowUnmoved(f) ==
    LET row == run.row[f]
    IN  /\ row.step # "waiting" => row.mod <= edits
        /\ row.step \in {"stamped", "decompiled"} /\ row.mod = edits => row.self = program[f]
        /\ row.step = "decompiled" /\ row.mod = edits => row.seen = Decompiled(f)

RowSound(f) ==
    LET row == run.row[f]
    IN  /\ row.step \in {"decompiled", "read"} /\ run.pc = "facts" => row.seen["map"] = program["map"]
        /\ run.pc \in {"labels", "attach"} /\ f \in run.todo => run.map = row.seen["map"]
        /\ row.stable /\ row.step \in {"read", "done"} =>
              row.self = row.seen[f] /\ DepsFollow(row.deps, row.seen)
        /\ row.stable /\ row.step = "read" => row.self = program[f] \/ Passed(f, row.self)
        /\ row.stable /\ row.step = "done" => row.labels = row.self \/ Passed(f, row.self)

RowsInv == \A f \in Funs : RowUnmoved(f) /\ (Unspoiled => RowSound(f))

EntryTyped(f, e) ==
    /\ e \in [map : Values \cup {-1}, self : Values, deps : TypeStamps, text : Texts,
              facts : [seen : [Seen(f) -> Values], text : Texts, labels : Values, script : Int]]
    /\ e.text = e.facts.text /\ e.facts.script = file.script

EntrySound(f, e) ==
    /\ e.map = e.facts.seen["map"] /\ e.self = e.facts.seen[f]
    /\ DepsFollow(e.deps, e.facts.seen)
    /\ e.facts.labels = e.self \/ Passed(f, e.self)

FileInv ==
    /\ DOMAIN file.entries \subseteq Funs
    /\ \A f \in DOMAIN file.entries :
          EntryTyped(f, file.entries[f]) /\ (Unspoiled => EntrySound(f, file.entries[f]))

-----------------------------------------------------------------------------
(* A run nobody edited the program in.                                       *)

QuietRow(f) ==
    LET row == run.row[f]
    IN  /\ row.step # "waiting" => row.mod = edits /\ row.self = program[f]
        /\ row.step \in {"decompiled", "read", "done"} =>
              row.text = TextOf(f) /\ row.seen = Decompiled(f)
        /\ row.step \in {"read", "done"} => row.stable /\ row.deps = TypesNow
        /\ row.step = "done" => row.labels = program[f]

QuietStamps ==
    /\ \A f \in Funs : run.text[f] \in {Nothing, TextOf(f)}
    /\ run.pc \in Before => \A f \in Funs : run.self[f] \in {-1, program[f]}
    /\ run.pc \in {"map", "types"} => \A f \in Funs : run.self[f] = program[f]
    /\ run.pc = "types" => run.map = program["map"]
    /\ run.pc = "check" /\ run.cache # Nothing =>
          /\ \A f \in Funs : run.self[f] = program[f]
          /\ run.map = program["map"] /\ run.types = TypesNow
    /\ run.pc \in {"map", "types", "stamps", "check", "facts", "labels", "attach"} =>
          \A f \in Funs : run.text[f] = TextOf(f)

QuietHits ==
    /\ run.pc \in {"facts", "labels", "attach"} =>
          \A f \in run.hits : Current(run.cache[f], TextOf(f), program["map"], program[f], TypesNow)
    /\ run.pc = "labels" \/ (run.pc = "attach" /\ run.todo # {}) => run.map = program["map"]

QuietInv ==
    run.quiet /\ run.pc # "idle" =>
        QuietStamps /\ QuietHits /\ run.memo \in {Nothing, TypesNow} /\ \A f \in Funs : QuietRow(f)

IInv == ProgramTyped /\ RunTyped /\ MemoInv /\ RowsInv /\ FileInv /\ QuietInv /\ QuietRunIsRight

-----------------------------------------------------------------------------
(* What is read of the program.                                              *)

\* The parts a decompile sees are the function, the two of the type, and the memory map.
LEMMA Names ==
    ASSUME NEW f \in Funs
    PROVE  /\ f \notin TypeParts /\ f # "map" /\ "map" \notin TypeParts
           /\ f \in Seen(f) /\ "map" \in Seen(f) /\ TypeParts \subseteq Seen(f)
           /\ Seen(f) \subseteq Parts /\ Printed(f) \subseteq Parts
  BY FactAssumption DEF TypeParts, Seen, Printed, Parts

\* What is read of the program has the values the program has.
LEMMA ReadTyped ==
    ASSUME ProgramTyped, NEW f \in Funs
    PROVE  /\ TextOf(f) \in Texts
           /\ Decompiled(f) \in [Seen(f) -> Values] /\ Decompiled(f) \in Sights
           /\ \A p \in Seen(f) : Decompiled(f)[p] = program[p]
           /\ TypesNow \in TypeStamps /\ \A p \in TypeParts : TypesNow[p] = program[p]
           /\ program[f] \in Values /\ program["map"] \in Values
<1>1. TextOf(f) \in [Printed(f) -> Values] /\ Decompiled(f) \in [Seen(f) -> Values]
  BY Names DEF TextOf, Decompiled, Restrict, ProgramTyped
<1>2. TextOf(f) \in Texts /\ Decompiled(f) \in Sights
  BY <1>1 DEF Texts, Sights
<1>3. TypeParts \subseteq Parts /\ f \in Parts /\ "map" \in Parts
  BY DEF Parts
<1>4. /\ TypesNow \in TypeStamps /\ \A p \in TypeParts : TypesNow[p] = program[p]
      /\ program[f] \in Values /\ program["map"] \in Values
  BY <1>3 DEF TypesNow, TypeStamps, Restrict, ProgramTyped
<1>5. \A p \in Seen(f) : Decompiled(f)[p] = program[p]
  BY DEF Decompiled, Restrict
<1> QED
  BY <1>1, <1>2, <1>4, <1>5

\* The fields a run's record has, and a row's.
LEMMA RunFields ==
    ASSUME RunTyped, NEW f \in Funs
    PROVE  /\ run \in RunType /\ run.row \in [Funs -> Rows] /\ run.row[f] \in Rows
           /\ run.row[f].mod \in Int /\ run.row[f].self \in Values
  BY DEF RunTyped, RunType, Rows

-----------------------------------------------------------------------------
(* What each action of a row changes.                                        *)

\* Everything but the extraction stays.
Still == UNCHANGED <<program, highest, edits, script, during, spoiled, file, attached>>

\* And of the extraction everything but the row of f.
OthersStay(f) ==
    /\ run'.cache = run.cache /\ run'.text = run.text /\ run'.self = run.self
    /\ run'.types = run.types /\ run'.hits = run.hits /\ run'.todo = run.todo
    /\ run'.quiet = run.quiet /\ run'.map = run.map
    /\ \A g \in Funs : g # f => run'.row[g] = run.row[g]
    /\ Still

\* The modification number and the stamp go into the row.
LEMMA ReadSelfEffect ==
    ASSUME ProgramTyped, RunTyped, NEW f \in Funs, ReadSelf(f)
    PROVE  /\ run.pc = "facts" /\ f \in run.todo /\ run.row[f].step = "waiting"
           /\ OthersStay(f) /\ run' \in RunType
           /\ run'.pc = run.pc /\ run'.memo = run.memo
           /\ run'.row[f].step = "stamped" /\ run'.row[f].mod = edits
           /\ run'.row[f].self = program[f]
<1>1. run \in RunType /\ run.row[f] \in Rows
  BY RunFields
<1> DEFINE new == [run.row[f] EXCEPT !.step = "stamped", !.mod = edits, !.self = program[f]]
<1>2. new \in Rows /\ new.step = "stamped" /\ new.mod = edits /\ new.self = program[f]
  BY <1>1, ReadTyped DEF Rows, Steps, ProgramTyped
<1>3. run' = [run EXCEPT !.row = [run.row EXCEPT ![f] = new]]
  BY DEF ReadSelf
<1> HIDE DEF new
<1>4. /\ run' \in RunType /\ run'.row[f] = new
      /\ \A g \in Funs : g # f => run'.row[g] = run.row[g]
      /\ run'.pc = run.pc /\ run'.memo = run.memo
      /\ run'.cache = run.cache /\ run'.text = run.text /\ run'.self = run.self
      /\ run'.types = run.types /\ run'.hits = run.hits /\ run'.todo = run.todo
      /\ run'.quiet = run.quiet /\ run'.map = run.map
  BY <1>1, <1>2, <1>3 DEF RunType
<1> QED
  BY <1>2, <1>4 DEF ReadSelf, Row, OthersStay, Still, Outside

\* The text and what it was made from go into the row.
LEMMA DecompileEffect ==
    ASSUME ProgramTyped, RunTyped, NEW f \in Funs, Decompile(f)
    PROVE  /\ run.pc = "facts" /\ f \in run.todo /\ run.row[f].step = "stamped"
           /\ OthersStay(f) /\ run' \in RunType
           /\ run'.pc = run.pc /\ run'.memo = run.memo
           /\ run'.row[f].step = "decompiled" /\ run'.row[f].mod = run.row[f].mod
           /\ run'.row[f].self = run.row[f].self
           /\ run'.row[f].text = TextOf(f) /\ run'.row[f].seen = Decompiled(f)
<1>1. run \in RunType /\ run.row[f] \in Rows
  BY RunFields
<1> DEFINE new == [run.row[f] EXCEPT !.step = "decompiled", !.text = TextOf(f), !.seen = Decompiled(f)]
<1>2. /\ new \in Rows /\ new.step = "decompiled" /\ new.mod = run.row[f].mod
      /\ new.self = run.row[f].self /\ new.text = TextOf(f) /\ new.seen = Decompiled(f)
  BY <1>1, ReadTyped DEF Rows, Steps
<1>3. run' = [run EXCEPT !.row = [run.row EXCEPT ![f] = new]]
  BY DEF Decompile
<1> HIDE DEF new
<1>4. /\ run' \in RunType /\ run'.row[f] = new
      /\ \A g \in Funs : g # f => run'.row[g] = run.row[g]
      /\ run'.pc = run.pc /\ run'.memo = run.memo
      /\ run'.cache = run.cache /\ run'.text = run.text /\ run'.self = run.self
      /\ run'.types = run.types /\ run'.hits = run.hits /\ run'.todo = run.todo
      /\ run'.quiet = run.quiet /\ run'.map = run.map
  BY <1>1, <1>2, <1>3 DEF RunType
<1> QED
  BY <1>2, <1>4 DEF Decompile, Row, OthersStay, Still, Outside

\* The memo, made if there is none, goes into the row, and whether nothing was edited since.
LEMMA ReadTypesEffect ==
    ASSUME ProgramTyped, RunTyped, NEW f \in Funs, ReadTypes(f)
    PROVE  /\ run.pc = "facts" /\ f \in run.todo /\ run.row[f].step = "decompiled"
           /\ OthersStay(f) /\ run' \in RunType
           /\ run'.pc = run.pc
           /\ run'.memo = (IF run.memo = Nothing THEN TypesNow ELSE run.memo)
           /\ run'.memo \in TypeStamps
           /\ run'.row[f].step = "read" /\ run'.row[f].mod = run.row[f].mod
           /\ run'.row[f].self = run.row[f].self
           /\ run'.row[f].text = run.row[f].text /\ run'.row[f].seen = run.row[f].seen
           /\ run'.row[f].deps = run'.memo /\ run'.row[f].stable = (edits = run.row[f].mod)
<1>1. run \in RunType /\ run.row[f] \in Rows
  BY RunFields
<1> DEFINE memo == IF run.memo = Nothing THEN TypesNow ELSE run.memo
           stable == (edits = run.row[f].mod)
           new == [run.row[f] EXCEPT !.step = "read", !.deps = memo, !.stable = stable]
<1>2. memo \in TypeStamps
  BY <1>1, ReadTyped DEF RunType
<1>3. stable \in BOOLEAN
  OBVIOUS
<1>4. run' = [run EXCEPT !.row[f].step = "read", !.row[f].deps = memo,
                         !.row[f].stable = stable, !.memo = memo]
  BY DEF ReadTypes
<1> HIDE DEF memo, stable
<1>5. /\ new \in Rows /\ new.step = "read" /\ new.mod = run.row[f].mod
      /\ new.self = run.row[f].self /\ new.text = run.row[f].text
      /\ new.seen = run.row[f].seen /\ new.deps = memo /\ new.stable = stable
  BY <1>1, <1>2, <1>3 DEF Rows, Steps
<1>6. run' = [run EXCEPT !.row = [run.row EXCEPT ![f] = new], !.memo = memo]
  <2>1. [run EXCEPT !.row[f].step = "read", !.row[f].deps = memo, !.row[f].stable = stable] =
            [run EXCEPT !.row = [run.row EXCEPT ![f] = new]]
    OBVIOUS
  <2> HIDE DEF new
  <2> QED
    BY <1>4, <2>1
<1> HIDE DEF new
<1>7. /\ run' \in RunType /\ run'.row[f] = new
      /\ \A g \in Funs : g # f => run'.row[g] = run.row[g]
      /\ run'.pc = run.pc /\ run'.memo = memo
      /\ run'.cache = run.cache /\ run'.text = run.text /\ run'.self = run.self
      /\ run'.types = run.types /\ run'.hits = run.hits /\ run'.todo = run.todo
      /\ run'.quiet = run.quiet /\ run'.map = run.map
  BY <1>1, <1>2, <1>5, <1>6 DEF RunType
<1> QED
  BY <1>2, <1>5, <1>7 DEF ReadTypes, Row, OthersStay, Still, Outside, memo, stable

\* The labels complete the row; the last one ends the script.
LEMMA ReadLabelsEffect ==
    ASSUME ProgramTyped, RunTyped, NEW f \in Funs, ReadLabels(f)
    PROVE  /\ run.pc = "labels" /\ f \in run.todo /\ run.row[f].step = "read"
           /\ OthersStay(f) /\ run' \in RunType
           /\ run'.pc = (IF \A g \in run.todo : run'.row[g].step = "done" THEN "attach" ELSE "labels")
           /\ run'.memo = run.memo
           /\ run'.row[f].step = "done" /\ run'.row[f].mod = run.row[f].mod
           /\ run'.row[f].self = run.row[f].self
           /\ run'.row[f].text = run.row[f].text /\ run'.row[f].seen = run.row[f].seen
           /\ run'.row[f].deps = run.row[f].deps /\ run'.row[f].stable = run.row[f].stable
           /\ run'.row[f].labels = program[f]
<1>1. run \in RunType /\ run.row[f] \in Rows /\ run.row \in [Funs -> Rows]
  BY RunFields
<1> DEFINE new == [run.row[f] EXCEPT !.step = "done", !.labels = program[f]]
           row == [run.row EXCEPT ![f] = new]
           pc == IF \A g \in run.todo : row[g].step = "done" THEN "attach" ELSE "labels"
<1>2. run' = [run EXCEPT !.row = row, !.pc = pc]
  <2> DEFINE set == [run.row EXCEPT ![f].step = "done", ![f].labels = program[f]]
  <2>1. set = row
    BY <1>1
  <2>2. run' = [run EXCEPT !.row = set,
                          !.pc = IF \A g \in run.todo : set[g].step = "done" THEN "attach"
                                 ELSE "labels"]
    BY DEF ReadLabels
  <2> HIDE DEF set, row
  <2> QED
    BY <2>1, <2>2
<1>3. /\ new \in Rows /\ new.step = "done" /\ new.mod = run.row[f].mod
      /\ new.self = run.row[f].self /\ new.text = run.row[f].text
      /\ new.seen = run.row[f].seen /\ new.deps = run.row[f].deps
      /\ new.stable = run.row[f].stable /\ new.labels = program[f]
  BY <1>1, ReadTyped DEF Rows, Steps
<1> HIDE DEF new
<1>4. row \in [Funs -> Rows] /\ row[f] = new /\ \A g \in Funs : g # f => row[g] = run.row[g]
  BY <1>1, <1>3
<1>5. pc \in PCs
  BY DEF PCs
<1> HIDE DEF pc
<1>6. /\ run' \in RunType /\ run'.row = row
      /\ run'.pc = pc /\ run'.memo = run.memo
      /\ run'.cache = run.cache /\ run'.text = run.text /\ run'.self = run.self
      /\ run'.types = run.types /\ run'.hits = run.hits /\ run'.todo = run.todo
      /\ run'.quiet = run.quiet /\ run'.map = run.map
  <2> HIDE DEF row
  <2> QED
    BY <1>1, <1>2, <1>4, <1>5 DEF RunType
<1>7. run'.row[f] = new /\ \A g \in Funs : g # f => run'.row[g] = run.row[g]
  BY <1>4, <1>6
<1> HIDE DEF row
<1>8. run'.pc = (IF \A g \in run.todo : run'.row[g].step = "done" THEN "attach" ELSE "labels")
  BY <1>6 DEF pc
<1> QED
  BY <1>3, <1>6, <1>7, <1>8 DEF ReadLabels, OthersStay, Still, Outside

\* The rows stay, and what stamps are about goes on to the labels.
LEMMA EndScriptEffect ==
    ASSUME ProgramTyped, RunTyped, EndScript
    PROVE  /\ run.pc = "facts" /\ \A f \in run.todo : run.row[f].step = "read"
           /\ run' \in RunType /\ run'.pc = "labels" /\ run'.map = program["map"]
           /\ run'.row = run.row /\ run'.memo = run.memo
           /\ run'.cache = run.cache /\ run'.text = run.text /\ run'.self = run.self
           /\ run'.types = run.types /\ run'.hits = run.hits /\ run'.todo = run.todo
           /\ run'.quiet = run.quiet
           /\ Still
<1>1. run \in RunType
  BY DEF RunTyped
<1>2. program["map"] \in Values
  BY DEF ProgramTyped, Parts
<1>3. run' = [run EXCEPT !.pc = "labels", !.map = program["map"]]
  BY DEF EndScript
<1>4. /\ run' \in RunType /\ run'.pc = "labels" /\ run'.map = program["map"]
      /\ run'.row = run.row /\ run'.memo = run.memo
      /\ run'.cache = run.cache /\ run'.text = run.text /\ run'.self = run.self
      /\ run'.types = run.types /\ run'.hits = run.hits /\ run'.todo = run.todo
      /\ run'.quiet = run.quiet
  BY <1>1, <1>2, <1>3 DEF RunType, PCs
<1> QED
  BY <1>4 DEF EndScript, Still, Outside

-----------------------------------------------------------------------------
(* What the other actions change.                                            *)

\* A run begins with the entries of its own scripts.
LEMMA StartRunEffect ==
    ASSUME StartRun
    PROVE  /\ run.pc = "idle" /\ run' \in RunType
           /\ run'.pc = "texts" /\ run'.cache = Load(file)
           /\ run'.text = [f \in Funs |-> Nothing] /\ run'.self = [f \in Funs |-> -1]
           /\ run'.memo = Nothing /\ \A f \in Funs : run'.row[f].step = "waiting"
           /\ attached' = Nothing
           /\ UNCHANGED <<program, highest, edits, script, during, spoiled, file>>
<1>1. NoRun \in RunType /\ NoRow \in Rows
  BY FactAssumption DEF NoRun, RunType, PCs, NoRow, Rows, Steps, Values
<1>2. run' = [NoRun EXCEPT !.pc = "texts", !.cache = Load(file)]
  BY DEF StartRun
<1>3. /\ NoRun.text = [f \in Funs |-> Nothing] /\ NoRun.self = [f \in Funs |-> -1]
      /\ NoRun.memo = Nothing /\ \A f \in Funs : NoRun.row[f].step = "waiting"
  BY DEF NoRun, NoRow
<1>4. /\ run' \in RunType /\ run'.pc = "texts" /\ run'.cache = Load(file)
      /\ run'.text = NoRun.text /\ run'.self = NoRun.self /\ run'.memo = NoRun.memo
      /\ run'.row = NoRun.row
  BY <1>1, <1>2 DEF RunType, PCs, Before
<1> QED
  BY <1>3, <1>4 DEF StartRun, Outside

\* What the actions before the check leave alone.
Preparing ==
    /\ run'.cache = run.cache /\ run'.hits = run.hits /\ run'.todo = run.todo
    /\ run'.row = run.row /\ run'.memo = run.memo /\ run'.quiet = run.quiet
    /\ Still

\* One text more; with the last of them the stamps are next, if there is a cache.
LEMMA ReadTextEffect ==
    ASSUME ProgramTyped, RunTyped, ReadText
    PROVE  /\ run.pc = "texts" /\ Preparing /\ run' \in RunType
           /\ run'.self = run.self
           /\ run'.pc \in {"texts", "stamps", "check"}
           /\ run'.pc # "texts" => \A f \in Funs : run'.text[f] # Nothing
           /\ run'.pc = "check" => run.cache = Nothing
           /\ \A f \in Funs : run'.text[f] \in {run.text[f], TextOf(f)}
<1>1. PICK f \in Funs :
         LET text == [run.text EXCEPT ![f] = TextOf(f)]
         IN  run' = [run EXCEPT !.text = text,
                       !.pc = IF Nothing \in Range(text) THEN "texts"
                              ELSE IF run.cache = Nothing THEN "check" ELSE "stamps"]
  BY DEF ReadText
<1> DEFINE text == [run.text EXCEPT ![f] = TextOf(f)]
           pc == IF Nothing \in Range(text) THEN "texts"
                 ELSE IF run.cache = Nothing THEN "check" ELSE "stamps"
<1>2. run' = [run EXCEPT !.text = text, !.pc = pc]
  BY <1>1
<1>3. run \in RunType
  BY DEF RunTyped
<1>4. /\ text \in [Funs -> Texts \cup {Nothing}]
      /\ \A g \in Funs : text[g] \in {run.text[g], TextOf(g)}
  BY <1>3, ReadTyped DEF RunType
<1> HIDE DEF text
<1>5. /\ pc \in {"texts", "stamps", "check"} /\ pc \in PCs
      /\ pc # "texts" => \A g \in Funs : text[g] # Nothing
      /\ pc = "check" => run.cache = Nothing
  BY <1>4 DEF Range, PCs, Before
<1> HIDE DEF pc
<1>6. /\ run' \in RunType /\ run'.text = text /\ run'.pc = pc
      /\ run'.self = run.self
      /\ run'.cache = run.cache /\ run'.hits = run.hits /\ run'.todo = run.todo
      /\ run'.row = run.row /\ run'.memo = run.memo /\ run'.quiet = run.quiet
  BY <1>2, <1>3, <1>4, <1>5 DEF RunType
<1> QED
  BY <1>4, <1>5, <1>6 DEF ReadText, Preparing, Still, Outside

\* One stamp more, of a function, of the program or of the types.
LEMMA ReadStampEffect ==
    ASSUME ProgramTyped, RunTyped, ReadStamp
    PROVE  /\ Preparing /\ run' \in RunType
           /\ run'.text = run.text
           /\ \/ /\ run.pc = "stamps" /\ run'.pc \in {"stamps", "map"}
                 /\ \A f \in Funs : run'.self[f] \in {run.self[f], program[f]}
                 /\ run'.pc = "map" => \A f \in Funs : run'.self[f] # -1
              \/ /\ run.pc = "map" /\ run'.pc = "types"
                 /\ run'.self = run.self /\ run'.map = program["map"]
              \/ /\ run.pc = "types" /\ run'.pc = "check"
                 /\ run'.self = run.self /\ run'.map = run.map /\ run'.types = TypesNow
<1>1. run \in RunType
  BY DEF RunTyped
<1>2. CASE /\ run.pc = "map"
           /\ run' = [run EXCEPT !.map = program["map"], !.pc = "types"]
  <2>1. program["map"] \in Values
    BY DEF ProgramTyped, Parts
  <2>2. /\ run' \in RunType /\ run'.pc = "types" /\ run'.map = program["map"]
        /\ run'.self = run.self /\ run'.text = run.text
        /\ run'.cache = run.cache /\ run'.hits = run.hits /\ run'.todo = run.todo
        /\ run'.row = run.row /\ run'.memo = run.memo /\ run'.quiet = run.quiet
    BY <1>1, <1>2, <2>1 DEF RunType, PCs, Before
  <2> QED
    BY <1>2, <2>2 DEF ReadStamp, Preparing, Still, Outside
<1>3. CASE /\ run.pc = "types"
           /\ run' = [run EXCEPT !.types = TypesNow, !.pc = "check"]
  <2>1. TypesNow \in TypeStamps
    <3>1. TypeParts \subseteq Parts
      BY DEF Parts
    <3> QED
      BY <3>1 DEF TypesNow, TypeStamps, Restrict, ProgramTyped
  <2>2. /\ run' \in RunType /\ run'.pc = "check" /\ run'.types = TypesNow
        /\ run'.self = run.self /\ run'.text = run.text /\ run'.map = run.map
        /\ run'.cache = run.cache /\ run'.hits = run.hits /\ run'.todo = run.todo
        /\ run'.row = run.row /\ run'.memo = run.memo /\ run'.quiet = run.quiet
    BY <1>1, <1>3, <2>1 DEF RunType, PCs, Before
  <2> QED
    BY <1>3, <2>2 DEF ReadStamp, Preparing, Still, Outside
<1>4. ASSUME NEW f \in Funs, run.pc = "stamps",
             LET self == [run.self EXCEPT ![f] = program[f]]
             IN  run' = [run EXCEPT !.self = self, !.pc = IF -1 \in Range(self) THEN "stamps" ELSE "map"]
      PROVE  /\ Preparing /\ run' \in RunType /\ run'.text = run.text
             /\ run'.pc \in {"stamps", "map"}
             /\ \A g \in Funs : run'.self[g] \in {run.self[g], program[g]}
             /\ run'.pc = "map" => \A g \in Funs : run'.self[g] # -1
  <2> DEFINE self == [run.self EXCEPT ![f] = program[f]]
             pc == IF -1 \in Range(self) THEN "stamps" ELSE "map"
  <2>1. run' = [run EXCEPT !.self = self, !.pc = pc]
    BY <1>4
  <2>2. /\ self \in [Funs -> Values \cup {-1}]
        /\ \A g \in Funs : self[g] \in {run.self[g], program[g]}
    BY <1>1, ReadTyped DEF RunType
  <2> HIDE DEF self
  <2>3. /\ pc \in {"stamps", "map"} /\ pc \in PCs
        /\ pc = "map" => \A g \in Funs : self[g] # -1
    BY <2>2 DEF Range, PCs, Before
  <2> HIDE DEF pc
  <2>4. /\ run' \in RunType /\ run'.self = self /\ run'.pc = pc /\ run'.text = run.text
        /\ run'.cache = run.cache /\ run'.hits = run.hits /\ run'.todo = run.todo
        /\ run'.row = run.row /\ run'.memo = run.memo /\ run'.quiet = run.quiet
    BY <1>1, <2>1, <2>2, <2>3 DEF RunType
  <2> QED
    BY <2>2, <2>3, <2>4 DEF ReadStamp, Preparing, Still, Outside
<1> QED
  BY <1>2, <1>3, <1>4 DEF ReadStamp

\* A loaded cache is the file's entries, or none.
LEMMA LoadedEntries ==
    ASSUME FileInv
    PROVE  /\ DOMAIN Nothing = {}
           /\ DOMAIN Load(file) \subseteq Funs
           /\ \A f \in DOMAIN Load(file) : /\ f \in DOMAIN file.entries /\ file.script = script
                                           /\ Load(file)[f] = file.entries[f]
<1>1. DOMAIN Nothing = {}
  BY DEF Nothing
<1> HIDE DEF Nothing
<1> QED
  BY <1>1 DEF FileInv, Load

\* The hits are the current entries, and whatever is no hit is extracted.
LEMMA CheckEffect ==
    ASSUME RunTyped, FileInv, Check
    PROVE  /\ run.pc = "check" /\ run' \in RunType
           /\ run'.pc \in {"facts", "attach"} /\ (run'.pc = "attach" => run'.todo = {})
           /\ run'.hits = {f \in DOMAIN run.cache :
                              Current(run.cache[f], run.text[f], run.map, run.self[f], run.types)}
           /\ Funs \ run'.hits \subseteq run'.todo
           /\ run'.text = run.text /\ run'.map = run.map
           /\ run'.cache = run.cache /\ run'.row = run.row /\ run'.memo = run.memo
           /\ run'.quiet = run.quiet
           /\ Still
<1> DEFINE hits == {f \in DOMAIN run.cache :
                      Current(run.cache[f], run.text[f], run.map, run.self[f], run.types)}
<1>1. run \in RunType /\ run.pc = "check" /\ run.cache = Load(file)
  BY DEF RunTyped, Check
<1>2. hits \in SUBSET Funs
  BY <1>1, LoadedEntries
<1>3. PICK verify \in SUBSET hits :
         run' = [run EXCEPT !.hits = hits, !.todo = (Funs \ hits) \cup verify,
                            !.self = NoRun.self, !.types = Nothing,
                            !.pc = IF (Funs \ hits) \cup verify = {} THEN "attach" ELSE "facts"]
  BY DEF Check
<1> HIDE DEF hits
<1> DEFINE todo == (Funs \ hits) \cup verify
           pc == IF todo = {} THEN "attach" ELSE "facts"
<1>4. run' = [run EXCEPT !.hits = hits, !.todo = todo, !.self = NoRun.self, !.types = Nothing, !.pc = pc]
  BY <1>3
<1>5. NoRun.self \in [Funs -> Values \cup {-1}]
  BY DEF NoRun
<1>6. todo \in SUBSET Funs /\ Funs \ hits \subseteq todo
  BY <1>2
<1> HIDE DEF todo
<1>7. pc \in {"facts", "attach"} /\ pc \in PCs /\ (pc = "attach" => todo = {})
  BY DEF PCs
<1> HIDE DEF pc
<1>8. /\ run' \in RunType /\ run'.hits = hits /\ run'.todo = todo /\ run'.pc = pc
      /\ run'.text = run.text /\ run'.map = run.map /\ run'.cache = run.cache
      /\ run'.row = run.row /\ run'.memo = run.memo /\ run'.quiet = run.quiet
  BY <1>1, <1>2, <1>4, <1>5, <1>6, <1>7 DEF RunType
<1> QED
  BY <1>1, <1>6, <1>7, <1>8 DEF hits, Check, Still, Outside

\* What an extraction that ended leaves of itself.
Ended ==
    /\ run' \in RunType' /\ run'.pc = "idle" /\ run'.cache = Nothing /\ run'.memo = Nothing
    /\ \A f \in Funs : run'.row[f].step = "waiting"

\* The facts go to the functions, the sound rows into the file, and the run is over.
LEMMA AttachEffect ==
    ASSUME RunTyped, Attach
    PROVE  /\ run.pc = "attach" /\ Ended
           /\ run'.quiet = run.quiet /\ run'.todo = run.todo
           /\ attached' = [f \in Funs |-> IF f \in Replaced THEN Fresh(f) ELSE run.cache[f].facts]
           /\ file'.script = script
           /\ file'.entries = [f \in DOMAIN run.cache \cup Stored |->
                                  IF f \in Stored THEN EntryOf(f) ELSE run.cache[f]]
           /\ UNCHANGED <<program, highest, edits, script, during, spoiled>>
<1>1. run \in RunType
  BY DEF RunTyped
<1>2. run' = [NoRun EXCEPT !.quiet = run.quiet, !.todo = run.todo]
  BY DEF Attach
<1>3. NoRun \in RunType' /\ NoRun.pc = "idle" /\ NoRun.cache = Nothing /\ NoRun.memo = Nothing
      /\ \A f \in Funs : NoRun.row[f].step = "waiting"
  BY FactAssumption DEF NoRun, RunType, PCs, NoRow, Rows, Steps, Values
<1>4. run.quiet \in BOOLEAN /\ run.todo \in SUBSET Funs
  BY <1>1 DEF RunType
<1>5. /\ run' \in RunType' /\ run'.pc = NoRun.pc /\ run'.cache = NoRun.cache
      /\ run'.memo = NoRun.memo /\ run'.row = NoRun.row
      /\ run'.quiet = run.quiet /\ run'.todo = run.todo
  BY <1>2, <1>3, <1>4 DEF RunType
<1>6. Ended /\ run'.quiet = run.quiet /\ run'.todo = run.todo
  BY <1>3, <1>5 DEF Ended
<1>7. file' = [script |-> script,
               entries |-> [f \in DOMAIN run.cache \cup Stored |->
                               IF f \in Stored THEN EntryOf(f) ELSE run.cache[f]]]
  BY DEF Attach
<1>8. /\ file'.script = script
      /\ file'.entries = [f \in DOMAIN run.cache \cup Stored |->
                             IF f \in Stored THEN EntryOf(f) ELSE run.cache[f]]
  BY <1>7
<1> QED
  BY <1>6, <1>8 DEF Attach, Outside

\* The run is over with nothing to show.
LEMMA BreaksEffect ==
    ASSUME RunTyped, Breaks
    PROVE  Ended /\ attached' = Nothing /\ Still
<1>1. NoRun \in RunType' /\ NoRun.pc = "idle" /\ NoRun.cache = Nothing /\ NoRun.memo = Nothing
      /\ \A f \in Funs : NoRun.row[f].step = "waiting"
  BY FactAssumption DEF NoRun, RunType, PCs, NoRow, Rows, Steps, Values
<1> QED
  BY <1>1 DEF RunTyped, Breaks, Ended, Still, Outside

\* An edit of p, and that a run in progress is quiet no longer.
LEMMA EditEffect ==
    ASSUME ProgramTyped, RunTyped, Edit
    PROVE  /\ run' \in RunType /\ ~run'.quiet
           /\ run'.pc = run.pc /\ run'.cache = run.cache /\ run'.text = run.text
           /\ run'.self = run.self /\ run'.map = run.map /\ run'.types = run.types
           /\ run'.hits = run.hits /\ run'.todo = run.todo /\ run'.row = run.row
           /\ run'.memo = run.memo
           /\ UNCHANGED <<script, file, attached>>
           /\ edits' = edits + 1 /\ during \subseteq during' /\ (Unspoiled' => Unspoiled)
           /\ ProgramTyped'
           /\ \E p \in Parts :
                 /\ \A q \in Parts : q # p => program'[q] = program[q]
                 /\ Extracting => p \in during'
                 /\ Unspoiled' /\ Extracting => p # "map"
                 /\ Unspoiled' /\ p \in during' => program[p] < program'[p]
<1>1. PICK p \in Parts, v \in Values :
         /\ v # program[p] /\ v <= highest[p] + 1
         /\ program' = [program EXCEPT ![p] = v]
         /\ highest' = [highest EXCEPT ![p] = IF v > @ THEN v ELSE @]
         /\ during' = IF Extracting THEN during \cup {p} ELSE during
         /\ spoiled' = spoiled
               \cup (IF Extracting /\ p = "map" THEN {"program"} ELSE {})
               \cup (IF p \in during' /\ v <= highest[p] THEN {"reverted"} ELSE {})
  BY DEF Edit
<1>2. edits' = edits + 1 /\ UNCHANGED <<script, file, attached>>
      /\ run' = [run EXCEPT !.quiet = FALSE]
  BY DEF Edit
<1>3. program[p] \in Int /\ highest[p] \in Int /\ program[p] <= highest[p] /\ v \in Int
  BY DEF ProgramTyped, Values
<1>4. run \in RunType
  BY DEF RunTyped
<1>5. /\ run' \in RunType /\ ~run'.quiet
      /\ run'.pc = run.pc /\ run'.cache = run.cache /\ run'.text = run.text
      /\ run'.self = run.self /\ run'.map = run.map /\ run'.types = run.types
      /\ run'.hits = run.hits /\ run'.todo = run.todo /\ run'.row = run.row
      /\ run'.memo = run.memo
  BY <1>2, <1>4 DEF RunType
<1>6. program'[p] = v /\ \A q \in Parts : q # p => program'[q] = program[q]
  BY <1>1 DEF ProgramTyped
<1>7. during \subseteq during' /\ (Extracting => p \in during') /\ during' \subseteq Parts
  BY <1>1 DEF ProgramTyped
<1>8. spoiled \subseteq spoiled'
  BY <1>1
<1>9. Unspoiled' => /\ Unspoiled /\ (Extracting => p # "map")
                    /\ (p \in during' => v > highest[p])
  BY <1>1, <1>3, <1>8 DEF Unspoiled, Free
<1>10. ProgramTyped'
  <2>1. highest' \in [Parts -> Values] /\ program' \in [Parts -> Values]
    BY <1>1 DEF ProgramTyped
  <2>2. ASSUME NEW q \in Parts PROVE program'[q] <= highest'[q]
    <3>1. CASE q = p
      BY <1>1, <1>3, <1>6, <3>1 DEF ProgramTyped
    <3>2. CASE q # p
      BY <1>1, <3>2 DEF ProgramTyped
    <3> QED
      BY <3>1, <3>2
  <2>3. edits' \in Int /\ script' \in 0..MaxScript
    BY <1>2 DEF ProgramTyped
  <2> QED
    BY <1>7, <2>1, <2>2, <2>3 DEF ProgramTyped
<1>11. Unspoiled' /\ p \in during' => program[p] < program'[p]
  BY <1>3, <1>6, <1>9
<1> QED
  BY <1>2, <1>5, <1>6, <1>7, <1>9, <1>10, <1>11

-----------------------------------------------------------------------------
(* What holds on when the program stays.                                     *)

\* What is only about the program and the file stays.
LEMMA StillKeeps ==
    ASSUME ProgramTyped, FileInv, Still
    PROVE  /\ ProgramTyped' /\ FileInv'
           /\ RunType' = RunType /\ Load(file)' = Load(file) /\ (Unspoiled' <=> Unspoiled)
           /\ TypesNow' = TypesNow
           /\ \A f \in Funs : TextOf(f)' = TextOf(f) /\ Decompiled(f)' = Decompiled(f)
<1>1. ProgramTyped'
  BY DEF ProgramTyped, Still
<1>2. RunType' = RunType /\ Load(file)' = Load(file) /\ (Unspoiled' <=> Unspoiled)
  BY DEF RunType, Load, Unspoiled, Free, Still
<1>3. FileInv'
  BY <1>2 DEF FileInv, EntryTyped, EntrySound, DepsFollow, Passed, Still
<1>4. TypesNow' = TypesNow
  BY DEF TypesNow, Still
<1>5. \A f \in Funs : TextOf(f)' = TextOf(f) /\ Decompiled(f)' = Decompiled(f)
  BY DEF TextOf, Decompiled, Still
<1> QED
  BY <1>1, <1>2, <1>3, <1>4, <1>5

\* A row that is left alone stays what it was.
LEMMA RowKept ==
    ASSUME Still, NEW g \in Funs, run'.row[g] = run.row[g]
    PROVE  /\ RowTyped(g) => RowTyped(g)'
           /\ RowUnmoved(g) => RowUnmoved(g)'
           /\ QuietRow(g) => QuietRow(g)'
<1>1. /\ TypesNow' = TypesNow /\ TextOf(g)' = TextOf(g) /\ Decompiled(g)' = Decompiled(g)
      /\ program' = program /\ edits' = edits
  BY DEF TypesNow, TextOf, Decompiled, Still
<1>2. RowTyped(g) => RowTyped(g)'
  BY DEF RowTyped
<1>3. RowUnmoved(g) => RowUnmoved(g)'
  BY <1>1 DEF RowUnmoved
<1>4. QuietRow(g) => QuietRow(g)'
  BY <1>1 DEF QuietRow
<1> QED
  BY <1>2, <1>3, <1>4

\* And as sound, while the facts script or the labels go on.
LEMMA RowSoundKept ==
    ASSUME Still, NEW g \in Funs, run'.row[g] = run.row[g], RowSound(g),
           run'.pc = run.pc \/ (run.pc = "labels" /\ run'.pc = "attach"),
           run'.map = run.map, run'.todo = run.todo
    PROVE  RowSound(g)'
  BY DEF RowSound, DepsFollow, Passed, Still

\* The texts and the hits of a quiet run stay those of the program.
LEMMA QuietKept ==
    ASSUME Still, QuietStamps, QuietHits,
           run'.text = run.text, run'.self = run.self, run'.map = run.map, run'.types = run.types,
           run'.cache = run.cache, run'.hits = run.hits, run'.todo = run.todo,
           run'.pc = run.pc \/ (run.pc = "labels" /\ run'.pc = "attach")
    PROVE  QuietStamps' /\ QuietHits'
<1>1. /\ TypesNow' = TypesNow /\ program' = program
      /\ \A f \in Funs : TextOf(f)' = TextOf(f)
  BY DEF TypesNow, TextOf, Still
<1>2. QuietStamps'
  BY <1>1 DEF QuietStamps, Before
<1>3. run'.hits \subseteq run.hits /\ \A f : TextOf(f)' = TextOf(f)
  BY DEF TextOf, Still
<1>4. QuietHits'
  BY <1>1, <1>3 DEF QuietHits, Current
<1> QED
  BY <1>2, <1>4

\* A step of the facts script on the row of f.
LEMMA RowStep ==
    ASSUME IInv, NEW f \in Funs, f \in run.todo, run.pc = "facts", run'.pc = "facts",
           OthersStay(f), run' \in RunType,
           run'.row[f].step # "done", RowTyped(f)', RowUnmoved(f)', Unspoiled => RowSound(f)',
           MemoInv', run.quiet => QuietRow(f)' /\ run'.memo \in {Nothing, TypesNow}
    PROVE  IInv'
<1>1. Still
  BY DEF OthersStay
<1>2. ProgramTyped /\ RunTyped /\ RowsInv /\ FileInv /\ QuietInv
  BY DEF IInv
<1>3. /\ ProgramTyped' /\ FileInv'
      /\ RunType' = RunType /\ Load(file)' = Load(file) /\ (Unspoiled' <=> Unspoiled)
      /\ TypesNow' = TypesNow
  BY <1>1, <1>2, StillKeeps
<1>4. RunTyped'
  <2>1. \A g \in Funs : RowTyped(g)'
    BY <1>1, <1>2, RowKept DEF RunTyped, OthersStay
  <2>2. \A g \in Funs : run'.row[g].step # "done"
    BY <1>2 DEF RunTyped, OthersStay
  <2>3. attached' = Nothing
    BY <1>1, <1>2 DEF RunTyped, Still
  <2> QED
    BY <1>2, <1>3, <2>1, <2>2, <2>3 DEF RunTyped, OthersStay, Before
<1>5. RowsInv'
  <2>1. ASSUME NEW g \in Funs, g # f PROVE RowUnmoved(g)' /\ (Unspoiled' => RowSound(g)')
    <3>1. /\ run'.row[g] = run.row[g] /\ run'.map = run.map /\ run'.todo = run.todo
          /\ run'.pc = run.pc
      BY <2>1 DEF OthersStay
    <3> QED
      BY <1>1, <1>2, <1>3, <3>1, RowKept, RowSoundKept DEF RowsInv
  <2> QED
    BY <1>3, <2>1 DEF RowsInv
<1>6. QuietInv'
  <2>1. SUFFICES ASSUME run.quiet
                 PROVE  /\ QuietStamps' /\ QuietHits' /\ run'.memo \in {Nothing, TypesNow}
                        /\ \A g \in Funs : QuietRow(g)'
    <3>1. run'.quiet = run.quiet
      BY DEF OthersStay
    <3> QED
      BY <1>3, <3>1 DEF QuietInv
  <2>2. QuietStamps /\ QuietHits /\ \A g \in Funs : QuietRow(g)
    BY <1>2, <2>1 DEF QuietInv
  <2>3. QuietStamps' /\ QuietHits'
    BY <1>1, <2>2, QuietKept DEF OthersStay
  <2>4. \A g \in Funs : QuietRow(g)'
    BY <1>1, <2>1, <2>2, RowKept DEF OthersStay
  <2> QED
    BY <2>1, <2>3, <2>4
<1>7. QuietRunIsRight'
  BY DEF QuietRunIsRight
<1> QED
  BY <1>3, <1>4, <1>5, <1>6, <1>7 DEF IInv

-----------------------------------------------------------------------------
(* The steps of the rows.                                                    *)

\* A row begins at the program as it is.
LEMMA ReadSelfStep ==
    ASSUME IInv, NEW f \in Funs, ReadSelf(f)
    PROVE  IInv'
<1>1. /\ run.pc = "facts" /\ f \in run.todo /\ run.row[f].step = "waiting"
      /\ OthersStay(f) /\ run' \in RunType
      /\ run'.pc = run.pc /\ run'.memo = run.memo
      /\ run'.row[f].step = "stamped" /\ run'.row[f].mod = edits
      /\ run'.row[f].self = program[f]
  BY ReadSelfEffect DEF IInv
<1>2. program' = program /\ edits' = edits /\ during' = during /\ spoiled' = spoiled /\ edits \in Int
  BY <1>1 DEF OthersStay, Still, IInv, ProgramTyped
<1>3. RowTyped(f)' /\ RowUnmoved(f)'
  BY <1>1, <1>2 DEF RowTyped, RowUnmoved
<1>4. RowSound(f)'
  BY <1>1 DEF RowSound
<1>5. MemoInv'
  BY <1>1, <1>2 DEF IInv, MemoInv, Passed, Unspoiled, Free
<1>6. run.quiet => QuietRow(f)' /\ run'.memo \in {Nothing, TypesNow}
  BY <1>1, <1>2 DEF IInv, QuietInv, QuietRow
<1> QED
  BY <1>1, <1>3, <1>4, <1>5, <1>6, RowStep

\* The decompile is of the values stamped, or the modification number tells.
LEMMA DecompileStep ==
    ASSUME IInv, NEW f \in Funs, Decompile(f)
    PROVE  IInv'
<1>1. /\ run.pc = "facts" /\ f \in run.todo /\ run.row[f].step = "stamped"
      /\ OthersStay(f) /\ run' \in RunType
      /\ run'.pc = run.pc /\ run'.memo = run.memo
      /\ run'.row[f].step = "decompiled" /\ run'.row[f].mod = run.row[f].mod
      /\ run'.row[f].self = run.row[f].self
      /\ run'.row[f].text = TextOf(f) /\ run'.row[f].seen = Decompiled(f)
  BY DecompileEffect DEF IInv
<1>2. /\ program' = program /\ edits' = edits /\ during' = during /\ spoiled' = spoiled
      /\ TextOf(f)' = TextOf(f) /\ Decompiled(f)' = Decompiled(f)
  BY <1>1 DEF OthersStay, Still, TextOf, Decompiled
<1>3. RowTyped(f)'
  BY <1>1, ReadTyped DEF RowTyped, IInv
<1>4. RowUnmoved(f)'
  BY <1>1, <1>2 DEF IInv, RowsInv, RowUnmoved
<1>5. RowSound(f)'
  <2>1. run'.row[f].seen["map"] = program["map"]
    BY <1>1, Names, ReadTyped DEF IInv
  <2> QED
    BY <1>1, <1>2, <2>1 DEF RowSound
<1>6. MemoInv'
  BY <1>1, <1>2 DEF IInv, MemoInv, Passed, Unspoiled, Free
<1>7. run.quiet => QuietRow(f)' /\ run'.memo \in {Nothing, TypesNow}
  BY <1>1, <1>2 DEF IInv, QuietInv, QuietRow
<1> QED
  BY <1>1, <1>3, <1>4, <1>5, <1>6, <1>7, RowStep

\* A memo older than the decompile is of a type edited meanwhile.
LEMMA ReadTypesStep ==
    ASSUME IInv, NEW f \in Funs, ReadTypes(f)
    PROVE  IInv'
<1>1. /\ run.pc = "facts" /\ f \in run.todo /\ run.row[f].step = "decompiled"
      /\ OthersStay(f) /\ run' \in RunType
      /\ run'.pc = run.pc
      /\ run'.memo = (IF run.memo = Nothing THEN TypesNow ELSE run.memo)
      /\ run'.memo \in TypeStamps
      /\ run'.row[f].step = "read" /\ run'.row[f].mod = run.row[f].mod
      /\ run'.row[f].self = run.row[f].self
      /\ run'.row[f].text = run.row[f].text /\ run'.row[f].seen = run.row[f].seen
      /\ run'.row[f].deps = run'.memo /\ run'.row[f].stable = (edits = run.row[f].mod)
  BY ReadTypesEffect DEF IInv
<1>2. /\ program' = program /\ edits' = edits /\ during' = during /\ spoiled' = spoiled
      /\ TextOf(f)' = TextOf(f) /\ Decompiled(f)' = Decompiled(f) /\ TypesNow' = TypesNow
  BY <1>1 DEF OthersStay, Still, TextOf, Decompiled, TypesNow
<1>3. RowTyped(f)'
  BY <1>1 DEF RowTyped, IInv, RunTyped
<1>4. RowUnmoved(f)'
  BY <1>1, <1>2 DEF IInv, RowsInv, RowUnmoved
<1>5. ASSUME Unspoiled
      PROVE  \A p \in TypeParts : run'.memo[p] = program[p] \/ Passed(p, run'.memo[p])
  <2>1. CASE run.memo = Nothing
    BY <1>1, <2>1, ReadTyped DEF IInv
  <2>2. CASE run.memo # Nothing
    BY <1>1, <1>5, <2>2 DEF IInv, MemoInv
  <2> QED
    BY <2>1, <2>2
<1>6. MemoInv'
  BY <1>1, <1>2, <1>5 DEF MemoInv, Passed, Unspoiled, Free
<1>7. ASSUME Unspoiled PROVE RowSound(f)'
  <2>1. run'.row[f].seen["map"] = program["map"]
    BY <1>1, <1>7 DEF IInv, RowsInv, RowSound
  <2>2. ASSUME edits = run.row[f].mod
        PROVE  /\ run.row[f].self = program[f]
               /\ run.row[f].self = run.row[f].seen[f]
               /\ \A p \in TypeParts : run.row[f].seen[p] = program[p]
    <3>1. run.row[f].self = program[f] /\ run.row[f].seen = Decompiled(f)
      BY <1>1, <2>2 DEF IInv, RowsInv, RowUnmoved
    <3> QED
      BY <3>1, Names, ReadTyped DEF IInv
  <2>3. ASSUME edits = run.row[f].mod
        PROVE  DepsFollow(run'.memo, run.row[f].seen)
    BY <1>5, <1>7, <2>2, <2>3 DEF DepsFollow, Passed
  <2>4. ASSUME edits = run.row[f].mod
        PROVE  DepsFollow(run.row[f].deps, run.row[f].seen)'
    BY <1>1, <1>2, <2>3, <2>4 DEF DepsFollow, Passed
  <2> QED
    BY <1>1, <1>2, <2>1, <2>2, <2>4 DEF RowSound
<1>8. run.quiet => QuietRow(f)' /\ run'.memo \in {Nothing, TypesNow}
  <2>1. SUFFICES ASSUME run.quiet PROVE QuietRow(f)' /\ run'.memo \in {Nothing, TypesNow}
    OBVIOUS
  <2>2. run'.memo = TypesNow
    BY <1>1, <2>1 DEF IInv, QuietInv
  <2>3. QuietRow(f)
    BY <1>1, <2>1 DEF IInv, QuietInv
  <2> QED
    BY <1>1, <1>2, <2>2, <2>3 DEF QuietRow
<1> QED
  BY <1>1, <1>3, <1>4, <1>6, <1>7, <1>8, RowStep

\* Labels other than the stamp are of code edited meanwhile.
LEMMA ReadLabelsStep ==
    ASSUME IInv, NEW f \in Funs, ReadLabels(f)
    PROVE  IInv'
<1>1. /\ run.pc = "labels" /\ f \in run.todo /\ run.row[f].step = "read"
      /\ OthersStay(f) /\ run' \in RunType
      /\ run'.pc = (IF \A g \in run.todo : run'.row[g].step = "done" THEN "attach" ELSE "labels")
      /\ run'.memo = run.memo
      /\ run'.row[f].step = "done" /\ run'.row[f].mod = run.row[f].mod
      /\ run'.row[f].self = run.row[f].self
      /\ run'.row[f].text = run.row[f].text /\ run'.row[f].seen = run.row[f].seen
      /\ run'.row[f].deps = run.row[f].deps /\ run'.row[f].stable = run.row[f].stable
      /\ run'.row[f].labels = program[f]
  BY ReadLabelsEffect DEF IInv
<1>2. /\ Still
      /\ run'.cache = run.cache /\ run'.text = run.text /\ run'.self = run.self
      /\ run'.types = run.types /\ run'.hits = run.hits /\ run'.todo = run.todo
      /\ run'.quiet = run.quiet /\ run'.map = run.map
      /\ \A g \in Funs : g # f => run'.row[g] = run.row[g]
  BY <1>1 DEF OthersStay
<1>3. run'.pc = "labels" \/ run'.pc = "attach"
  BY <1>1
<1>4. /\ ProgramTyped' /\ FileInv'
      /\ RunType' = RunType /\ Load(file)' = Load(file) /\ (Unspoiled' <=> Unspoiled)
      /\ TypesNow' = TypesNow /\ TextOf(f)' = TextOf(f) /\ Decompiled(f)' = Decompiled(f)
      /\ program' = program /\ edits' = edits /\ during' = during
  BY <1>2, StillKeeps DEF IInv, Still
<1>5. RunTyped'
  <2>1. RowTyped(f)'
    BY <1>1 DEF RowTyped, IInv, RunTyped
  <2>2. \A g \in Funs : RowTyped(g)'
    BY <1>2, <2>1, RowKept DEF IInv, RunTyped
  <2>3. run.todo \subseteq Funs
    BY DEF IInv, RunTyped, RunType
  <2>4. \A g \in run.todo : run'.row[g].step \in {"read", "done"}
    BY <1>1, <1>2, <2>3 DEF IInv, RunTyped
  <2>5. run'.pc = "attach" => \A g \in run.todo : run'.row[g].step = "done"
    BY <1>1
  <2>6. /\ run'.cache = Load(file)' /\ attached' = Nothing
        /\ Funs \ run'.hits \subseteq run'.todo
        /\ run'.hits \subseteq DOMAIN run'.cache
        /\ \A g \in Funs : run'.text[g] # Nothing
    BY <1>1, <1>2, <1>4 DEF IInv, RunTyped, Still
  <2>7. \A g \in Funs : run'.row[g].step # "waiting" => g \in run'.todo
    BY <1>1, <1>2 DEF IInv, RunTyped
  <2> QED
    BY <1>1, <1>2, <1>3, <1>4, <2>2, <2>4, <2>5, <2>6, <2>7 DEF RunTyped, Before
<1>6. MemoInv'
  BY <1>3 DEF MemoInv
<1>7. RowsInv'
  <2>1. ASSUME NEW g \in Funs, g # f PROVE RowUnmoved(g)' /\ (Unspoiled' => RowSound(g)')
    <3>1. /\ run'.row[g] = run.row[g] /\ run'.map = run.map /\ run'.todo = run.todo
          /\ (run'.pc = run.pc \/ (run.pc = "labels" /\ run'.pc = "attach"))
      BY <1>1, <1>2, <1>3, <2>1
    <3> QED
      BY <1>2, <1>4, <3>1, RowKept, RowSoundKept DEF IInv, RowsInv
  <2>2. RowUnmoved(f)'
    BY <1>1, <1>4 DEF IInv, RowsInv, RowUnmoved
  <2>3. ASSUME Unspoiled PROVE RowSound(f)'
    <3>1. RowSound(f)
      BY <2>3 DEF IInv, RowsInv
    <3>2. DepsFollow(run.row[f].deps, run.row[f].seen) => DepsFollow(run.row[f].deps, run.row[f].seen)'
      BY <1>1, <1>4 DEF DepsFollow, Passed
    <3>3. run.row[f].stable => program[f] = run.row[f].self \/ Passed(f, run.row[f].self)
      BY <1>1, <3>1 DEF RowSound
    <3> QED
      BY <1>1, <1>2, <1>3, <1>4, <3>1, <3>2, <3>3 DEF RowSound, Passed
  <2> QED
    BY <1>4, <2>1, <2>2, <2>3 DEF RowsInv
<1>8. QuietInv'
  <2>1. SUFFICES ASSUME run.quiet
                 PROVE  /\ QuietStamps' /\ QuietHits' /\ run'.memo \in {Nothing, TypesNow}
                        /\ \A g \in Funs : QuietRow(g)'
    BY <1>2, <1>4 DEF QuietInv
  <2>2. QuietStamps /\ QuietHits /\ run.memo \in {Nothing, TypesNow} /\ \A g \in Funs : QuietRow(g)
    BY <1>1, <2>1 DEF IInv, QuietInv
  <2>3. QuietStamps' /\ QuietHits'
    BY <1>1, <1>2, <1>3, <2>2, QuietKept
  <2>4. QuietRow(f)'
    BY <1>1, <1>4, <2>2 DEF QuietRow
  <2>5. \A g \in Funs : QuietRow(g)'
    BY <1>2, <2>2, <2>4, RowKept
  <2> QED
    BY <1>1, <2>2, <2>3, <2>5
<1>9. QuietRunIsRight'
  BY <1>3 DEF QuietRunIsRight
<1> QED
  BY <1>4, <1>5, <1>6, <1>7, <1>8, <1>9 DEF IInv

\* The memory map is the one decompiled with: an edit of it would have spoiled the run.
LEMMA EndScriptStep ==
    ASSUME IInv, EndScript
    PROVE  IInv'
<1>1. /\ run.pc = "facts" /\ \A f \in run.todo : run.row[f].step = "read"
      /\ run' \in RunType /\ run'.pc = "labels" /\ run'.map = program["map"]
      /\ run'.row = run.row /\ run'.memo = run.memo
      /\ run'.cache = run.cache /\ run'.text = run.text /\ run'.self = run.self
      /\ run'.types = run.types /\ run'.hits = run.hits /\ run'.todo = run.todo
      /\ run'.quiet = run.quiet
      /\ Still
  BY EndScriptEffect DEF IInv
<1>2. /\ ProgramTyped' /\ FileInv'
      /\ RunType' = RunType /\ Load(file)' = Load(file) /\ (Unspoiled' <=> Unspoiled)
      /\ TypesNow' = TypesNow /\ \A f \in Funs : TextOf(f)' = TextOf(f)
      /\ program' = program /\ edits' = edits /\ during' = during
  BY <1>1, StillKeeps DEF IInv, Still
<1>3. RunTyped'
  <2>1. \A g \in Funs : RowTyped(g)'
    BY <1>1, RowKept DEF IInv, RunTyped
  <2> QED
    BY <1>1, <1>2, <2>1 DEF IInv, RunTyped, Before, Still
<1>4. MemoInv'
  BY <1>1 DEF MemoInv
<1>5. RowsInv'
  <2>1. \A g \in Funs : RowUnmoved(g)'
    BY <1>1, RowKept DEF IInv, RowsInv
  <2>2. ASSUME Unspoiled, NEW g \in Funs PROVE RowSound(g)'
    <3>1. RowSound(g)
      BY <2>2 DEF IInv, RowsInv
    <3>2. run.row[g].step = "read" => run.row[g].seen["map"] = program["map"]
      BY <1>1, <3>1 DEF RowSound
    <3>3. DepsFollow(run.row[g].deps, run.row[g].seen) => DepsFollow(run.row[g].deps, run.row[g].seen)'
      BY <1>1, <1>2 DEF DepsFollow, Passed
    <3> QED
      BY <1>1, <1>2, <3>1, <3>2, <3>3 DEF RowSound, Passed
  <2> QED
    BY <1>2, <2>1, <2>2 DEF RowsInv
<1>6. QuietInv'
  <2>1. SUFFICES ASSUME run.quiet
                 PROVE  /\ QuietStamps' /\ QuietHits' /\ run'.memo \in {Nothing, TypesNow}
                        /\ \A g \in Funs : QuietRow(g)'
    BY <1>1, <1>2 DEF QuietInv
  <2>2. QuietStamps /\ QuietHits /\ run.memo \in {Nothing, TypesNow} /\ \A g \in Funs : QuietRow(g)
    BY <1>1, <2>1 DEF IInv, QuietInv
  <2>3. QuietStamps'
    BY <1>1, <1>2, <2>2 DEF QuietStamps, Before
  <2>4. QuietHits'
    <3>1. \A f : TextOf(f)' = TextOf(f)
      BY <1>1 DEF TextOf, Still
    <3> QED
      BY <1>1, <1>2, <2>2, <3>1 DEF QuietHits, Current
  <2>5. \A g \in Funs : QuietRow(g)'
    BY <1>1, <2>2, RowKept
  <2> QED
    BY <1>1, <2>2, <2>3, <2>4, <2>5
<1>7. QuietRunIsRight'
  BY <1>1 DEF QuietRunIsRight
<1> QED
  BY <1>2, <1>3, <1>4, <1>5, <1>6, <1>7 DEF IInv

-----------------------------------------------------------------------------
(* The steps before the rows.                                                *)

\* A row not begun claims nothing.
LEMMA WaitingRow ==
    ASSUME NEW f \in Funs, run'.row[f].step = "waiting",
           run'.pc \notin {"labels", "attach"} \/ run'.todo = {}
    PROVE  RowTyped(f)' /\ RowUnmoved(f)' /\ RowSound(f)' /\ QuietRow(f)'
  BY DEF RowTyped, RowUnmoved, RowSound, QuietRow

\* A step of the callers and of the stamps script.
LEMMA PreparingStep ==
    ASSUME IInv, Preparing, run' \in RunType, run.pc \in Before, run'.pc \in Before,
           run'.pc # "texts" => \A f \in Funs : run'.text[f] # Nothing,
           run.quiet /\ QuietStamps => QuietStamps'
    PROVE  IInv'
<1>1. /\ ProgramTyped' /\ FileInv'
      /\ RunType' = RunType /\ Load(file)' = Load(file)
      /\ TypesNow' = TypesNow
      /\ run'.pc \notin {"idle", "facts", "labels", "attach"} /\ run.pc # "idle"
      /\ attached' = attached
  BY StillKeeps DEF Preparing, IInv, Before, Still
<1>2. \A f \in Funs : run'.row[f].step = "waiting"
  BY DEF IInv, RunTyped, Preparing
<1>3. \A f \in Funs : RowTyped(f)' /\ RowUnmoved(f)' /\ RowSound(f)' /\ QuietRow(f)'
  BY <1>1, <1>2, WaitingRow
<1>4. run.memo = Nothing /\ run'.memo = Nothing /\ run'.quiet = run.quiet
  BY DEF IInv, RunTyped, Preparing
<1>5. RunTyped'
  BY <1>1, <1>2, <1>3, <1>4 DEF IInv, RunTyped, Preparing
<1>6. MemoInv' /\ RowsInv' /\ QuietRunIsRight'
  BY <1>1, <1>3 DEF MemoInv, RowsInv, QuietRunIsRight
<1>7. QuietInv'
  <2>1. ASSUME run.quiet PROVE QuietStamps' /\ QuietHits'
    <3>1. QuietStamps
      BY <1>1, <2>1 DEF IInv, QuietInv
    <3> QED
      BY <1>1, <2>1, <3>1 DEF QuietHits
  <2> QED
    BY <1>1, <1>3, <1>4, <2>1 DEF QuietInv
<1> QED
  BY <1>1, <1>5, <1>6, <1>7 DEF IInv

\* The callers' decompiles.
LEMMA ReadTextStep ==
    ASSUME IInv, ReadText
    PROVE  IInv'
<1>1. /\ run.pc = "texts" /\ Preparing /\ run' \in RunType
      /\ run'.self = run.self
      /\ run'.pc \in {"texts", "stamps", "check"}
      /\ run'.pc # "texts" => \A f \in Funs : run'.text[f] # Nothing
      /\ run'.pc = "check" => run.cache = Nothing
      /\ \A f \in Funs : run'.text[f] \in {run.text[f], TextOf(f)}
  BY ReadTextEffect DEF IInv
<1>2. run'.cache = run.cache /\ program' = program /\ \A f \in Funs : TextOf(f)' = TextOf(f)
  BY <1>1 DEF Preparing, Still, TextOf
<1>3. QuietStamps => QuietStamps'
  <2>1. ASSUME QuietStamps
        PROVE  /\ \A f \in Funs : run'.text[f] \in {Nothing, TextOf(f)}
               /\ \A f \in Funs : run'.self[f] \in {-1, program[f]}
               /\ run'.pc # "texts" => \A f \in Funs : run'.text[f] = TextOf(f)
    BY <1>1, <2>1 DEF QuietStamps, Before
  <2> QED
    BY <1>1, <1>2, <2>1 DEF QuietStamps
<1> QED
  BY <1>1, <1>3, PreparingStep DEF Before

\* The stamps the entries will be compared with.
LEMMA ReadStampStep ==
    ASSUME IInv, ReadStamp
    PROVE  IInv'
<1>1. /\ Preparing /\ run' \in RunType
      /\ run'.text = run.text
      /\ \/ /\ run.pc = "stamps" /\ run'.pc \in {"stamps", "map"}
            /\ \A f \in Funs : run'.self[f] \in {run.self[f], program[f]}
            /\ run'.pc = "map" => \A f \in Funs : run'.self[f] # -1
         \/ /\ run.pc = "map" /\ run'.pc = "types"
            /\ run'.self = run.self /\ run'.map = program["map"]
         \/ /\ run.pc = "types" /\ run'.pc = "check"
            /\ run'.self = run.self /\ run'.map = run.map /\ run'.types = TypesNow
  BY ReadStampEffect DEF IInv
<1>2. /\ run'.cache = run.cache /\ program' = program /\ TypesNow' = TypesNow
      /\ \A f \in Funs : TextOf(f)' = TextOf(f)
  BY <1>1 DEF Preparing, Still, TextOf, TypesNow
<1>3. QuietStamps => QuietStamps'
  <2>1. CASE /\ run.pc = "stamps" /\ run'.pc \in {"stamps", "map"}
             /\ \A f \in Funs : run'.self[f] \in {run.self[f], program[f]}
             /\ run'.pc = "map" => \A f \in Funs : run'.self[f] # -1
    <3>1. ASSUME QuietStamps
          PROVE  /\ \A f \in Funs : run'.self[f] \in {-1, program[f]}
                 /\ run'.pc = "map" => \A f \in Funs : run'.self[f] = program[f]
      BY <2>1, <3>1 DEF QuietStamps, Before
    <3> QED
      BY <1>1, <1>2, <2>1, <3>1 DEF QuietStamps, Before
  <2>2. CASE /\ run.pc = "map" /\ run'.pc = "types"
             /\ run'.self = run.self /\ run'.map = program["map"]
    BY <1>1, <1>2, <2>2 DEF QuietStamps, Before
  <2>3. CASE /\ run.pc = "types" /\ run'.pc = "check"
             /\ run'.self = run.self /\ run'.map = run.map /\ run'.types = TypesNow
    BY <1>1, <1>2, <2>3 DEF QuietStamps, Before
  <2> QED
    BY <1>1, <2>1, <2>2, <2>3
<1>4. /\ run.pc \in Before /\ run'.pc \in Before
      /\ \A f \in Funs : run'.text[f] # Nothing
  BY <1>1 DEF Before, IInv, RunTyped
<1> QED
  BY <1>1, <1>3, <1>4, PreparingStep

\* In a quiet run the hits are current in the program as it is.
LEMMA CheckStep ==
    ASSUME IInv, Check
    PROVE  IInv'
<1>1. /\ run.pc = "check" /\ run' \in RunType
      /\ run'.pc \in {"facts", "attach"} /\ (run'.pc = "attach" => run'.todo = {})
      /\ run'.hits = {f \in DOMAIN run.cache :
                         Current(run.cache[f], run.text[f], run.map, run.self[f], run.types)}
      /\ Funs \ run'.hits \subseteq run'.todo
      /\ run'.text = run.text /\ run'.map = run.map
      /\ run'.cache = run.cache /\ run'.row = run.row /\ run'.memo = run.memo
      /\ run'.quiet = run.quiet
      /\ Still
  BY CheckEffect DEF IInv
<1>2. /\ ProgramTyped' /\ FileInv'
      /\ RunType' = RunType /\ Load(file)' = Load(file)
      /\ TypesNow' = TypesNow /\ program' = program /\ attached' = attached
  BY <1>1, StillKeeps DEF IInv, Still
<1>3. \A f \in Funs : run'.row[f].step = "waiting"
  BY <1>1 DEF IInv, RunTyped, Before
<1>4. \A f \in Funs : RowTyped(f)' /\ RowUnmoved(f)' /\ RowSound(f)' /\ QuietRow(f)'
  BY <1>1, <1>3, WaitingRow
<1>5. run.memo = Nothing /\ run'.memo = Nothing
  BY <1>1 DEF IInv, RunTyped, Before
<1>6. RunTyped'
  BY <1>1, <1>2, <1>3, <1>4, <1>5 DEF IInv, RunTyped, Before
<1>7. MemoInv' /\ RowsInv' /\ QuietRunIsRight'
  BY <1>1, <1>4, <1>5 DEF MemoInv, RowsInv, QuietRunIsRight
<1>8. QuietInv'
  <2>1. SUFFICES ASSUME run.quiet PROVE QuietStamps' /\ QuietHits'
    BY <1>1, <1>4, <1>5 DEF QuietInv
  <2>2. QuietStamps
    BY <1>1, <2>1 DEF IInv, QuietInv
  <2>3. \A f : TextOf(f)' = TextOf(f)
    BY <1>1 DEF TextOf, Still
  <2>4. \A f \in Funs : run'.text[f] = TextOf(f)
    BY <1>1, <2>2 DEF QuietStamps
  <2>5. QuietStamps'
    BY <1>1, <2>3, <2>4 DEF QuietStamps, Before
  <2>6. ASSUME NEW f \in run'.hits
        PROVE  Current(run.cache[f], TextOf(f), program["map"], program[f], TypesNow)
    <3>1. /\ f \in DOMAIN run.cache /\ f \in Funs
          /\ Current(run.cache[f], run.text[f], run.map, run.self[f], run.types)
      BY <1>1 DEF RunType
    <3>2. run.cache # Nothing
      BY <3>1, LoadedEntries DEF IInv
    <3> QED
      BY <1>1, <2>2, <2>4, <3>1, <3>2 DEF QuietStamps
  <2>7. QuietHits'
    BY <1>1, <1>2, <2>3, <2>6 DEF QuietHits, Current
  <2> QED
    BY <2>5, <2>7
<1> QED
  BY <1>2, <1>6, <1>7, <1>8 DEF IInv

\* A run that begins has read nothing.
LEMMA StartRunStep ==
    ASSUME IInv, StartRun
    PROVE  IInv'
<1>1. /\ run.pc = "idle" /\ run' \in RunType
      /\ run'.pc = "texts" /\ run'.cache = Load(file)
      /\ run'.text = [f \in Funs |-> Nothing] /\ run'.self = [f \in Funs |-> -1]
      /\ run'.memo = Nothing /\ \A f \in Funs : run'.row[f].step = "waiting"
      /\ attached' = Nothing
      /\ UNCHANGED <<program, highest, edits, script, during, spoiled, file>>
  BY StartRunEffect
<1>2. /\ RunType' = RunType /\ Load(file)' = Load(file)
      /\ TypesNow' = TypesNow /\ program' = program
      /\ \A f \in Funs : RowTyped(f)' /\ RowUnmoved(f)' /\ RowSound(f)' /\ QuietRow(f)'
  BY <1>1, WaitingRow DEF RunType, Load, TypesNow
<1>3. ProgramTyped' /\ FileInv'
  BY <1>1 DEF IInv, ProgramTyped, FileInv, EntryTyped, EntrySound, DepsFollow, Passed, Unspoiled, Free
<1>4. RunTyped'
  BY <1>1, <1>2 DEF RunTyped, Before
<1>5. MemoInv' /\ RowsInv' /\ QuietRunIsRight'
  BY <1>1, <1>2 DEF MemoInv, RowsInv, QuietRunIsRight
<1>6. QuietInv'
  <2>1. QuietStamps' /\ QuietHits'
    BY <1>1 DEF QuietStamps, QuietHits, Before
  <2> QED
    BY <1>1, <1>2, <2>1 DEF QuietInv
<1> QED
  BY <1>3, <1>4, <1>5, <1>6 DEF IInv

-----------------------------------------------------------------------------
(* An edit, and new scripts.                                                 *)

\* An edit leaves a stamp behind only in a part that is edited during an extraction.
LEMMA EditStep ==
    ASSUME IInv, Edit
    PROVE  IInv'
<1>1. /\ run' \in RunType /\ ~run'.quiet
      /\ run'.pc = run.pc /\ run'.cache = run.cache /\ run'.text = run.text
      /\ run'.self = run.self /\ run'.map = run.map /\ run'.types = run.types
      /\ run'.hits = run.hits /\ run'.todo = run.todo /\ run'.row = run.row
      /\ run'.memo = run.memo
      /\ UNCHANGED <<script, file, attached>>
      /\ edits' = edits + 1 /\ during \subseteq during' /\ (Unspoiled' => Unspoiled)
      /\ ProgramTyped'
  BY EditEffect DEF IInv
<1>2. PICK p \in Parts :
         /\ \A q \in Parts : q # p => program'[q] = program[q]
         /\ Extracting => p \in during'
         /\ Unspoiled' /\ Extracting => p # "map"
         /\ Unspoiled' /\ p \in during' => program[p] < program'[p]
  BY EditEffect DEF IInv
<1>3. /\ \A q \in Parts : program[q] \in Int /\ program'[q] \in Int
      /\ edits \in Int
  BY <1>1 DEF IInv, ProgramTyped, Values
<1>4. ASSUME Unspoiled', NEW q \in Parts, NEW v \in Int, Passed(q, v)
      PROVE  q \in during' /\ v < program'[q]
  BY <1>1, <1>2, <1>3, <1>4 DEF Passed
<1>5. ASSUME Unspoiled', Extracting, NEW q \in Parts, NEW v \in Int,
             v = program[q] \/ Passed(q, v)
      PROVE  v = program'[q] \/ (q \in during' /\ v < program'[q])
  BY <1>1, <1>2, <1>3, <1>5 DEF Passed
<1>6. ASSUME Unspoiled', NEW deps \in TypeStamps, NEW seen, DepsFollow(deps, seen)
      PROVE  \A q \in TypeParts :
                \/ deps[q] = seen[q]
                \/ deps[q] < seen[q] /\ q \in during' /\ deps[q] < program'[q]
  <2>1. ASSUME NEW q \in TypeParts PROVE q \in Parts /\ deps[q] \in Int
    BY DEF TypeStamps, Values, Parts
  <2> QED
    BY <1>4, <1>6, <2>1 DEF DepsFollow
<1>7. RunTyped'
  <2>1. RunType' = RunType /\ Load(file)' = Load(file) /\ attached' = attached
    BY <1>1 DEF RunType, Load
  <2>2. \A f \in Funs : RowTyped(f)'
    BY <1>1 DEF IInv, RunTyped, RowTyped
  <2> QED
    BY <1>1, <2>1, <2>2 DEF IInv, RunTyped, Before
<1>8. MemoInv'
  <2>1. SUFFICES ASSUME Unspoiled', run.pc = "facts", run.memo # Nothing, NEW q \in TypeParts
                 PROVE  \/ run.memo[q] = program'[q]
                        \/ q \in during' /\ run.memo[q] < program'[q]
    BY <1>1 DEF MemoInv, Passed
  <2>2. run.memo \in TypeStamps
    BY <2>1 DEF IInv, RunTyped, RunType
  <2>3. q \in Parts /\ run.memo[q] \in Int
    BY <2>2 DEF TypeStamps, Values, Parts
  <2>4. run.memo[q] = program[q] \/ Passed(q, run.memo[q])
    BY <1>1, <2>1 DEF IInv, MemoInv
  <2>5. Extracting
    BY <2>1 DEF Extracting
  <2> QED
    BY <1>5, <2>1, <2>3, <2>4, <2>5
<1>9. RowsInv'
  <2>1. ASSUME NEW f \in Funs PROVE RowUnmoved(f)'
    <3>1. run.row[f].step # "waiting" => run.row[f].mod <= edits
      BY DEF IInv, RowsInv, RowUnmoved
    <3>2. run.row[f].mod \in Int
      BY RunFields DEF IInv
    <3> QED
      BY <1>1, <1>3, <3>1, <3>2 DEF RowUnmoved
  <2>2. ASSUME NEW f \in Funs, Unspoiled' PROVE RowSound(f)'
    <3>1. RowSound(f)
      BY <1>1, <2>2 DEF IInv, RowsInv
    <3>2. run.pc = "facts" => program'["map"] = program["map"]
      BY <1>2, <2>2 DEF Extracting, Parts
    <3>3. f \in Parts /\ run.row[f].self \in Int /\ run.row[f] \in Rows
      BY RunFields DEF IInv, Values, Parts
    <3>4. run.row[f].step = "read" => Extracting
      <4>1. run.row[f].step = "read" => f \in run.todo /\ run.pc \notin Before \cup {"idle", "attach"}
        BY DEF IInv, RunTyped
      <4>2. run.pc \in PCs
        BY DEF IInv, RunTyped, RunType
      <4> QED
        BY <4>1, <4>2 DEF PCs, Extracting
    <3>5. /\ run.row[f].stable /\ run.row[f].step \in {"read", "done"} =>
                \A q \in TypeParts :
                    \/ run.row[f].deps[q] = run.row[f].seen[q]
                    \/ /\ run.row[f].deps[q] < run.row[f].seen[q]
                       /\ q \in during' /\ run.row[f].deps[q] < program'[q]
          /\ run.row[f].stable /\ run.row[f].step = "read" =>
                run.row[f].self = program'[f] \/ (f \in during' /\ run.row[f].self < program'[f])
          /\ run.row[f].stable /\ run.row[f].step = "done" =>
                \/ run.row[f].labels = run.row[f].self
                \/ f \in during' /\ run.row[f].self < program'[f]
      <4>1. run.row[f].step \in {"read", "done"} => run.row[f].deps \in TypeStamps
        BY DEF IInv, RunTyped, RowTyped
      <4>2. run.row[f].stable /\ run.row[f].step \in {"read", "done"} =>
                \A q \in TypeParts :
                    \/ run.row[f].deps[q] = run.row[f].seen[q]
                    \/ /\ run.row[f].deps[q] < run.row[f].seen[q]
                       /\ q \in during' /\ run.row[f].deps[q] < program'[q]
        BY <1>6, <2>2, <3>1, <4>1 DEF RowSound
      <4>3. run.row[f].stable /\ run.row[f].step = "read" =>
                run.row[f].self = program'[f] \/ (f \in during' /\ run.row[f].self < program'[f])
        BY <1>5, <2>2, <3>1, <3>3, <3>4 DEF RowSound
      <4>4. run.row[f].stable /\ run.row[f].step = "done" =>
                \/ run.row[f].labels = run.row[f].self
                \/ f \in during' /\ run.row[f].self < program'[f]
        BY <1>4, <2>2, <3>1, <3>3 DEF RowSound
      <4> QED
        BY <4>2, <4>3, <4>4
    <3> QED
      BY <1>1, <3>1, <3>2, <3>5 DEF RowSound, DepsFollow, Passed
  <2> QED
    BY <2>1, <2>2 DEF RowsInv
<1>10. FileInv'
  <2>1. ASSUME NEW f \in DOMAIN file.entries
        PROVE  /\ EntryTyped(f, file.entries[f])'
               /\ Unspoiled' => EntrySound(f, file.entries[f])'
    <3> DEFINE e == file.entries[f]
    <3>1. EntryTyped(f, e) /\ (Unspoiled => EntrySound(f, e)) /\ f \in Funs
      BY DEF IInv, FileInv
    <3>2. EntryTyped(f, e)'
      BY <1>1, <3>1 DEF EntryTyped
    <3>3. e.deps \in TypeStamps /\ e.self \in Int /\ f \in Parts
      BY <3>1 DEF EntryTyped, Values, Parts
    <3>4. ASSUME Unspoiled' PROVE EntrySound(f, e)'
      <4>1. EntrySound(f, e) /\ e' = e
        BY <1>1, <3>1, <3>4
      <4>2. DepsFollow(e.deps, e.facts.seen)'
        BY <1>1, <1>6, <3>3, <3>4, <4>1 DEF EntrySound, DepsFollow, Passed
      <4>3. e.facts.labels = e.self \/ Passed(f, e.self)'
        BY <1>1, <1>4, <3>3, <3>4, <4>1 DEF EntrySound, Passed
      <4> QED
        BY <4>1, <4>2, <4>3 DEF EntrySound
    <3> QED
      BY <3>2, <3>4
  <2> QED
    BY <1>1, <2>1 DEF IInv, FileInv
<1>11. QuietInv' /\ QuietRunIsRight'
  BY <1>1 DEF QuietInv, QuietRunIsRight
<1> QED
  BY <1>1, <1>7, <1>8, <1>9, <1>10, <1>11 DEF IInv

\* With new scripts the file is another's, and nothing is attached.
LEMMA InstallScriptsStep ==
    ASSUME IInv, InstallScripts
    PROVE  IInv'
<1>1. /\ run.pc = "idle" /\ script < MaxScript /\ script' = script + 1 /\ attached' = Nothing
      /\ UNCHANGED <<program, highest, edits, file, run, during, spoiled>>
  BY DEF InstallScripts
<1>2. ProgramTyped'
  BY <1>1, FactAssumption DEF IInv, ProgramTyped
<1>3. RunTyped'
  <2>1. run \in RunType /\ run.cache = Nothing
    BY <1>1 DEF IInv, RunTyped
  <2>2. run \in RunType'
    BY <2>1 DEF RunType
  <2>3. \A f \in Funs : RowTyped(f)'
    BY <1>1 DEF IInv, RunTyped, RowTyped
  <2> QED
    BY <1>1, <2>2, <2>3 DEF IInv, RunTyped
<1>4. MemoInv' /\ QuietInv' /\ QuietRunIsRight'
  BY <1>1 DEF MemoInv, QuietInv, QuietRunIsRight
<1>5. RowsInv'
  BY <1>1 DEF IInv, RowsInv, RowUnmoved, RowSound, DepsFollow, Passed, Unspoiled, Free, Decompiled
<1>6. FileInv'
  BY <1>1 DEF IInv, FileInv, EntryTyped, EntrySound, DepsFollow, Passed, Unspoiled, Free
<1> QED
  BY <1>2, <1>3, <1>4, <1>5, <1>6 DEF IInv

-----------------------------------------------------------------------------
(* The end of an extraction.                                                 *)

\* Facts that are sound beside stamps that are current are what a fresh extraction would find.
LEMMA SoundIsRight ==
    ASSUME ProgramTyped, NEW f \in Funs, NEW e, EntryTyped(f, e), EntrySound(f, e),
           file.script = script,
           Current(e, TextOf(f), program["map"], program[f], TypesNow)
    PROVE  e.facts = FactsOf(f)
<1>1. /\ e.facts \in [seen : [Seen(f) -> Values], text : Texts, labels : Values, script : Int]
      /\ e.deps \in TypeStamps
  BY DEF EntryTyped
<1>2. e.facts.text = TextOf(f) /\ e.facts.script = script
  BY DEF EntryTyped, Current
<1>3. e.facts.seen["map"] = program["map"] /\ e.facts.seen[f] = program[f]
  BY DEF EntrySound, Current
<1>4. \A p \in TypeParts : e.facts.seen[p] = program[p]
  <2>1. SUFFICES ASSUME NEW p \in TypeParts PROVE e.facts.seen[p] = program[p]
    OBVIOUS
  <2>2. e.deps[p] = program[p]
    BY <2>1, ReadTyped DEF Current
  <2>3. program[p] \in Int
    BY <2>1 DEF ProgramTyped, Parts, Values
  <2> QED
    BY <2>1, <2>2, <2>3 DEF EntrySound, DepsFollow, Passed
<1>5. e.facts.labels = program[f]
  <2>1. program[f] \in Int /\ e.self = program[f]
    BY ReadTyped DEF Current, Values
  <2> QED
    BY <2>1 DEF EntrySound, Passed
<1>6. e.facts.seen = Decompiled(f)
  <2>1. \A p \in Seen(f) : e.facts.seen[p] = Decompiled(f)[p]
    BY <1>3, <1>4, ReadTyped DEF Seen
  <2> QED
    BY <1>1, <2>1, ReadTyped
<1> QED
  BY <1>1, <1>2, <1>5, <1>6 DEF FactsOf

\* Of an extraction that ended nothing is left to be right.
LEMMA EndedKeeps ==
    ASSUME ProgramTyped, Ended
    PROVE  RunTyped' /\ MemoInv' /\ RowsInv' /\ QuietInv'
<1>1. \A f \in Funs : RowTyped(f)' /\ RowUnmoved(f)' /\ RowSound(f)'
  BY WaitingRow DEF Ended
<1> QED
  BY <1>1 DEF Ended, RunTyped, MemoInv, RowsInv, QuietInv

\* A run broken off leaves the file as it was.
LEMMA BreaksStep ==
    ASSUME IInv, Breaks
    PROVE  IInv'
<1>1. Ended /\ attached' = Nothing /\ Still
  BY BreaksEffect DEF IInv
<1>2. ProgramTyped' /\ FileInv'
  BY <1>1, StillKeeps DEF IInv
<1>3. RunTyped' /\ MemoInv' /\ RowsInv' /\ QuietInv'
  BY <1>1, EndedKeeps DEF IInv
<1>4. QuietRunIsRight'
  BY <1>1 DEF QuietRunIsRight
<1> QED
  BY <1>2, <1>3, <1>4 DEF IInv

\* What a finished row leaves in the cache.
LEMMA StoredEntry ==
    ASSUME ProgramTyped, RunTyped, RowsInv, run.pc = "attach", NEW f \in Stored
    PROVE  /\ EntryOf(f) \in [map : Values \cup {-1}, self : Values, deps : TypeStamps, text : Texts,
                              facts : [seen : [Seen(f) -> Values], text : Texts,
                                       labels : Values, script : Int]]
           /\ EntryOf(f).text = EntryOf(f).facts.text /\ EntryOf(f).facts.script = script
           /\ Unspoiled => EntrySound(f, EntryOf(f))
<1>1. /\ f \in Funs /\ f \in run.todo /\ run \in RunType /\ run.row[f] \in Rows
      /\ run.row[f].stable /\ run.row[f].text = run.text[f] /\ run.row[f].step = "done"
  BY DEF Stored, Replaced, Cacheable, RunTyped, RunType
<1>2. /\ run.row[f].seen \in [Seen(f) -> Values] /\ run.row[f].text \in Texts
      /\ run.row[f].deps \in TypeStamps /\ run.row[f].self \in Values
      /\ run.row[f].labels \in Values /\ run.map \in Values \cup {-1}
  BY <1>1 DEF RunTyped, RunType, RowTyped, Rows
<1>3. script \in Int
  BY DEF ProgramTyped
<1>4. /\ EntryOf(f).map = run.map /\ EntryOf(f).self = run.row[f].self
      /\ EntryOf(f).deps = run.row[f].deps /\ EntryOf(f).text = run.text[f]
      /\ EntryOf(f).facts = Fresh(f)
      /\ Fresh(f).seen = run.row[f].seen /\ Fresh(f).text = run.text[f]
      /\ Fresh(f).labels = run.row[f].labels /\ Fresh(f).script = script
  BY <1>1 DEF EntryOf, Fresh
<1>5. Fresh(f) \in [seen : [Seen(f) -> Values], text : Texts, labels : Values, script : Int]
  BY <1>1, <1>2, <1>3 DEF Fresh
<1>6. EntryOf(f) \in [map : Values \cup {-1}, self : Values, deps : TypeStamps, text : Texts,
                      facts : [seen : [Seen(f) -> Values], text : Texts,
                               labels : Values, script : Int]]
  <2> HIDE DEF Fresh
  <2> QED
    BY <1>1, <1>2, <1>5 DEF EntryOf
<1>7. Unspoiled => EntrySound(f, EntryOf(f))
  <2>1. Unspoiled => RowSound(f)
    BY <1>1 DEF RowsInv
  <2> QED
    BY <1>1, <1>4, <2>1 DEF RowSound, EntrySound
<1> QED
  BY <1>4, <1>6, <1>7

\* The file after an extraction: of every function the row's entry or the one there was.
LEMMA AttachedFile ==
    ASSUME IInv, Attach
    PROVE  /\ DOMAIN file'.entries = DOMAIN run.cache \cup Stored /\ file'.script = script
           /\ \A f \in Stored : file'.entries[f] = EntryOf(f)
           /\ \A f \in DOMAIN run.cache \ Stored :
                 file'.entries[f] = file.entries[f] /\ f \in DOMAIN file.entries /\ file.script = script
<1>1. /\ file'.script = script
      /\ file'.entries = [f \in DOMAIN run.cache \cup Stored |->
                             IF f \in Stored THEN EntryOf(f) ELSE run.cache[f]]
  BY AttachEffect DEF IInv
<1>2. run.cache = Load(file)
  BY DEF IInv, RunTyped, Attach
<1>3. ASSUME NEW f \in DOMAIN run.cache
      PROVE  run.cache[f] = file.entries[f] /\ f \in DOMAIN file.entries /\ file.script = script
  BY <1>2, LoadedEntries DEF IInv
<1> HIDE DEF Stored
<1> QED
  BY <1>1, <1>3

\* What is written is sound, and after a quiet run it is what a fresh extraction finds.
LEMMA AttachStep ==
    ASSUME IInv, Attach
    PROVE  IInv'
<1>1. /\ run.pc = "attach" /\ Ended
      /\ run'.quiet = run.quiet /\ run'.todo = run.todo
      /\ attached' = [f \in Funs |-> IF f \in Replaced THEN Fresh(f) ELSE run.cache[f].facts]
      /\ UNCHANGED <<program, highest, edits, script, during, spoiled>>
  BY AttachEffect DEF IInv
<1>2. /\ DOMAIN file'.entries = DOMAIN run.cache \cup Stored /\ file'.script = script
      /\ \A f \in Stored : file'.entries[f] = EntryOf(f)
      /\ \A f \in DOMAIN run.cache \ Stored :
            file'.entries[f] = file.entries[f] /\ f \in DOMAIN file.entries /\ file.script = script
  BY AttachedFile
<1>3. ProgramTyped /\ RunTyped /\ RowsInv /\ FileInv /\ run.cache = Load(file) /\ run \in RunType
  BY <1>1 DEF IInv, RunTyped
<1>4. ProgramTyped'
  BY <1>1, <1>3 DEF ProgramTyped
<1>5. RunTyped' /\ MemoInv' /\ RowsInv' /\ QuietInv'
  BY <1>1, <1>3, EndedKeeps
<1>6. Stored \subseteq run.todo /\ run.todo \subseteq Funs /\ DOMAIN run.cache \subseteq Funs
  BY <1>3, LoadedEntries DEF Stored, Replaced, RunType
<1>7. FileInv'
  <2>1. ASSUME NEW f \in DOMAIN file'.entries
        PROVE  EntryTyped(f, file.entries[f])' /\ (Unspoiled' => EntrySound(f, file.entries[f])')
    <3>1. CASE f \in Stored
      <4>1. /\ file'.entries[f] = EntryOf(f)
            /\ EntryOf(f) \in [map : Values \cup {-1}, self : Values, deps : TypeStamps, text : Texts,
                               facts : [seen : [Seen(f) -> Values], text : Texts,
                                        labels : Values, script : Int]]
            /\ EntryOf(f).text = EntryOf(f).facts.text /\ EntryOf(f).facts.script = script
            /\ Unspoiled => EntrySound(f, EntryOf(f))
        BY <1>1, <1>2, <1>3, <3>1, StoredEntry
      <4>2. EntryTyped(f, file.entries[f])'
        BY <1>2, <4>1 DEF EntryTyped
      <4>3. Unspoiled' => EntrySound(f, file.entries[f])'
        BY <1>1, <4>1 DEF EntrySound, DepsFollow, Passed, Unspoiled, Free
      <4> QED
        BY <4>2, <4>3
    <3>2. CASE f \notin Stored
      <4>1. file'.entries[f] = file.entries[f] /\ f \in DOMAIN file.entries /\ file.script = script
        BY <1>2, <2>1, <3>2
      <4>2. EntryTyped(f, file.entries[f]) /\ (Unspoiled => EntrySound(f, file.entries[f]))
        BY <1>3, <4>1 DEF FileInv
      <4>3. EntryTyped(f, file.entries[f])'
        BY <1>2, <4>1, <4>2 DEF EntryTyped
      <4>4. Unspoiled' => EntrySound(f, file.entries[f])'
        BY <1>1, <4>1, <4>2 DEF EntrySound, DepsFollow, Passed, Unspoiled, Free
      <4> QED
        BY <4>3, <4>4
    <3> QED
      BY <3>1, <3>2
  <2> QED
    BY <1>2, <1>6, <2>1 DEF FileInv
<1>8. QuietRunIsRight'
  <2>1. SUFFICES ASSUME run.quiet, NEW f \in Funs
                 PROVE  /\ CurrentNow(f)'
                        /\ f \in run.todo \/ Unspoiled =>
                              attached'[f] = FactsOf(f) /\ file'.entries[f].facts = FactsOf(f)
    <3>1. (\A g \in Funs : FactsOf(g)' = FactsOf(g)) /\ (Free({"program", "reverted"})' <=> Unspoiled)
      BY <1>1 DEF FactsOf, Decompiled, TextOf, Unspoiled, Free
    <3> QED
      BY <1>1, <3>1 DEF QuietRunIsRight
  <2>2. QuietStamps /\ QuietHits /\ \A g \in Funs : QuietRow(g)
    BY <1>1, <2>1 DEF IInv, QuietInv
  <2>3. SUFFICES /\ f \in DOMAIN file'.entries
                 /\ Current(file'.entries[f], TextOf(f), program["map"], program[f], TypesNow)
                 /\ f \in run.todo \/ Unspoiled =>
                       attached'[f] = FactsOf(f) /\ file'.entries[f].facts = FactsOf(f)
    BY <1>1, <1>2, <2>1 DEF CurrentNow, Load, Current, TextOf, TypesNow
  <2>4. ASSUME f \in run.todo
        PROVE  /\ Fresh(f) = FactsOf(f) /\ Cacheable(f)
               /\ Current(EntryOf(f), TextOf(f), program["map"], program[f], TypesNow)
    <3>1. run.row[f].step = "done" /\ run.text[f] = TextOf(f) /\ run.map = program["map"]
      BY <1>1, <1>3, <2>2, <2>4 DEF RunTyped, QuietStamps, QuietHits
    <3>2. /\ run.row[f].self = program[f] /\ run.row[f].text = TextOf(f)
          /\ run.row[f].seen = Decompiled(f) /\ run.row[f].stable
          /\ run.row[f].deps = TypesNow /\ run.row[f].labels = program[f]
      BY <2>2, <3>1 DEF QuietRow
    <3> QED
      BY <3>1, <3>2 DEF Fresh, FactsOf, Cacheable, EntryOf, Current
  <2>5. CASE f \in Replaced
    <3>1. f \in run.todo /\ f \in Stored
      BY <2>4, <2>5 DEF Replaced, Stored
    <3>2. file'.entries[f] = EntryOf(f) /\ EntryOf(f).facts = Fresh(f) /\ attached'[f] = Fresh(f)
      BY <1>1, <1>2, <2>5, <3>1 DEF EntryOf
    <3> QED
      BY <1>2, <2>4, <3>1, <3>2
  <2>6. CASE f \notin Replaced
    <3>1. f \in run.hits /\ f \notin Stored
      BY <1>1, <1>3, <2>6 DEF Replaced, Stored, RunTyped
    <3>2. f \in DOMAIN run.cache
      BY <1>1, <1>3, <3>1 DEF RunTyped
    <3>3. /\ file'.entries[f] = file.entries[f] /\ f \in DOMAIN file.entries /\ file.script = script
          /\ run.cache[f] = file.entries[f]
      BY <1>2, <1>3, <3>1, <3>2, LoadedEntries
    <3>4. Current(file.entries[f], TextOf(f), program["map"], program[f], TypesNow)
      BY <1>1, <2>2, <3>1, <3>3 DEF QuietHits
    <3>5. attached'[f] = file.entries[f].facts
      BY <1>1, <2>6, <3>3
    <3>6. f \in run.todo => file.entries[f].facts = FactsOf(f)
      BY <2>4, <2>6, <3>3 DEF Replaced
    <3>7. Unspoiled => file.entries[f].facts = FactsOf(f)
      BY <1>3, <3>3, <3>4, SoundIsRight DEF FileInv
    <3> QED
      BY <1>2, <3>2, <3>3, <3>4, <3>5, <3>6, <3>7
  <2> QED
    BY <2>5, <2>6
<1> QED
  BY <1>4, <1>5, <1>7, <1>8 DEF IInv

-----------------------------------------------------------------------------
(* The invariant.                                                            *)

\* Nothing is cached and nothing runs.
LEMMA InitInv == Init => IInv
<1> SUFFICES ASSUME Init PROVE IInv
  OBVIOUS
<1>1. /\ program = [p \in Parts |-> 0] /\ highest = program /\ edits = 0 /\ script = 0
      /\ file = [script |-> 0, entries |-> Nothing] /\ run = NoRun /\ attached = Nothing
      /\ during = {} /\ spoiled = {}
  BY DEF Init
<1>2. ProgramTyped
  BY <1>1, FactAssumption DEF ProgramTyped, Values
<1>3. NoRun \in RunType
  BY FactAssumption DEF NoRun, RunType, PCs, NoRow, Rows, Steps, Values
<1>4. /\ run \in RunType /\ run.pc = "idle" /\ run.cache = Nothing /\ run.memo = Nothing
      /\ \A f \in Funs : run.row[f].step = "waiting"
  BY <1>1, <1>3 DEF NoRun, NoRow
<1>5. \A f \in Funs : RowTyped(f) /\ RowUnmoved(f) /\ RowSound(f)
  BY <1>4 DEF RowTyped, RowUnmoved, RowSound
<1>6. RunTyped /\ MemoInv /\ RowsInv /\ QuietInv
  BY <1>4, <1>5 DEF RunTyped, MemoInv, RowsInv, QuietInv
<1>7. FileInv
  <2>1. DOMAIN file.entries = {}
    BY <1>1 DEF Nothing
  <2> QED
    BY <2>1 DEF FileInv
<1>8. QuietRunIsRight
  BY <1>1 DEF QuietRunIsRight
<1> QED
  BY <1>2, <1>6, <1>7, <1>8 DEF IInv

\* A step that changes nothing keeps the invariant.
LEMMA StutterStep ==
    ASSUME IInv, UNCHANGED vars
    PROVE  IInv'
<1>1. Still /\ run' = run
  BY DEF vars, Still
<1>2. /\ ProgramTyped' /\ FileInv' /\ RunType' = RunType /\ Load(file)' = Load(file)
      /\ (Unspoiled' <=> Unspoiled) /\ TypesNow' = TypesNow
  BY <1>1, StillKeeps DEF IInv
<1>3. \A f \in Funs : RowTyped(f)' /\ RowUnmoved(f)' /\ (QuietRow(f) => QuietRow(f)')
  BY <1>1, RowKept DEF IInv, RunTyped, RowsInv
<1>4. \A f \in Funs : RowSound(f) => RowSound(f)'
  BY <1>1, RowSoundKept
<1>5. RunTyped'
  BY <1>1, <1>2, <1>3 DEF IInv, RunTyped, Still
<1>6. MemoInv'
  BY <1>1, <1>2 DEF IInv, MemoInv, Passed, Still
<1>7. RowsInv'
  BY <1>2, <1>3, <1>4 DEF IInv, RowsInv
<1>8. QuietInv'
  BY <1>1, <1>2, <1>3, QuietKept DEF IInv, QuietInv
<1>9. QuietRunIsRight'
  BY <1>1 DEF IInv, QuietRunIsRight, CurrentNow, Load, Current, FactsOf, TextOf, Decompiled,
              TypesNow, Free, Still
<1> QED
  BY <1>2, <1>5, <1>6, <1>7, <1>8, <1>9 DEF IInv

\* Every step keeps the invariant.
LEMMA NextInv == IInv /\ [Next]_vars => IInv'
<1> SUFFICES ASSUME IInv, [Next]_vars PROVE IInv'
  OBVIOUS
<1>1. CASE Edit
  BY <1>1, EditStep
<1>2. CASE InstallScripts
  BY <1>2, InstallScriptsStep
<1>3. CASE StartRun
  BY <1>3, StartRunStep
<1>4. CASE ReadText
  BY <1>4, ReadTextStep
<1>5. CASE ReadStamp
  BY <1>5, ReadStampStep
<1>6. CASE Check
  BY <1>6, CheckStep
<1>7. ASSUME NEW f \in Funs, ReadSelf(f) \/ Decompile(f) \/ ReadTypes(f) \/ ReadLabels(f)
      PROVE  IInv'
  BY <1>7, ReadSelfStep, DecompileStep, ReadTypesStep, ReadLabelsStep
<1>8. CASE EndScript
  BY <1>8, EndScriptStep
<1>9. CASE Attach
  BY <1>9, AttachStep
<1>10. CASE Breaks
  BY <1>10, BreaksStep
<1>11. CASE UNCHANGED vars
  BY <1>11, StutterStep
<1> QED
  BY <1>1, <1>2, <1>3, <1>4, <1>5, <1>6, <1>7, <1>8, <1>9, <1>10, <1>11 DEF Next

\* Whatever is edited, extracted, broken off and installed, in whatever order the threads of
\* the facts script read: every row and every entry is of the values its stamps are of, or of
\* values the program has moved past since.
THEOREM SpecInv == Spec => []IInv
<1> QED
  BY InitInv, NextInv, PTL DEF Spec

-----------------------------------------------------------------------------
(* The types.                                                                *)

\* The text in a row and in an entry is its function's, and an entry's memory map was read.
RunKept ==
    /\ run.pc \in Before \cup {"idle"} => run.hits = {}
    /\ run.pc \in {"labels", "attach"} /\ run.todo # {} => run.map \in Values
    /\ \A f \in Funs : run.row[f].step \in {"decompiled", "read", "done"} =>
          run.row[f].text \in [Printed(f) -> Values]

FileKept ==
    /\ file.script \in 0..script
    /\ \A f \in DOMAIN file.entries :
          /\ file.entries[f].map \in Values
          /\ file.entries[f].facts.text \in [Printed(f) -> Values]

Kept == RunKept /\ FileKept /\ spoiled \subseteq {"program", "reverted"}

\* An entry is one of those there may be.
LEMMA EntryIsOne ==
    ASSUME ProgramTyped, FileInv, FileKept, NEW f \in DOMAIN file.entries
    PROVE  file.entries[f] \in Entries
<1> DEFINE e == file.entries[f]
<1>1. /\ f \in Funs /\ EntryTyped(f, e) /\ e.map \in Values
      /\ e.facts.text \in [Printed(f) -> Values]
  BY DEF FileInv, FileKept
<1>2. e.facts.script \in 0..MaxScript
  BY <1>1, FactAssumption DEF EntryTyped, FileKept, ProgramTyped
<1> HIDE DEF e
<1>3. e.facts \in [seen : [Seen(f) -> Values], text : [Printed(f) -> Values],
                   labels : Values, script : 0..MaxScript]
  BY <1>1, <1>2 DEF EntryTyped
<1> DEFINE Facts == UNION {[seen : [Seen(g) -> Values], text : [Printed(g) -> Values],
                            labels : Values, script : 0..MaxScript] : g \in Funs}
<1>4. e.facts \in Facts
  BY <1>1, <1>3
<1> HIDE DEF Facts
<1>5. e \in [map : Values, self : Values, deps : TypeStamps, text : Texts, facts : Facts]
  BY <1>1, <1>4 DEF EntryTyped
<1> QED
  BY <1>5 DEF Entries, Facts, TypeStamps, Texts, e

\* With the invariant, that is what TypeOK says.
LEMMA KeptTypes ==
    ASSUME IInv, Kept
    PROVE  TypeOK
<1>1. /\ program \in [Parts -> Values] /\ highest \in [Parts -> Values]
      /\ \A p \in Parts : program[p] <= highest[p]
      /\ script \in 0..MaxScript /\ during \subseteq Parts
  BY DEF IInv, ProgramTyped
<1>2. DOMAIN file.entries \subseteq Funs /\ \A f \in DOMAIN file.entries : file.entries[f] \in Entries
  BY EntryIsOne DEF IInv, FileInv, Kept
<1>3. run.pc \in PCs /\ \A f \in Funs : run.row[f].step # "waiting" => f \in run.todo
  BY DEF IInv, RunTyped, RunType
<1>4. run.hits \subseteq DOMAIN run.cache
  BY <1>3 DEF IInv, RunTyped, Kept, RunKept, PCs
<1> QED
  BY <1>1, <1>2, <1>3, <1>4 DEF TypeOK, Kept, FileKept, PCs, Before

\* What the rows and the run's map and hits depend on.
LEMMA RunKeptStill ==
    ASSUME RunKept, run'.row = run.row, run'.map = run.map, run'.hits = run.hits,
           run'.todo = run.todo, run'.pc = run.pc
    PROVE  RunKept'
  BY DEF RunKept

LEMMA FileKeptStill ==
    ASSUME FileKept, file' = file, script' = script
    PROVE  FileKept'
  BY DEF FileKept

\* Another row's text is filled by its own decompile.
LEMMA RowStepKept ==
    ASSUME IInv, Kept, NEW f \in Funs,
           ReadSelf(f) \/ Decompile(f) \/ ReadTypes(f) \/ ReadLabels(f)
    PROVE  Kept'
<1>1. ProgramTyped /\ RunTyped /\ RunKept
  BY DEF IInv, Kept
<1>2. OthersStay(f)
  BY <1>1, ReadSelfEffect, DecompileEffect, ReadTypesEffect, ReadLabelsEffect
<1>3. TextOf(f) \in [Printed(f) -> Values]
  BY <1>1, Names DEF TextOf, Restrict, ProgramTyped
<1>4. run'.row[f].step \in {"decompiled", "read", "done"} => run'.row[f].text \in [Printed(f) -> Values]
  <2>1. CASE ReadSelf(f)
    BY <1>1, <2>1, ReadSelfEffect
  <2>2. CASE Decompile(f)
    BY <1>1, <1>3, <2>2, DecompileEffect
  <2>3. CASE ReadTypes(f)
    BY <1>1, <2>3, ReadTypesEffect DEF RunKept
  <2>4. CASE ReadLabels(f)
    BY <1>1, <2>4, ReadLabelsEffect DEF RunKept
  <2> QED
    BY <2>1, <2>2, <2>3, <2>4
<1>5. /\ run.pc \in {"facts", "labels"} /\ run'.pc \in {run.pc, "labels", "attach"}
      /\ run'.pc # run.pc => run.pc = "labels" /\ run.todo # {}
  <2>1. CASE ReadSelf(f) \/ Decompile(f) \/ ReadTypes(f)
    BY <1>1, <2>1, ReadSelfEffect, DecompileEffect, ReadTypesEffect
  <2>2. CASE ReadLabels(f)
    BY <1>1, <2>2, ReadLabelsEffect
  <2> QED
    BY <2>1, <2>2
<1>6. RunKept'
  <2>1. \A g \in Funs : run'.row[g].step \in {"decompiled", "read", "done"} =>
           run'.row[g].text \in [Printed(g) -> Values]
    BY <1>1, <1>2, <1>4 DEF OthersStay, RunKept
  <2>2. /\ run'.pc \in {"labels", "attach"} /\ run'.todo # {} => run'.map \in Values
        /\ run'.pc \notin Before \cup {"idle"}
    BY <1>1, <1>2, <1>5 DEF OthersStay, RunKept, Before
  <2> QED
    BY <2>1, <2>2 DEF RunKept
<1> QED
  BY <1>2, <1>6, FileKeptStill DEF Kept, OthersStay, Still

\* An attached run stores what its rows hold.
LEMMA AttachKept ==
    ASSUME IInv, Kept, Attach
    PROVE  Kept'
<1>1. ProgramTyped /\ RunTyped /\ RunKept /\ FileKept
  BY DEF IInv, Kept
<1>2. run.pc = "attach" /\ Ended /\ run'.todo = run.todo /\ UNCHANGED <<script, spoiled>>
  BY <1>1, AttachEffect
<1>3. run'.hits = {}
  BY DEF Attach, NoRun
<1>4. RunKept'
  BY <1>2, <1>3 DEF RunKept, Ended
<1>5. /\ DOMAIN file'.entries = DOMAIN run.cache \cup Stored /\ file'.script = script
      /\ \A f \in Stored : file'.entries[f] = EntryOf(f)
      /\ \A f \in DOMAIN run.cache \ Stored :
            file'.entries[f] = file.entries[f] /\ f \in DOMAIN file.entries
  BY AttachedFile
<1>6. ASSUME NEW f \in Stored
      PROVE  EntryOf(f).map \in Values /\ EntryOf(f).facts.text \in [Printed(f) -> Values]
  <2>1. /\ f \in Funs /\ f \in run.todo /\ run.row[f].text = run.text[f] /\ run.row[f].step = "done"
    BY <1>1, <1>2 DEF Stored, Replaced, Cacheable, RunTyped, RunType
  <2>2. EntryOf(f).map = run.map /\ EntryOf(f).facts.text = run.text[f]
    BY DEF EntryOf, Fresh
  <2> QED
    BY <1>1, <1>2, <2>1, <2>2 DEF RunKept
<1>7. FileKept'
  <2>1. script \in 0..script
    BY <1>1 DEF ProgramTyped
  <2> HIDE DEF Stored, EntryOf
  <2>2. ASSUME NEW f \in DOMAIN file'.entries
        PROVE  file'.entries[f].map \in Values /\ file'.entries[f].facts.text \in [Printed(f) -> Values]
    <3>1. CASE f \in Stored
      BY <1>5, <1>6, <3>1
    <3>2. CASE f \notin Stored
      BY <1>1, <1>5, <3>2 DEF FileKept
    <3> QED
      BY <3>1, <3>2
  <2> QED
    BY <1>2, <1>5, <2>1, <2>2 DEF FileKept
<1> QED
  BY <1>2, <1>4, <1>7 DEF Kept

LEMMA NextKept ==
    ASSUME IInv, Kept, [Next]_vars
    PROVE  Kept'
<1>1. ProgramTyped /\ RunTyped /\ RunKept /\ FileKept /\ run \in RunType
  BY DEF IInv, Kept, RunTyped
<1>2. CASE Edit
  <2>1. spoiled' \subseteq {"program", "reverted"}
    BY <1>2 DEF Edit, Kept
  <2> QED
    BY <1>1, <1>2, <2>1, EditEffect, RunKeptStill, FileKeptStill DEF Kept
<1>3. CASE InstallScripts
  <2>1. FileKept'
    BY <1>1, <1>3 DEF InstallScripts, FileKept, ProgramTyped
  <2> QED
    BY <1>1, <1>3, <2>1, RunKeptStill DEF Kept, InstallScripts
<1>4. CASE StartRun
  <2>1. run'.hits = {}
    BY <1>4 DEF StartRun, NoRun
  <2>2. RunKept'
    BY <1>4, <2>1, StartRunEffect DEF RunKept
  <2> QED
    BY <1>1, <1>4, <2>2, StartRunEffect, FileKeptStill DEF Kept
<1>5. CASE ReadText \/ ReadStamp
  <2>1. Preparing /\ run.pc \in Before /\ run'.pc \in Before
    BY <1>1, <1>5, ReadTextEffect, ReadStampEffect DEF Before
  <2>2. RunKept'
    BY <1>1, <2>1 DEF RunKept, Preparing, Before
  <2> QED
    BY <1>1, <2>1, <2>2, FileKeptStill DEF Kept, Preparing, Still
<1>6. CASE Check
  <2>1. RunKept'
    BY <1>1, <1>6, CheckEffect DEF RunKept, IInv, Before
  <2> QED
    BY <1>1, <1>6, <2>1, CheckEffect, FileKeptStill DEF Kept, Still, IInv
<1>7. ASSUME NEW f \in Funs, ReadSelf(f) \/ Decompile(f) \/ ReadTypes(f) \/ ReadLabels(f)
      PROVE  Kept'
  BY <1>7, RowStepKept
<1>8. CASE EndScript
  <2>1. program["map"] \in Values
    BY <1>1 DEF ProgramTyped, Parts
  <2>2. RunKept'
    BY <1>1, <1>8, <2>1, EndScriptEffect DEF RunKept, Before
  <2> QED
    BY <1>1, <1>8, <2>2, EndScriptEffect, FileKeptStill DEF Kept, Still
<1>9. CASE Attach
  BY <1>9, AttachKept
<1>10. CASE Breaks
  <2>1. run'.hits = {}
    BY <1>10 DEF Breaks, NoRun
  <2>2. RunKept'
    BY <1>1, <1>10, <2>1, BreaksEffect DEF RunKept, Ended
  <2> QED
    BY <1>1, <1>10, <2>2, BreaksEffect, FileKeptStill DEF Kept, Still
<1>11. CASE UNCHANGED vars
  BY <1>1, <1>11, RunKeptStill, FileKeptStill DEF Kept, vars
<1> QED
  BY <1>2, <1>3, <1>4, <1>5, <1>6, <1>7, <1>8, <1>9, <1>10, <1>11 DEF Next

\* The program, the cache and the extraction are well typed: an entry in the file holds what
\* its own function's decompile shows, and stamps that were read.
THEOREM SpecTypeOK == Spec => []TypeOK
<1>1. Init => Kept
  <2> SUFFICES ASSUME Init PROVE Kept
    OBVIOUS
  <2>1. /\ run.hits = {} /\ run.pc = "idle" /\ \A f \in Funs : run.row[f].step = "waiting"
    BY DEF Init, NoRun, NoRow
  <2>2. file.script = 0 /\ DOMAIN file.entries = {} /\ script = 0 /\ spoiled = {}
    BY DEF Init, Nothing
  <2> QED
    BY <2>1, <2>2 DEF Kept, RunKept, FileKept
<1>2. IInv /\ Kept /\ [Next]_vars => Kept'
  BY NextKept
<1>3. IInv /\ Kept => TypeOK
  BY KeptTypes
<1> QED
  BY <1>1, <1>2, <1>3, SpecInv, PTL DEF Spec

-----------------------------------------------------------------------------
(* What it is for.                                                           *)

\* FactCache.save never writes a stamp newer than the facts beside it, though the facts script
\* stamps a function before its decompile, the types after it, and the program last of all.
THEOREM SpecStampNeverNewer == Spec => []StampNeverNewer
<1>1. IInv => StampNeverNewer
  <2>1. SUFFICES ASSUME IInv, Unspoiled, NEW f \in DOMAIN file.entries
                 PROVE  LET e == file.entries[f]
                        IN  e.map <= e.facts.seen["map"] /\ e.self <= e.facts.seen[f]
                            /\ \A p \in TypeParts : e.deps[p] <= e.facts.seen[p]
    BY DEF StampNeverNewer, Unspoiled
  <2> DEFINE e == file.entries[f]
  <2>2. f \in Funs /\ EntryTyped(f, e) /\ EntrySound(f, e)
    BY <2>1 DEF IInv, FileInv
  <2> HIDE DEF e
  <2>3. e.facts.seen \in [Seen(f) -> Values] /\ e.deps \in TypeStamps
    BY <2>2 DEF EntryTyped
  <2>4. \A p \in Seen(f) : e.facts.seen[p] \in Int
    BY <2>3 DEF Values
  <2>5. \A p \in TypeParts : e.deps[p] \in Int
    BY <2>3 DEF TypeStamps, Values
  <2>6. e.map <= e.facts.seen["map"] /\ e.self <= e.facts.seen[f]
    BY <2>2, <2>4, Names DEF EntrySound
  <2>7. \A p \in TypeParts : e.deps[p] <= e.facts.seen[p]
    BY <2>2, <2>4, <2>5, Names DEF EntrySound, DepsFollow
  <2> QED
    BY <2>6, <2>7 DEF e
<1> QED
  BY <1>1, SpecInv, PTL

\* What FactCache.check answers for is right: an entry whose text, stamps and program are
\* those of the program now holds what extractFunctionFacts would find now.
THEOREM SpecCurrentMeansRight == Spec => []CurrentMeansRight
<1>1. IInv => CurrentMeansRight
  <2>1. SUFFICES ASSUME IInv, Unspoiled, NEW f \in Funs, CurrentNow(f)
                 PROVE  file.entries[f].facts = FactsOf(f)
    BY DEF CurrentMeansRight, Unspoiled
  <2>2. f \in DOMAIN file.entries /\ file.script = script
    BY <2>1, LoadedEntries DEF IInv, CurrentNow
  <2> QED
    BY <2>1, <2>2, SoundIsRight DEF IInv, FileInv, CurrentNow
<1> QED
  BY <1>1, SpecInv, PTL

\* An extraction during which nobody edits leaves on the functions and in the cache what one
\* without a cache would have read; and the next takes all of it from there.
THEOREM SpecQuietRunIsRight == Spec => []QuietRunIsRight
<1>1. IInv => QuietRunIsRight
  BY DEF IInv
<1> QED
  BY <1>1, SpecInv, PTL

=============================================================================
