------------------------------- MODULE FactCache -------------------------------
(***************************************************************************)
(* The per-function fact cache: FactCache of packages/reconstruct/src/     *)
(* extract/fact-cache.ts, filled and consulted by extractFunctionFacts of  *)
(* function-facts.ts, while the program it reads is being edited.          *)
(*                                                                         *)
(* The program is a value for each of its parts: the code of a function,   *)
(* the layout and the names of a type every function reaches through a     *)
(* pointer, and what moves every decompile at once (the memory map).  The  *)
(* facts of a function are what its decompile saw of them, and the code    *)
(* its labels were looked up in, by a script of its own.  Its text shows   *)
(* only some parts; equal hashes are equal texts.                          *)
(*                                                                         *)
(* `spoiled` is history: what has happened that some property does not     *)
(* survive.                                                                *)
(*   "program"   the memory map was edited while facts were extracted      *)
(*   "reverted"  a part edited then was taken back to an earlier value     *)
(***************************************************************************)
EXTENDS Integers, FiniteSets, Functions

CONSTANTS
    Funs,           \* the functions that may have facts
    Shown,          \* of "code", "map", "shape", "name": what a decompile's text shows
    MaxValue,       \* bound: values of a part
    MaxEdits,       \* bound: edits
    MaxRuns,        \* bound: extractions
    MaxScript       \* bound: versions of the scripts

TypeParts == {"shape", "name"}
Parts == Funs \cup TypeParts \cup {"map"}

ASSUME FactAssumption ==
    /\ Funs \cap {"shape", "name", "map"} = {}
    /\ Shown \subseteq {"code", "map", "shape", "name"}
    /\ {MaxValue, MaxEdits, MaxRuns, MaxScript} \subseteq Nat

VARIABLES
    program,        \* [Parts -> value]
    highest,        \* the values each part has had are those up to here
    edits,          \* the program's modification number
    script,         \* FACT_SCRIPT_VERSION of the installed code
    file,           \* the cache on disk: its header's script, and its entries
    run,            \* the extraction in progress
    runs,
    attached,       \* facts on the functions of the last extraction
    during,         \* parts edited while facts were extracted
    spoiled

vars == <<program, highest, edits, script, file, run, runs, attached, during, spoiled>>

Values == 0..MaxValue
Nothing == <<>>

\* What a decompile of f sees, and what its text shows of it.
Seen(f) == TypeParts \cup {"map", f}
Printed(f) == {p \in Seen(f) : (IF p = f THEN "code" ELSE p) \in Shown}

TextOf(f) == Restrict(program, Printed(f))
Decompiled(f) == Restrict(program, Seen(f))
TypesNow == Restrict(program, TypeParts)

\* What an extraction now would find.
FactsOf(f) == [seen |-> Decompiled(f), text |-> TextOf(f), labels |-> program[f], script |-> script]

NoRow == [step |-> "waiting", mod |-> 0, self |-> 0, text |-> Nothing, seen |-> Nothing,
          deps |-> Nothing, stable |-> FALSE, labels |-> 0]

NoRun == [pc |-> "idle", cache |-> Nothing, text |-> [f \in Funs |-> Nothing],
          self |-> [f \in Funs |-> -1], map |-> -1, types |-> Nothing,
          hits |-> {}, todo |-> {}, row |-> [f \in Funs |-> NoRow], memo |-> Nothing, quiet |-> TRUE]

Entries == [map : Values, self : Values, deps : [TypeParts -> Values],
            text : UNION {[Printed(f) -> Values] : f \in Funs},
            facts : UNION {[seen : [Seen(f) -> Values], text : [Printed(f) -> Values],
                           labels : Values, script : 0..MaxScript] : f \in Funs}]

TypeOK ==
    /\ program \in [Parts -> Values] /\ highest \in [Parts -> Values]
    /\ \A p \in Parts : program[p] <= highest[p]
    /\ script \in 0..MaxScript /\ file.script \in 0..script
    /\ DOMAIN file.entries \subseteq Funs /\ \A f \in DOMAIN file.entries : file.entries[f] \in Entries
    /\ run.pc \in {"idle", "texts", "stamps", "map", "types", "check", "facts", "labels", "attach"}
    /\ run.hits \subseteq DOMAIN run.cache
    /\ \A f \in Funs : run.row[f].step # "waiting" => f \in run.todo
    /\ during \subseteq Parts /\ spoiled \subseteq {"program", "reverted"}

Init ==
    /\ program = [p \in Parts |-> 0] /\ highest = program /\ edits = 0
    /\ script = 0
    /\ file = [script |-> 0, entries |-> Nothing]
    /\ run = NoRun /\ runs = 0 /\ attached = Nothing
    /\ during = {} /\ spoiled = {}

-----------------------------------------------------------------------------
(* Ghidra's users, and the next version of the scripts.                    *)

Extracting == run.pc \in {"facts", "labels"}

\* Some part gets a value, new or one it has had.
Edit ==
    /\ edits < MaxEdits
    /\ \E p \in Parts, v \in Values :
          /\ v # program[p] /\ v <= highest[p] + 1
          /\ program' = [program EXCEPT ![p] = v]
          /\ highest' = [highest EXCEPT ![p] = IF v > @ THEN v ELSE @]
          /\ during' = IF Extracting THEN during \cup {p} ELSE during
          /\ spoiled' = spoiled
                \cup (IF Extracting /\ p = "map" THEN {"program"} ELSE {})
                \cup (IF p \in during' /\ v <= highest[p] THEN {"reverted"} ELSE {})
    /\ edits' = edits + 1
    /\ run' = [run EXCEPT !.quiet = FALSE]
    /\ UNCHANGED <<script, file, runs, attached>>

InstallScripts ==
    /\ run.pc = "idle" /\ script < MaxScript
    /\ script' = script + 1
    /\ attached' = Nothing
    /\ UNCHANGED <<program, highest, edits, file, run, runs, during, spoiled>>

Outside == <<program, highest, edits, script, during, spoiled>>

-----------------------------------------------------------------------------
(* Which entries are current.                                              *)

\* Variant: any file is read.
LoadAny(f) == f.entries

\* load(): a file other scripts wrote is empty.
Load(f) == IF f.script = script THEN f.entries ELSE Nothing

StartRun ==
    /\ run.pc = "idle" /\ runs < MaxRuns
    /\ run' = [NoRun EXCEPT !.pc = "texts", !.cache = Load(file)]
    /\ runs' = runs + 1 /\ attached' = Nothing
    /\ UNCHANGED <<Outside, file>>

\* extractAllFunctions decompiled every function before.
ReadText ==
    /\ run.pc = "texts"
    /\ \E f \in Funs :
          /\ run.text[f] = Nothing
          /\ LET text == [run.text EXCEPT ![f] = TextOf(f)]
             IN  run' = [run EXCEPT !.text = text,
                           !.pc = IF Nothing \in Range(text) THEN "texts"
                                  ELSE IF run.cache = Nothing THEN "check" ELSE "stamps"]
    /\ UNCHANGED <<Outside, file, runs, attached>>

\* The stamps script: every function's, then the program's, then the types'.
ReadStamp ==
    /\ \/ /\ run.pc = "stamps"
          /\ \E f \in Funs :
                /\ run.self[f] = -1
                /\ LET self == [run.self EXCEPT ![f] = program[f]]
                   IN  run' = [run EXCEPT !.self = self, !.pc = IF -1 \in Range(self) THEN "stamps" ELSE "map"]
       \/ /\ run.pc = "map"
          /\ run' = [run EXCEPT !.map = program["map"], !.pc = "types"]
       \/ /\ run.pc = "types"
          /\ run' = [run EXCEPT !.types = TypesNow, !.pc = "check"]
    /\ UNCHANGED <<Outside, file, runs, attached>>

\* FactCache.check answering null.
Current(e, text, map, self, types) ==
    e.map = map /\ e.self = self /\ e.deps = types /\ e.text = text

\* The hits, and what is extracted: the misses, and any hits to be verified.
Check ==
    /\ run.pc = "check"
    /\ LET hits == {f \in DOMAIN run.cache :
                       Current(run.cache[f], run.text[f], run.map, run.self[f], run.types)}
       IN  \E verify \in SUBSET hits :
              run' = [run EXCEPT !.hits = hits, !.todo = (Funs \ hits) \cup verify,
                                 !.self = NoRun.self, !.types = Nothing,
                                 !.pc = IF (Funs \ hits) \cup verify = {} THEN "attach" ELSE "facts"]
    /\ UNCHANGED <<Outside, file, runs, attached>>

-----------------------------------------------------------------------------
(* The facts script, its threads a function each.                          *)

Row(f, step) == run.pc = "facts" /\ f \in run.todo /\ run.row[f].step = step

\* The modification number, then the function's own stamp.
ReadSelf(f) ==
    /\ Row(f, "waiting")
    /\ run' = [run EXCEPT !.row[f].step = "stamped", !.row[f].mod = edits, !.row[f].self = program[f]]
    /\ UNCHANGED <<Outside, file, runs, attached>>

Decompile(f) ==
    /\ Row(f, "stamped")
    /\ run' = [run EXCEPT !.row[f].step = "decompiled", !.row[f].text = TextOf(f), !.row[f].seen = Decompiled(f)]
    /\ UNCHANGED <<Outside, file, runs, attached>>

\* Variant: the program may change while a function is read.
ReadTypesAlwaysStable(f) ==
    /\ Row(f, "decompiled")
    /\ LET memo == IF run.memo = Nothing THEN TypesNow ELSE run.memo
       IN  run' = [run EXCEPT !.row[f].step = "read", !.row[f].deps = memo, !.row[f].stable = TRUE, !.memo = memo]
    /\ UNCHANGED <<Outside, file, runs, attached>>

\* The stamps of the types the markup named, each computed once per script.
ReadTypes(f) ==
    /\ Row(f, "decompiled")
    /\ LET memo == IF run.memo = Nothing THEN TypesNow ELSE run.memo
       IN  run' = [run EXCEPT !.row[f].step = "read", !.row[f].deps = memo,
                              !.row[f].stable = (edits = run.row[f].mod), !.memo = memo]
    /\ UNCHANGED <<Outside, file, runs, attached>>

\* The program's stamp comes last; then the labels' script.
EndScript ==
    /\ run.pc = "facts"
    /\ \A f \in run.todo : run.row[f].step = "read"
    /\ run' = [run EXCEPT !.pc = "labels", !.map = program["map"]]
    /\ UNCHANGED <<Outside, file, runs, attached>>

ReadLabels(f) ==
    /\ run.pc = "labels"
    /\ f \in run.todo /\ run.row[f].step = "read"
    /\ LET row == [run.row EXCEPT ![f].step = "done", ![f].labels = program[f]]
       IN  run' = [run EXCEPT !.row = row,
                              !.pc = IF \A g \in run.todo : row[g].step = "done" THEN "attach" ELSE "labels"]
    /\ UNCHANGED <<Outside, file, runs, attached>>

-----------------------------------------------------------------------------
(* Attaching, and the cache.                                               *)

\* The text the caller holds picks which of the row's facts are wanted, and which labels.
Fresh(f) == [seen |-> run.row[f].seen, text |-> run.text[f], labels |-> run.row[f].labels, script |-> script]

\* Variant: the caller's text may be another.
CacheableWhenStable(f) == run.row[f].stable

\* The row describes one state of the program, and the text of it is the one kept.
Cacheable(f) == run.row[f].stable /\ run.row[f].text = run.text[f]

\* A verified hit that differs is replaced like a miss.
Replaced == {f \in run.todo : f \notin run.hits \/ run.cache[f].facts # Fresh(f)}

Stored == {f \in Replaced : Cacheable(f)}

EntryOf(f) ==
    [map |-> run.map, self |-> run.row[f].self, deps |-> run.row[f].deps,
     text |-> run.row[f].text, facts |-> Fresh(f)]

\* save() is written beside the file and renamed over it.
Attach ==
    /\ run.pc = "attach"
    /\ attached' = [f \in Funs |-> IF f \in Replaced THEN Fresh(f) ELSE run.cache[f].facts]
    /\ file' = [script |-> script,
                entries |-> [f \in DOMAIN run.cache \cup Stored |->
                                IF f \in Stored THEN EntryOf(f) ELSE run.cache[f]]]
    /\ run' = [NoRun EXCEPT !.quiet = run.quiet, !.todo = run.todo]
    /\ UNCHANGED <<Outside, runs>>

\* A script fails, or the process dies.
Breaks ==
    /\ run.pc # "idle"
    /\ run' = NoRun
    /\ UNCHANGED <<Outside, file, runs, attached>>

-----------------------------------------------------------------------------

Next ==
    \/ Edit \/ InstallScripts
    \/ StartRun \/ ReadText \/ ReadStamp \/ Check
    \/ \E f \in Funs : ReadSelf(f) \/ Decompile(f) \/ ReadTypes(f) \/ ReadLabels(f)
    \/ EndScript \/ Attach \/ Breaks

Spec == Init /\ [][Next]_vars

-----------------------------------------------------------------------------
(* Properties.                                                             *)

Free(what) == spoiled \cap what = {}

\* Would the cache vouch for f in the program as it is now?
CurrentNow(f) ==
    /\ f \in DOMAIN Load(file)
    /\ Current(file.entries[f], TextOf(f), program["map"], program[f], TypesNow)

\* An entry that would be found current holds the facts a fresh extraction would find,
\* whatever was edited while it was made.
CurrentMeansRight ==
    Free({"program", "reverted"}) =>
        \A f \in Funs : CurrentNow(f) => file.entries[f].facts = FactsOf(f)

\* A stored stamp is never newer than the facts beside it (function-facts.ts).
StampNeverNewer ==
    Free({"program", "reverted"}) =>
        \A f \in DOMAIN file.entries :
            LET e == file.entries[f]
            IN  e.map <= e.facts.seen["map"] /\ e.self <= e.facts.seen[f]
                /\ \A p \in TypeParts : e.deps[p] <= e.facts.seen[p]

\* When nobody edits the program meanwhile, what an extraction leaves on the functions and
\* in the cache is what it would have read without one; of the functions it read again to
\* verify them, whatever happened before.  And the next extraction takes it all from there.
QuietRunIsRight ==
    attached # Nothing /\ run.pc = "idle" /\ run.quiet =>
        \A f \in Funs :
            /\ CurrentNow(f)
            /\ f \in run.todo \/ Free({"program", "reverted"}) =>
                  attached[f] = FactsOf(f) /\ file.entries[f].facts = FactsOf(f)
===============================================================================
