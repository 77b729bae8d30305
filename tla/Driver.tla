------------------------------- MODULE Driver -------------------------------
(***************************************************************************)
(* The program suhc as its users run it (src/src/main.c): compile a file,  *)
(* measure the convergence of a directory, and survey a directory with     *)
(* --lint, --map, --audit or one file with --diff.  Runs share the disk:   *)
(* the sources, the outputs, the .suhc_history and .convergence.json of    *)
(* the directory.  Sources are edited meanwhile, several runs go on at     *)
(* once, of the same source or with the same output too, a run may be      *)
(* killed, a file refused and the disk full.  A step of a run is what it   *)
(* does between two moments at which it touches a file.                    *)
(***************************************************************************)
EXTENDS Convergence

CONSTANTS
    Procs,                \* the runs that can go on at once
    Files, CodeFiles,     \* the names of sources, and of files of the target
    Outputs,              \* the names of generated files, given with -o or by default
    Python, Nested,       \* which CodeFiles are .py, and which lie in a subdirectory
    Absent,               \* a file that is not there or cannot be read
    Empty,                \* a file opened for writing, nothing in it yet
    Worlds,               \* where it starts: [dir, code, modes, drafts, runs, edits]
    MaxOrdbok,            \* 64: the sources --lint takes
    MaxLintScans,         \* 256: the scans --lint takes
    MaxMapScans,          \* 64: the scans --map takes
    Faults                \* what may go wrong: "killed", "denied" (a file), "full" (the disk)

(* As far as the analyses look, a program is a sequence of declarations, whose
   parts are in sequences or are counted, and a scan has its finds in sequences. *)
IsSequence(s) == s \in Seq(Range(s))
IsProgram(prog) ==
    /\ IsSequence(prog.decls)
    /\ \A i \in DOMAIN prog.decls :
          LET d == prog.decls[i] IN
          /\ d.params \in Nat /\ d.fields \in Nat
          /\ IsSequence(d.members) /\ IsSequence(d.arms) /\ IsSequence(d.sections)
IsScan(scan) ==
    /\ IsSequence(scan.consts) /\ IsSequence(scan.functions) /\ IsSequence(scan.switches)
    /\ \A i \in DOMAIN scan.switches : IsSequence(scan.switches[i].branches)

ASSUME DriverAssumption ==
    /\ {Absent, Empty} \cap Nat = {}
    /\ None \notin Procs
    /\ \A w \in Worlds :
          /\ DOMAIN w.dir = Files
          /\ \A prog \in w.drafts \cup Range(w.dir) : prog # Absent => IsProgram(prog)
          /\ \A c \in CodeFiles : w.code[c] # Absent => IsScan(w.code[c])

VARIABLES
    modes, drafts,        \* of the world: what is run, what sources are edited to
    dir, code,            \* the sources and the files of the target
    outputs,              \* the generated files
    sole,                 \* for each of them the run that wrote all there is in it since it
                          \* was emptied; None when runs wrote side by side or the disk was full
    history,              \* .suhc_history
    baseline,             \* .convergence.json: Absent, Empty or a number
    runs,                 \* what every process does
    runsLeft, editsLeft,  \* bounds of the model: how many more of them there may be
    measured, cutOff      \* history: the last measurement that was saved whole,
                          \* and whether one was cut off while it was saved since

vars == <<modes, drafts, dir, code, outputs, sole, history, baseline, runs, runsLeft,
          editsLeft, measured, cutOff>>
world == <<modes, drafts, code>>

Whole(prog) == [of |-> prog, whole |-> TRUE]
Truncated == [of |-> None, whole |-> FALSE]

NewRun ==
    [pc |-> "idle", mode |-> None, exit |-> None,
     file |-> None, prog |-> None,                     \* compile
     out |-> None,                                     \* the output, None without a target
     opened |-> FALSE,                                 \* history: it has opened the output
     past |-> None, trend |-> "none",
     todo |-> {}, codeTodo |-> {},                     \* what readdir has still to give
     progs |-> <<>>, scans |-> <<>>, report |-> <<>>,
     has |-> FALSE, prev |-> 0, verdict |-> "none",    \* convergence
     known |-> None]                                   \* history: `measured' as it started

Init ==
    /\ \E w \in Worlds :
          /\ modes = w.modes /\ drafts = w.drafts /\ dir = w.dir /\ code = w.code
          /\ runsLeft = w.runs /\ editsLeft = w.edits
    /\ outputs = [o \in Outputs |-> Absent] /\ sole = [o \in Outputs |-> None]
    /\ history = <<>> /\ baseline = Absent
    /\ runs = [p \in Procs |-> NewRun]
    /\ measured = None /\ cutOff = FALSE

Resting(p) == runs[p].pc \in {"idle", "done", "killed"}
At(p, pc) == runs[p].pc = pc
Finished(run, status) == [run EXCEPT !.pc = "done", !.exit = status]
Set(p, run) == runs' = [runs EXCEPT ![p] = run]
Start(p, mode) == mode \in modes /\ Resting(p) /\ runsLeft > 0 /\ runsLeft' = runsLeft - 1

(* Someone saves a source, or removes it. *)
Edit(f, prog) ==
    /\ editsLeft > 0 /\ prog \in drafts /\ prog # dir[f]
    /\ dir' = [dir EXCEPT ![f] = prog] /\ editsLeft' = editsLeft - 1
    /\ UNCHANGED <<world, outputs, sole, history, baseline, runs, runsLeft, measured, cutOff>>

-----------------------------------------------------------------------------
(* Compiling a file                                                         *)

(* Type errors are found by no other mode. *)
BuildErrors(prog) == prog.errors \/ prog.typeErrors

CompileAnyway(p, f, out) ==   \* code is generated whatever was found
    /\ Start(p, "compile")
    /\ LET run == [NewRun EXCEPT !.mode = "compile", !.file = f, !.out = out, !.prog = dir[f]]
       IN  Set(p, IF dir[f] = Absent THEN Finished(run, 2)
                  ELSE [run EXCEPT !.pc = IF out # None THEN "open" ELSE "trend"])
    /\ UNCHANGED <<world, dir, outputs, sole, history, baseline, editsLeft, measured, cutOff>>

(* Read, check and report.  No code is generated from a program with errors.
   Nothing keeps two runs from the same source, or from the same output. *)
Compile(p, f, out) ==
    /\ Start(p, "compile")
    /\ LET run == [NewRun EXCEPT !.mode = "compile", !.file = f, !.out = out, !.prog = dir[f]]
       IN  Set(p, IF dir[f] = Absent THEN Finished(run, 2)
                  ELSE IF out # None /\ BuildErrors(dir[f]) THEN Finished(run, 1)
                  ELSE [run EXCEPT !.pc = IF out # None THEN "open" ELSE "trend"])
    /\ UNCHANGED <<world, dir, outputs, sole, history, baseline, editsLeft, measured, cutOff>>

(* The runs besides p that have an output open. *)
Writing(p, out) == {q \in Procs \ {p} : At(q, "emit") /\ runs[q].out = out}

(* fopen "w" empties the output before the first byte is written. *)
OpenOutput(p) ==
    /\ At(p, "open")
    /\ outputs' = [outputs EXCEPT ![runs[p].out] = Truncated]
    /\ sole' = [sole EXCEPT ![runs[p].out] = IF Writing(p, runs[p].out) = {} THEN p ELSE None]
    /\ Set(p, [runs[p] EXCEPT !.pc = "emit", !.opened = TRUE])
    /\ UNCHANGED <<world, dir, history, baseline, runsLeft, editsLeft, measured, cutOff>>

OutputDenied(p) ==
    /\ At(p, "open") /\ "denied" \in Faults
    /\ Set(p, Finished(runs[p], 2))
    /\ UNCHANGED <<world, dir, outputs, sole, history, baseline, runsLeft, editsLeft, measured, cutOff>>

(* The source was read at the start: an edit since then is not in the output.
   Of runs that write side by side one may overwrite parts of the other. *)
Emit(p) ==
    /\ At(p, "emit")
    /\ \E text \in {Whole(runs[p].prog), Truncated} :
          /\ sole[runs[p].out] = p => text # Truncated
          /\ outputs' = [outputs EXCEPT ![runs[p].out] = text]
    /\ Set(p, [runs[p] EXCEPT !.pc = "trend"])
    /\ UNCHANGED <<world, dir, sole, history, baseline, runsLeft, editsLeft, measured, cutOff>>

(* Neither fprintf nor fclose is checked. *)
EmitCutOff(p) ==
    /\ At(p, "emit") /\ "full" \in Faults
    /\ outputs' = [outputs EXCEPT ![runs[p].out] = Truncated]
    /\ sole' = [sole EXCEPT ![runs[p].out] = None]
    /\ Set(p, [runs[p] EXCEPT !.pc = "trend"])
    /\ UNCHANGED <<world, dir, history, baseline, runsLeft, editsLeft, measured, cutOff>>

Analysis(p) == Analyze(runs[p].prog.decls)

(* The history is that of the directory: its last line may be of another file. *)
LoadTrend(p) ==
    /\ At(p, "trend")
    /\ Set(p, IF history = <<>> \/ Analysis(p).total = 0
              THEN [runs[p] EXCEPT !.pc = "append"]
              ELSE [runs[p] EXCEPT !.pc = "append", !.past = history[Len(history)],
                        !.trend = Trend(Analysis(p).ratio, history[Len(history)].printed)])
    /\ UNCHANGED <<world, dir, outputs, sole, history, baseline, runsLeft, editsLeft, measured, cutOff>>

BuildExit(p) == IF BuildErrors(runs[p].prog) THEN 1 ELSE 0

(* A line is written whole; the exact ratio is noted beside what is printed. *)
AppendHistory(p) ==
    /\ At(p, "append")
    /\ history' = Append(history, [cast |-> Analysis(p).total, exact |-> Analysis(p).ratio,
                                   printed |-> Printed(Analysis(p).ratio)])
    /\ Set(p, Finished(runs[p], BuildExit(p)))
    /\ UNCHANGED <<world, dir, outputs, sole, baseline, runsLeft, editsLeft, measured, cutOff>>

(* The file cannot be opened, or the line finds no room. *)
HistoryDenied(p) ==
    /\ At(p, "append") /\ Faults \cap {"denied", "full"} # {}
    /\ Set(p, Finished(runs[p], BuildExit(p)))
    /\ UNCHANGED <<world, dir, outputs, sole, history, baseline, runsLeft, editsLeft, measured, cutOff>>

-----------------------------------------------------------------------------
(* Reading directories, in whatever order readdir gives the names           *)

(* --map scans the target first, the others the ordbok. *)
FirstPhase(mode) == IF mode = "map" THEN "code" ELSE "sources"
AfterSources(mode) ==
    IF mode \in {"lint", "diff"} THEN "code"
    ELSE IF mode = "convergence" THEN "baseline" ELSE "report"
AfterCode(mode) == IF mode = "map" THEN "sources" ELSE "report"

(* --map looks neither into subdirectories nor at Python. *)
Scanned(mode) == IF mode = "map" THEN CodeFiles \ (Python \cup Nested) ELSE CodeFiles

Survey(p, mode) ==
    /\ Start(p, mode) /\ mode \in {"lint", "map", "audit"}
    /\ Set(p, [NewRun EXCEPT !.mode = mode, !.pc = FirstPhase(mode), !.todo = Files,
                             !.codeTodo = Scanned(mode)])
    /\ UNCHANGED <<world, dir, outputs, sole, history, baseline, editsLeft, measured, cutOff>>

Diff(p, f, c) ==
    /\ Start(p, "diff") /\ c \notin Python
    /\ Set(p, [NewRun EXCEPT !.mode = "diff", !.pc = "sources", !.todo = {f}, !.codeTodo = {c}])
    /\ UNCHANGED <<world, dir, outputs, sole, history, baseline, editsLeft, measured, cutOff>>

(* load_baseline: an empty file is a baseline of nothing ungoverned. *)
LoadBaseline(p) ==
    /\ Start(p, "convergence")
    /\ Set(p, [NewRun EXCEPT !.mode = "convergence", !.pc = "sources", !.todo = Files,
                   !.has = baseline # Absent,
                   !.prev = IF baseline \in {Absent, Empty} THEN 0 ELSE baseline,
                   !.known = IF cutOff \/ \E q \in Procs : At(q, "saving") THEN None
                             ELSE measured])
    /\ UNCHANGED <<world, dir, outputs, sole, history, baseline, editsLeft, measured, cutOff>>

SourceLimit(p) == IF runs[p].mode = "lint" THEN MaxOrdbok ELSE Cardinality(Files)
CodeLimit(p) == IF runs[p].mode = "map" THEN MaxMapScans ELSE MaxLintScans

(* A file that cannot be read is passed over; --diff stops. *)
ReadSource(p, f) ==
    /\ At(p, "sources") /\ f \in runs[p].todo /\ Len(runs[p].progs) < SourceLimit(p)
    /\ LET rest == [runs[p] EXCEPT !.todo = @ \ {f}] IN
       Set(p, IF dir[f] # Absent THEN [rest EXCEPT !.progs = Append(@, dir[f])]
              ELSE IF rest.mode = "diff" THEN Finished(rest, 2) ELSE rest)
    /\ UNCHANGED <<world, dir, outputs, sole, history, baseline, runsLeft, editsLeft, measured, cutOff>>

EndSources(p) ==
    /\ At(p, "sources")
    /\ runs[p].todo = {} \/ Len(runs[p].progs) = SourceLimit(p)
    /\ Set(p, [runs[p] EXCEPT !.pc = AfterSources(runs[p].mode)])
    /\ UNCHANGED <<world, dir, outputs, sole, history, baseline, runsLeft, editsLeft, measured, cutOff>>

(* walk_ts_files has been through all directories before walk_py_files begins;
   the limit is one for both. *)
ReadCode(p, c) ==
    /\ At(p, "code") /\ c \in runs[p].codeTodo /\ Len(runs[p].scans) < CodeLimit(p)
    /\ c \in Python => runs[p].codeTodo \subseteq Python
    /\ LET rest == [runs[p] EXCEPT !.codeTodo = @ \ {c}] IN
       Set(p, IF code[c] # Absent THEN [rest EXCEPT !.scans = Append(@, code[c])]
              ELSE IF rest.mode = "diff" THEN Finished(rest, 2) ELSE rest)
    /\ UNCHANGED <<world, dir, outputs, sole, history, baseline, runsLeft, editsLeft, measured, cutOff>>

EndCode(p) ==
    /\ At(p, "code")
    /\ runs[p].codeTodo = {} \/ Len(runs[p].scans) = CodeLimit(p)
    /\ Set(p, [runs[p] EXCEPT !.pc = AfterCode(runs[p].mode)])
    /\ UNCHANGED <<world, dir, outputs, sole, history, baseline, runsLeft, editsLeft, measured, cutOff>>

-----------------------------------------------------------------------------
(* What the surveys report                                                  *)

(* Every program is compared with all scans merged into one. *)
TotalDrift(progs, scans) ==
    LET merged == MergeScans(scans) IN
    FlattenSeq([i \in DOMAIN progs |-> DriftCompare(progs[i].decls, merged)])

Some(s, Test(_)) == \E i \in DOMAIN s : Test(s[i])

(* 0 = clean, 1 = warnings only, 2 = errors.  The errors and warnings of the
   files are merged into one list, and convergence_analyze adds its own. *)
LintExit(progs, report) ==
    IF Some(progs, LAMBDA g : g.errors) \/ Count(report, "diverged") > 0 THEN 2
    ELSE IF \/ Some(progs, LAMBDA g : g.warnings \/ Analyze(g.decls).ungoverned > 0)
            \/ Count(report, "ordbok_only") > 0 THEN 1
    ELSE 0

(* --map and --diff ask only for drift, and --audit only for errors. *)
DriftExit(report) == IF Count(report, "diverged") > 0 THEN 1 ELSE 0
AuditExit(progs) == IF Some(progs, LAMBDA g : g.errors) THEN 1 ELSE 0

Reported(run) == IF run.mode = "audit" THEN <<>> ELSE TotalDrift(run.progs, run.scans)
SurveyExit(run, report) ==
    CASE run.mode = "lint"  -> LintExit(run.progs, report)
      [] run.mode = "audit" -> AuditExit(run.progs)
      [] OTHER              -> DriftExit(report)

Report(p) ==
    /\ At(p, "report")
    /\ LET report == Reported(runs[p]) IN
       Set(p, Finished([runs[p] EXCEPT !.report = report], SurveyExit(runs[p], report)))
    /\ UNCHANGED <<world, dir, outputs, sole, history, baseline, runsLeft, editsLeft, measured, cutOff>>

-----------------------------------------------------------------------------
(* The end of convergence_scan_dir                                          *)

DirUngoverned(progs) == Sum([i \in DOMAIN progs |-> Ungoverned(progs[i].decls)])
DirTotal(progs) == Sum([i \in DOMAIN progs |-> TotalSpaces(progs[i].decls)])

Judged(run) ==
    Finished([run EXCEPT !.verdict =
                 Verdict(run.has, run.prev, DirUngoverned(run.progs), DirTotal(run.progs))], 0)

(* save_baseline: the old baseline is gone before the new one is written. *)
OpenBaseline(p) ==
    /\ At(p, "baseline")
    /\ baseline' = Empty
    /\ Set(p, [runs[p] EXCEPT !.pc = "saving"])
    /\ UNCHANGED <<world, dir, outputs, sole, history, runsLeft, editsLeft, measured, cutOff>>

BaselineDenied(p) ==
    /\ At(p, "baseline") /\ "denied" \in Faults
    /\ Set(p, Judged(runs[p]))
    /\ UNCHANGED <<world, dir, outputs, sole, history, baseline, runsLeft, editsLeft, measured, cutOff>>

WriteBaselineTotal(p) ==   \* the wrong number is kept
    /\ At(p, "saving")
    /\ baseline' = DirTotal(runs[p].progs)
    /\ measured' = DirUngoverned(runs[p].progs) /\ cutOff' = FALSE
    /\ Set(p, Judged(runs[p]))
    /\ UNCHANGED <<world, dir, outputs, sole, history, runsLeft, editsLeft>>

WriteBaseline(p) ==
    /\ At(p, "saving")
    /\ baseline' = DirUngoverned(runs[p].progs)
    /\ measured' = DirUngoverned(runs[p].progs) /\ cutOff' = FALSE
    /\ Set(p, Judged(runs[p]))
    /\ UNCHANGED <<world, dir, outputs, sole, history, runsLeft, editsLeft>>

(* The baseline is smaller than a block: there is room for all of it or none. *)
BaselineCutOff(p) ==
    /\ At(p, "saving") /\ "full" \in Faults
    /\ cutOff' = TRUE
    /\ Set(p, Judged(runs[p]))
    /\ UNCHANGED <<world, dir, outputs, sole, history, baseline, runsLeft, editsLeft, measured>>

-----------------------------------------------------------------------------
(* What was not yet written is lost; what was truncated stays so. *)
Kill(p) ==
    /\ "killed" \in Faults /\ ~Resting(p)
    /\ Set(p, [runs[p] EXCEPT !.pc = "killed"])
    /\ cutOff' = (cutOff \/ At(p, "saving"))
    /\ UNCHANGED <<world, dir, outputs, sole, history, baseline, runsLeft, editsLeft, measured>>

Step(p) ==
    \/ \E f \in Files, out \in Outputs \cup {None} : Compile(p, f, out)
    \/ OpenOutput(p) \/ OutputDenied(p) \/ Emit(p) \/ EmitCutOff(p)
    \/ LoadTrend(p) \/ AppendHistory(p) \/ HistoryDenied(p)
    \/ \E mode \in modes : Survey(p, mode)
    \/ \E f \in Files, c \in CodeFiles : Diff(p, f, c)
    \/ LoadBaseline(p)
    \/ \E f \in Files : ReadSource(p, f)
    \/ EndSources(p)
    \/ \E c \in CodeFiles : ReadCode(p, c)
    \/ EndCode(p) \/ Report(p)
    \/ OpenBaseline(p) \/ BaselineDenied(p) \/ WriteBaseline(p) \/ BaselineCutOff(p)
    \/ Kill(p)

Next == (\E p \in Procs : Step(p)) \/ (\E f \in Files, prog \in drafts : Edit(f, prog))

Spec == Init /\ [][Next]_vars
-----------------------------------------------------------------------------
(* The status a build exits with tells its caller what it did to the output.
   After 0 that is the whole translation of the source that was read, unless
   another build had it open too or opened it since, or the disk was full:
   whatever else was built, edited, refused or killed, from the same source too.
   After any other status the build has not opened it (main, single file). *)
ExitTellsTheOutput ==
    [][\A p \in Procs :
         LET run == runs'[p] IN
         run # runs[p] /\ run.pc = "done" /\ run.mode = "compile" /\ run.out # None =>
            IF run.exit = 0
            THEN run.opened /\ (sole'[run.out] = p => outputs'[run.out] = Whole(run.prog))
            ELSE ~run.opened]_vars

(* Without the exceptions that is not true of the code, which has no lock and
   checks no write. *)
StatusZeroMeansWhole ==
    [][\A p \in Procs :
         LET run == runs'[p] IN
         run # runs[p] /\ run.pc = "done" /\ run.mode = "compile" /\ run.out # None /\ run.exit = 0 =>
            outputs'[run.out] = Whole(run.prog)]_vars

(* Four decimals are enough for the trend of programs with up to 141 casts: two
   ratios that differ, of n casts and of m with n m < 20000, have a trend that
   says which way, whichever runs wrote to the history meanwhile.  A ratio that
   did not change may be called either (convergence_save_history,
   convergence_load_prev_ratio). *)
TrendTellsDirection ==
    \A p \in Procs :
        LET run == runs[p]
            now == Analyze(run.prog.decls).ratio
        IN  run.past # None /\ now.den * run.past.exact.den < 2 * Digits =>
               /\ Less(now, run.past.exact) => run.trend = "improving"
               /\ Less(run.past.exact, now) => run.trend = "worsening"

(* A measurement is compared with the one before it: if that was saved whole
   and found something ungoverned, then the verdict tells whether there is more
   of it now, whatever runs measured and whichever were killed in between
   (load_baseline, save_baseline). *)
GrowthIsSeen ==
    \A p \in Procs :
        LET run == runs[p]
            now == DirUngoverned(run.progs)
        IN
        run.pc = "done" /\ run.mode = "convergence" /\ run.known \notin {None, 0} =>
            run.verdict = IF now > run.known THEN "DIVERGING"
                              ELSE IF now = run.known THEN "stable" ELSE "converging"

Fold(s) == {Lower[n] : n \in ToSet(s)}
OneSpelling(s) == \A i, j \in DOMAIN s : i # j => Lower[s[i]] # Lower[s[j]]

(* What it means for the target to hold a declaration of the ordbok. *)
Holds(d, scan) ==
    CASE d.type = "xi" -> \E c \in ToSet(scan.consts) :
            Called(d, c.name) /\ (None \in {c.value, d.value} \/ c.value = d.value)
      [] d.type = "zeta" -> \E f \in ToSet(scan.functions) : MatchesTarget(d, f.name)
      [] d.type = "projection" -> \E w \in ToSet(scan.switches) :
            Fold(w.branches) \ {Wild} = Fold(Cases(d)) \ {Wild}
      [] d.type = "dimension" -> \E w \in ToSet(scan.switches) :
            /\ Fold(w.branches) \subseteq Fold(d.members)
            /\ OneSpelling(w.branches) => Fold(w.branches) = Fold(d.members)
      [] d.type = "meihua" -> \E f \in ToSet(scan.functions) :
            Called(d, f.name) /\ f.params = d.params
      [] d.type = "traversal" -> \E f \in ToSet(scan.functions) : MatchesTarget(d, f.name)

(* When --lint exits with 0, every program it read was checked without errors,
   warnings and ungoverned casts, and the target holds every declaration that
   can be compared: the same value, the same cases, the same members, the same
   number of parameters (main, --lint; drift.c).  Left out: blocks that spell a
   member in two ways, which compare_dimension counts twice. *)
CleanMeansAgreement ==
    \A p \in Procs :
        LET run == runs[p] IN
        run.mode = "lint" /\ run.pc = "done" /\ run.exit = 0 =>
            \A i \in DOMAIN run.progs :
                LET g == run.progs[i] IN
                /\ ~g.errors /\ ~g.warnings
                /\ GovernedCasts(g.decls) = Casts(g.decls)
                /\ \A j \in DOMAIN g.decls : g.decls[j].type \in Compared =>
                      \E k \in DOMAIN run.scans : Holds(g.decls[j], run.scans[k])

(* Merging the scans invents nothing: what --lint or --map says of a declaration
   is what --diff says of it and one of the scanned files, and it is missing
   from the merged scan only if it is missing from all (main, --lint, --map). *)
LintIsWitnessed ==
    \A p \in Procs :
        LET run == runs[p]
            decls == FlattenSeq([i \in DOMAIN run.progs |-> Comparable(run.progs[i].decls)])
        IN  run.mode \in {"lint", "map"} /\ run.pc = "done" =>
               /\ Len(run.report) = Len(decls)
               /\ \A j \in DOMAIN decls :
                     LET said == {Compare(decls[j], run.scans[k]) : k \in DOMAIN run.scans} IN
                     /\ said # {} => run.report[j] \in said
                     /\ run.report[j].status = "ordbok_only" <=>
                           \A e \in said : e.status = "ordbok_only"
=============================================================================
