---------------------------- MODULE DriverProofs ----------------------------
(****************************************************************************)
(* What users may conclude from what suhc tells them, for any number of     *)
(* files, programs and runs at once, whatever is edited, refused, killed or *)
(* cut off by a full disk.                                                  *)
(*                                                                          *)
(* The exit status of a build (ExitTellsTheOutput): what a build has done   *)
(* to its output is known at every step (OutputOfBuild); the output that is *)
(* its own is left alone by the others, since nobody has it open who is not *)
(* its sole writer (WritersKnown).                                          *)
(*                                                                          *)
(* The verdict of a measurement (GrowthIsSeen): unless a run is saving, or  *)
(* was cut off while saving, .convergence.json is what was measured last    *)
(* (BaselineIsMeasured), and a run keeps what it read there (RunMeasures).  *)
(*                                                                          *)
(* The trend (TrendTellsDirection): every line of the history is a ratio,   *)
(* rounded (HistoryKept), and how far rounding moves it is arithmetic.      *)
(*                                                                          *)
(* The report and status of --lint (LintIsWitnessed, CleanMeansAgreement):  *)
(* a finished run has the report and status of what it read (RunsSurvey);   *)
(* the rest is about the comparisons.  What is said of merged scans is said *)
(* of one of them (CompareWitnessed), since the first of its kind in what   *)
(* was put one after the other is the first of its kind in one of the parts *)
(* (FlattenFirst); what is called matched, the scan holds (MatchedHolds).   *)
(****************************************************************************)
EXTENDS Driver, FiniteSetTheorems, TLAPS

RunFields == {"pc", "mode", "exit", "file", "prog", "out", "opened", "past", "trend",
              "todo", "codeTodo", "progs", "scans", "report", "has", "prev", "verdict", "known"}

BuildSteps == {"open", "emit", "trend", "append"}
SurveySteps == {"sources", "code", "report", "baseline", "saving"}

\* Runs are records, and every generated file has its contents and its writer.
Shapes ==
  /\ DOMAIN runs = Procs
  /\ DOMAIN outputs = Outputs /\ DOMAIN sole = Outputs
  /\ \A p \in Procs : DOMAIN runs[p] = RunFields

\* The steps of a build are taken by builds, the others by surveys.
ModesOfSteps ==
  \A p \in Procs :
     /\ runs[p].pc \in {"idle", "done", "killed"} \cup BuildSteps \cup SurveySteps
     /\ runs[p].pc \in BuildSteps =>
           runs[p].mode = "compile" /\ runs[p].file \in Files /\ runs[p].out \in Outputs \cup {None}
     /\ runs[p].pc \in SurveySteps => runs[p].mode # "compile"

WritersKnown ==
  \A p \in Procs : runs[p].pc = "emit" => sole[runs[p].out] \in {p, None}

OutputOfBuild ==
  \A p \in Procs :
     LET run == runs[p] IN
     /\ run.pc \in {"open", "emit"} => run.out # None
     /\ run.pc \in BuildSteps /\ run.out # None => ~BuildErrors(run.prog)
     /\ run.pc = "open" => ~run.opened
     /\ run.pc \in {"emit", "trend", "append"} /\ run.out # None => run.opened
     /\ run.pc \in {"trend", "append"} /\ run.out # None /\ sole[run.out] = p =>
           outputs[run.out] = Whole(run.prog)

BuildInv == Shapes /\ ModesOfSteps /\ WritersKnown /\ OutputOfBuild

\* What a build that is done must have done to its output.
Told(p, run) ==
  run.pc = "done" /\ run.mode = "compile" /\ run.out # None =>
     IF run.exit = 0
     THEN run.opened /\ (sole[run.out] = p => outputs[run.out] = Whole(run.prog))
     ELSE ~run.opened

\* The step of ExitTellsTheOutput.
TellsTheOutput ==
  \A p \in Procs :
     LET run == runs'[p] IN
     run # runs[p] /\ run.pc = "done" /\ run.mode = "compile" /\ run.out # None =>
        IF run.exit = 0
        THEN run.opened /\ (sole'[run.out] = p => outputs'[run.out] = Whole(run.prog))
        ELSE ~run.opened

------------------------------------------------------------------------------
LEMMA BuildInit == Init => BuildInv
BY DEF Init, BuildInv, Shapes, ModesOfSteps, WritersKnown, OutputOfBuild, NewRun, RunFields,
       BuildSteps, SurveySteps

\* A step of p that leaves the outputs alone and takes p out of the builds, or
\* keeps it out of them.
LEMMA LeavesOutputs ==
  ASSUME BuildInv, NEW p \in Procs, NEW run, DOMAIN run = RunFields,
         runs' = [runs EXCEPT ![p] = run], UNCHANGED <<outputs, sole>>,
         run.pc \in {"idle", "done", "killed"} \cup SurveySteps,
         run.pc \in SurveySteps => run.mode # "compile",
         Told(p, run)
  PROVE  BuildInv' /\ TellsTheOutput
<1>1. runs'[p] = run /\ \A q \in Procs : q # p => runs'[q] = runs[q]
  BY DEF BuildInv, Shapes
<1>2. run.pc \notin BuildSteps
  BY DEF BuildSteps, SurveySteps
<1>3. Shapes'
  BY <1>1 DEF BuildInv, Shapes
<1>4. ModesOfSteps'
  BY <1>1, <1>2 DEF BuildInv, ModesOfSteps
<1>5. WritersKnown'
  BY <1>1, <1>2 DEF BuildInv, WritersKnown, BuildSteps
<1>6. OutputOfBuild'
  BY <1>1, <1>2 DEF BuildInv, OutputOfBuild, BuildSteps
<1>7. TellsTheOutput
  BY <1>1 DEF TellsTheOutput, Told, BuildInv, Shapes
<1> QED BY <1>3, <1>4, <1>5, <1>6, <1>7 DEF BuildInv

\* A step of p to or within a build may write the output of p only, and takes it from
\* everybody else when it opens it (OpenOutput).
LEMMA StaysInBuild ==
  ASSUME BuildInv, NEW p \in Procs, NEW run, DOMAIN run = RunFields,
         runs' = [runs EXCEPT ![p] = run], run.pc \in BuildSteps,
         run.mode = "compile", run.file \in Files, run.out \in Outputs \cup {None},
         DOMAIN outputs' = Outputs, DOMAIN sole' = Outputs,
         \A o \in Outputs : o # run.out => outputs'[o] = outputs[o] /\ sole'[o] = sole[o],
         \A q \in Procs \ {p} : /\ sole'[run.out] = q => sole[run.out] = q /\ outputs'[run.out] = outputs[run.out]
                                /\ q \in Writing(p, run.out) => sole'[run.out] \in {q, None},
         run.pc \in {"open", "emit"} => run.out # None,
         run.pc = "emit" => sole'[run.out] \in {p, None},
         run.out # None => ~BuildErrors(run.prog),
         run.pc = "open" => ~run.opened,
         run.pc \in {"emit", "trend", "append"} /\ run.out # None => run.opened,
         run.pc \in {"trend", "append"} /\ run.out # None /\ sole'[run.out] = p =>
            outputs'[run.out] = Whole(run.prog)
  PROVE  BuildInv' /\ TellsTheOutput
<1>1. runs'[p] = run /\ \A q \in Procs : q # p => runs'[q] = runs[q]
  BY DEF BuildInv, Shapes
<1>2. Shapes'
  BY <1>1 DEF BuildInv, Shapes
<1>3. ModesOfSteps'
  BY <1>1 DEF BuildInv, ModesOfSteps, BuildSteps, SurveySteps
<1>4. WritersKnown'
  <2> SUFFICES ASSUME NEW q \in Procs, runs'[q].pc = "emit"
               PROVE  sole'[runs'[q].out] \in {q, None}
    BY DEF WritersKnown
  <2>1. CASE q = p
    BY <2>1, <1>1
  <2>2. CASE q # p
    <3>1. runs'[q] = runs[q] /\ runs[q].pc = "emit" /\ runs[q].out \in Outputs
      BY <2>2, <1>1 DEF BuildInv, ModesOfSteps, OutputOfBuild, BuildSteps
    <3>2. sole[runs[q].out] \in {q, None}
      BY <3>1 DEF BuildInv, WritersKnown
    <3>3. CASE runs[q].out = run.out
      BY <2>2, <3>1, <3>3 DEF Writing, At
    <3>4. CASE runs[q].out # run.out
      BY <3>1, <3>2, <3>4
    <3> QED BY <3>3, <3>4
  <2> QED BY <2>1, <2>2
<1>5. OutputOfBuild'
  <2> SUFFICES ASSUME NEW q \in Procs
               PROVE  LET r == runs'[q] IN
                      /\ r.pc \in {"open", "emit"} => r.out # None
                      /\ r.pc \in BuildSteps /\ r.out # None => ~BuildErrors(r.prog)
                      /\ r.pc = "open" => ~r.opened
                      /\ r.pc \in {"emit", "trend", "append"} /\ r.out # None => r.opened
                      /\ r.pc \in {"trend", "append"} /\ r.out # None /\ sole'[r.out] = q =>
                            outputs'[r.out] = Whole(r.prog)
    BY DEF OutputOfBuild, BuildErrors, Whole
  <2>1. CASE q = p
    BY <2>1, <1>1
  <2>2. CASE q # p
    <3>1. runs'[q] = runs[q]
      BY <2>2, <1>1
    <3>2. ASSUME runs[q].pc \in {"trend", "append"}, runs[q].out # None, sole'[runs[q].out] = q
          PROVE  outputs'[runs[q].out] = Whole(runs[q].prog)
      <4>1. runs[q].out \in Outputs
        BY <3>2 DEF BuildInv, ModesOfSteps, BuildSteps
      <4>2. sole[runs[q].out] = q /\ outputs'[runs[q].out] = outputs[runs[q].out]
        BY <2>2, <3>2, <4>1
      <4> QED BY <3>2, <4>2 DEF BuildInv, OutputOfBuild
    <3> QED BY <3>1, <3>2 DEF BuildInv, OutputOfBuild
  <2> QED BY <2>1, <2>2
<1>6. TellsTheOutput
  BY <1>1 DEF TellsTheOutput, BuildInv, Shapes, BuildSteps
<1> QED BY <1>2, <1>3, <1>4, <1>5, <1>6 DEF BuildInv

------------------------------------------------------------------------------
(* Builds *)

LEMMA CompileStep ==
  ASSUME BuildInv, NEW p \in Procs, NEW f \in Files, NEW out \in Outputs \cup {None},
         Compile(p, f, out)
  PROVE  BuildInv' /\ TellsTheOutput
<1> DEFINE run == [NewRun EXCEPT !.mode = "compile", !.file = f, !.out = out, !.prog = dir[f]]
           next == IF out # None THEN "open" ELSE "trend"
<1>1. /\ DOMAIN run = RunFields
      /\ run.mode = "compile" /\ run.file = f /\ run.out = out
      /\ run.prog = dir[f] /\ run.opened = FALSE
  BY DEF NewRun, RunFields
<1>2. /\ UNCHANGED <<outputs, sole>>
      /\ Set(p, IF dir[f] = Absent THEN Finished(run, 2)
                ELSE IF out # None /\ BuildErrors(dir[f]) THEN Finished(run, 1)
                ELSE [run EXCEPT !.pc = next])
  BY Zenon DEF Compile
<1> HIDE DEF run
<1>4. ASSUME NEW status, status # 0, Set(p, Finished(run, status))
      PROVE  BuildInv' /\ TellsTheOutput
  <2> DEFINE r == Finished(run, status)
  <2>1. /\ DOMAIN r = RunFields /\ r.pc = "done" /\ r.exit = status
        /\ r.mode = "compile" /\ r.out = out /\ r.opened = FALSE
    BY <1>1 DEF Finished, RunFields
  <2>2. runs' = [runs EXCEPT ![p] = r]
    BY <1>4 DEF Set
  <2> HIDE DEF r
  <2>3. Told(p, r)
    BY <1>4, <2>1 DEF Told
  <2> QED BY <1>2, <2>1, <2>2, <2>3, LeavesOutputs DEF SurveySteps
<1>5. ASSUME ~(out # None /\ BuildErrors(dir[f])), Set(p, [run EXCEPT !.pc = next])
      PROVE  BuildInv' /\ TellsTheOutput
  <2> DEFINE r == [run EXCEPT !.pc = next]
  <2>1. /\ DOMAIN r = RunFields /\ r.pc = next /\ r.mode = "compile" /\ r.file = f
        /\ r.out = out /\ r.prog = dir[f] /\ r.opened = FALSE
    BY <1>1 DEF RunFields
  <2>2. runs' = [runs EXCEPT ![p] = r]
    BY <1>5 DEF Set
  <2>3. /\ next \in BuildSteps /\ (next = "open" <=> out # None)
        /\ next # "emit" /\ next # "append" /\ (next = "trend" => out = None)
    BY DEF BuildSteps
  <2>4. DOMAIN outputs' = Outputs /\ DOMAIN sole' = Outputs
    BY <1>2 DEF BuildInv, Shapes
  <2>5. \A q \in Procs : q \in Writing(p, out) => sole[out] \in {q, None}
    BY DEF BuildInv, WritersKnown, Writing, At
  <2> HIDE DEF r, next
  <2> QED BY <1>2, <1>5, <2>1, <2>2, <2>3, <2>4, <2>5, StaysInBuild
<1> QED BY <1>2, <1>4, <1>5

\* What is known of a build that goes on.
LEMMA BuildFacts ==
  ASSUME BuildInv, NEW p \in Procs, runs[p].pc \in BuildSteps
  PROVE  /\ runs[p].mode = "compile" /\ runs[p].file \in Files
         /\ runs[p].out \in Outputs \cup {None}
         /\ runs[p].out # None => ~BuildErrors(runs[p].prog)
         /\ DOMAIN runs = Procs /\ DOMAIN runs[p] = RunFields
         /\ DOMAIN outputs = Outputs /\ DOMAIN sole = Outputs
         /\ \A q \in Writing(p, runs[p].out) : sole[runs[p].out] \in {q, None}
BY DEF BuildInv, Shapes, ModesOfSteps, OutputOfBuild, WritersKnown, Writing, At

LEMMA OpenOutputStep ==
  ASSUME BuildInv, NEW p \in Procs, OpenOutput(p)
  PROVE  BuildInv' /\ TellsTheOutput
<1> DEFINE run == [runs[p] EXCEPT !.pc = "emit", !.opened = TRUE]
           writer == IF Writing(p, runs[p].out) = {} THEN p ELSE None
<1>1. /\ runs[p].pc = "open" /\ runs' = [runs EXCEPT ![p] = run]
      /\ outputs' = [outputs EXCEPT ![runs[p].out] = Truncated]
      /\ sole' = [sole EXCEPT ![runs[p].out] = writer]
  BY DEF OpenOutput, At, Set
<1>2. runs[p].pc \in BuildSteps
  BY <1>1 DEF BuildSteps
<1>3. /\ DOMAIN run = RunFields /\ run.pc = "emit" /\ run.mode = "compile" /\ run.opened
      /\ run.file = runs[p].file /\ run.out = runs[p].out /\ run.prog = runs[p].prog
  BY <1>2, BuildFacts DEF RunFields
<1>4. runs[p].out \in Outputs /\ runs[p].out # None
  BY <1>1, <1>2, BuildFacts DEF BuildInv, OutputOfBuild
<1>5. /\ DOMAIN outputs' = Outputs /\ DOMAIN sole' = Outputs /\ sole'[run.out] = writer
      /\ \A o \in Outputs : o # run.out => outputs'[o] = outputs[o] /\ sole'[o] = sole[o]
  BY <1>1, <1>2, <1>3, <1>4, BuildFacts
<1>6. /\ writer \in {p, None}
      /\ \A q \in Procs \ {p} : writer # q /\ (q \in Writing(p, runs[p].out) => writer = None)
  BY DriverAssumption
<1>7. run.pc \in BuildSteps /\ ~BuildErrors(run.prog)
  BY <1>2, <1>3, <1>4, BuildFacts DEF BuildSteps
<1> HIDE DEF run, writer
<1>8. run.file \in Files /\ run.out \in Outputs /\ run.out # None
  BY <1>2, <1>3, <1>4, BuildFacts
<1>9. \A q \in Procs \ {p} :
         /\ sole'[run.out] = q => sole[run.out] = q /\ outputs'[run.out] = outputs[run.out]
         /\ q \in Writing(p, run.out) => sole'[run.out] \in {q, None}
  BY <1>3, <1>5, <1>6
<1>10. sole'[run.out] \in {p, None} /\ runs' = [runs EXCEPT ![p] = run]
  BY <1>1, <1>5, <1>6
<1>11. run.out \in Outputs \cup {None} /\ (run.out # None => ~BuildErrors(run.prog))
  BY <1>7, <1>8
<1>12. /\ run.pc \in {"open", "emit"} => run.out # None
       /\ run.pc = "emit" => sole'[run.out] \in {p, None}
       /\ run.pc = "open" => ~run.opened
       /\ run.pc \in {"emit", "trend", "append"} /\ run.out # None => run.opened
       /\ run.pc \in {"trend", "append"} /\ run.out # None /\ sole'[run.out] = p =>
             outputs'[run.out] = Whole(run.prog)
  BY <1>3, <1>8, <1>10
<1>13. DOMAIN run = RunFields /\ run.mode = "compile"
  BY <1>3
<1> QED BY <1>5, <1>7, <1>8, <1>9, <1>10, <1>11, <1>12, <1>13, StaysInBuild, ZenonT(30)

\* After the writing of its output a build that is its sole writer has left it whole.
LEMMA EmitStep ==
  ASSUME BuildInv, NEW p \in Procs, Emit(p) \/ EmitCutOff(p)
  PROVE  BuildInv' /\ TellsTheOutput
<1> DEFINE run == [runs[p] EXCEPT !.pc = "trend"]
<1>1. PICK text, writer :
         /\ runs[p].pc = "emit" /\ runs' = [runs EXCEPT ![p] = run]
         /\ outputs' = [outputs EXCEPT ![runs[p].out] = text]
         /\ \/ UNCHANGED sole /\ writer = sole[runs[p].out]
            \/ sole' = [sole EXCEPT ![runs[p].out] = writer] /\ writer = None
         /\ writer = p => text = Whole(runs[p].prog)
  <2>1. CASE Emit(p)
    <3>1. PICK text \in {Whole(runs[p].prog), Truncated} :
             /\ sole[runs[p].out] = p => text # Truncated
             /\ outputs' = [outputs EXCEPT ![runs[p].out] = text]
      BY <2>1 DEF Emit
    <3> QED BY <2>1, <3>1 DEF Emit, At, Set
  <2>2. CASE EmitCutOff(p)
    <3>1. None # p
      BY DriverAssumption
    <3>2. /\ runs[p].pc = "emit" /\ runs' = [runs EXCEPT ![p] = run]
          /\ outputs' = [outputs EXCEPT ![runs[p].out] = Truncated]
          /\ sole' = [sole EXCEPT ![runs[p].out] = None]
      BY <2>2 DEF EmitCutOff, At, Set
    <3> HIDE DEF run
    <3> WITNESS Truncated, None
    <3> QED BY <3>1, <3>2
  <2> QED BY <2>1, <2>2
<1>2. runs[p].pc \in BuildSteps
  BY <1>1 DEF BuildSteps
<1>3. /\ DOMAIN run = RunFields /\ run.pc = "trend" /\ run.mode = "compile"
      /\ run.file = runs[p].file /\ run.out = runs[p].out /\ run.prog = runs[p].prog
      /\ run.opened = runs[p].opened
  BY <1>2, BuildFacts DEF RunFields
<1>4. runs[p].out \in Outputs /\ runs[p].out # None /\ runs[p].opened
  BY <1>1, <1>2, BuildFacts DEF BuildInv, OutputOfBuild
<1>5. /\ DOMAIN outputs' = Outputs /\ DOMAIN sole' = Outputs /\ sole'[run.out] = writer
      /\ outputs'[run.out] = text
      /\ \A o \in Outputs : o # run.out => outputs'[o] = outputs[o] /\ sole'[o] = sole[o]
  BY <1>1, <1>2, <1>3, <1>4, BuildFacts
<1>6. sole[run.out] \in {p, None}
  BY <1>1, <1>3 DEF BuildInv, WritersKnown
<1>7. \A q \in Procs \ {p} : writer # q
  BY <1>1, <1>3, <1>6, DriverAssumption
<1>8. \A q \in Writing(p, run.out) : writer \in {q, None}
  BY <1>1, <1>2, <1>3, BuildFacts
<1>9. run.pc \in BuildSteps /\ ~BuildErrors(run.prog)
  BY <1>2, <1>3, <1>4, BuildFacts DEF BuildSteps
<1> HIDE DEF run
<1>10. run.file \in Files /\ run.out \in Outputs /\ run.out # None /\ run.opened
  BY <1>2, <1>3, <1>4, BuildFacts
<1>11. \A q \in Procs \ {p} :
         /\ sole'[run.out] = q => sole[run.out] = q /\ outputs'[run.out] = outputs[run.out]
         /\ q \in Writing(p, run.out) => sole'[run.out] \in {q, None}
  BY <1>5, <1>7, <1>8
<1>12. sole'[run.out] = p => outputs'[run.out] = Whole(run.prog)
  BY <1>1, <1>3, <1>5
<1>13. runs' = [runs EXCEPT ![p] = run]
  BY <1>1
<1> QED BY <1>3, <1>5, <1>9, <1>10, <1>11, <1>12, <1>13, StaysInBuild

LEMMA LoadTrendStep ==
  ASSUME BuildInv, NEW p \in Procs, LoadTrend(p)
  PROVE  BuildInv' /\ TellsTheOutput
<1>1. PICK run : /\ runs[p].pc = "trend" /\ UNCHANGED <<outputs, sole>>
                 /\ runs' = [runs EXCEPT ![p] = run]
                 /\ \/ run = [runs[p] EXCEPT !.pc = "append"]
                    \/ \E past, trend : run = [runs[p] EXCEPT !.pc = "append", !.past = past, !.trend = trend]
  BY Zenon DEF LoadTrend, At, Set
<1>2. runs[p].pc \in BuildSteps
  BY <1>1 DEF BuildSteps
<1>3. /\ DOMAIN run = RunFields /\ run.pc = "append" /\ run.mode = "compile"
      /\ run.file = runs[p].file /\ run.out = runs[p].out /\ run.prog = runs[p].prog
      /\ run.opened = runs[p].opened
  BY <1>1, <1>2, BuildFacts DEF RunFields
<1>4. /\ runs[p].out # None => runs[p].opened
      /\ runs[p].out # None /\ sole[runs[p].out] = p => outputs[runs[p].out] = Whole(runs[p].prog)
  BY <1>1 DEF BuildInv, OutputOfBuild
<1>5. DOMAIN outputs' = Outputs /\ DOMAIN sole' = Outputs
  BY <1>1, <1>2, BuildFacts
<1>6. run.pc \in BuildSteps /\ (run.out # None => ~BuildErrors(run.prog))
  BY <1>2, <1>3, BuildFacts DEF BuildSteps
<1>7. \A q \in Writing(p, run.out) : sole[run.out] \in {q, None}
  BY <1>2, <1>3, BuildFacts
<1>8. run.file \in Files /\ run.out \in Outputs \cup {None}
  BY <1>2, <1>3, BuildFacts
<1> QED BY <1>1, <1>3, <1>4, <1>5, <1>6, <1>7, <1>8, StaysInBuild

\* The three ways a build ends after its start.
LEMMA BuildEnds ==
  ASSUME BuildInv, NEW p \in Procs, OutputDenied(p) \/ AppendHistory(p) \/ HistoryDenied(p)
  PROVE  BuildInv' /\ TellsTheOutput
<1>1. PICK status : /\ UNCHANGED <<outputs, sole>> /\ Set(p, Finished(runs[p], status))
                    /\ \/ runs[p].pc = "open" /\ status = 2
                       \/ runs[p].pc = "append" /\ status = BuildExit(p)
  BY Zenon DEF OutputDenied, AppendHistory, HistoryDenied, At
<1> DEFINE run == Finished(runs[p], status)
<1>2. /\ DOMAIN run = RunFields /\ run.pc = "done" /\ run.exit = status
      /\ run.mode = runs[p].mode /\ run.opened = runs[p].opened
      /\ run.out = runs[p].out /\ run.prog = runs[p].prog
  BY DEF BuildInv, Shapes, RunFields, Finished
<1>3. runs' = [runs EXCEPT ![p] = run]
  BY <1>1 DEF Set
<1>4. Told(p, run)
  <2>1. CASE runs[p].pc = "open" /\ status = 2
    <3>1. ~runs[p].opened
      BY <2>1 DEF BuildInv, OutputOfBuild
    <3> QED BY <1>2, <2>1, <3>1 DEF Told
  <2>2. CASE runs[p].pc = "append" /\ status = BuildExit(p)
    <3>1. runs[p].out # None =>
             /\ ~BuildErrors(runs[p].prog) /\ runs[p].opened
             /\ sole[runs[p].out] = p => outputs[runs[p].out] = Whole(runs[p].prog)
      BY <2>2 DEF BuildInv, OutputOfBuild, BuildSteps
    <3>2. runs[p].out # None => status = 0
      BY <2>2, <3>1 DEF BuildExit
    <3> HIDE DEF run
    <3> QED BY <1>2, <3>1, <3>2 DEF Told
  <2> QED BY <1>1, <2>1, <2>2
<1> HIDE DEF run
<1> QED BY <1>1, <1>2, <1>3, <1>4, LeavesOutputs DEF SurveySteps

------------------------------------------------------------------------------
(* Everything else *)

\* A step of a survey leaves the outputs alone and starts no build.
LEMMA SurveyStep ==
  ASSUME BuildInv, NEW p \in Procs, NEW run, DOMAIN run = RunFields, Set(p, run),
         UNCHANGED <<outputs, sole>>, run.pc \in {"done", "killed"} \cup SurveySteps, run.mode # "compile"
  PROVE  BuildInv' /\ TellsTheOutput
<1>1. runs' = [runs EXCEPT ![p] = run]
  BY DEF Set
<1>2. Told(p, run)
  BY DEF Told
<1> QED BY <1>1, <1>2, LeavesOutputs

LEMMA SurveyStarts ==
  ASSUME BuildInv, NEW p \in Procs,
         \/ \E mode \in modes : Survey(p, mode)
         \/ \E f \in Files, c \in CodeFiles : Diff(p, f, c)
         \/ LoadBaseline(p)
  PROVE  BuildInv' /\ TellsTheOutput
<1>1. CASE \E mode \in modes : Survey(p, mode)
  <2>1. PICK mode \in modes : Survey(p, mode)
    BY <1>1
  <2> DEFINE run == [NewRun EXCEPT !.mode = mode, !.pc = FirstPhase(mode), !.todo = Files,
                                   !.codeTodo = Scanned(mode)]
  <2>2. Set(p, run) /\ UNCHANGED <<outputs, sole>> /\ mode \in {"lint", "map", "audit"}
    BY <2>1 DEF Survey
  <2>3. DOMAIN run = RunFields /\ run.mode = mode /\ run.pc \in SurveySteps
    BY DEF NewRun, RunFields, FirstPhase, SurveySteps
  <2> HIDE DEF run
  <2> QED BY <2>2, <2>3, SurveyStep
<1>2. CASE \E f \in Files, c \in CodeFiles : Diff(p, f, c)
  <2>1. PICK f \in Files, c \in CodeFiles : Diff(p, f, c)
    BY <1>2
  <2> DEFINE run == [NewRun EXCEPT !.mode = "diff", !.pc = "sources", !.todo = {f}, !.codeTodo = {c}]
  <2>2. Set(p, run) /\ UNCHANGED <<outputs, sole>>
    BY <2>1 DEF Diff
  <2>3. DOMAIN run = RunFields /\ run.mode = "diff" /\ run.pc \in SurveySteps
    BY DEF NewRun, RunFields, SurveySteps
  <2> HIDE DEF run
  <2> QED BY <2>2, <2>3, SurveyStep
<1>3. CASE LoadBaseline(p)
  <2>1. PICK has, prev, known :
           /\ Set(p, [NewRun EXCEPT !.mode = "convergence", !.pc = "sources", !.todo = Files,
                                    !.has = has, !.prev = prev, !.known = known])
           /\ UNCHANGED <<outputs, sole>>
    BY <1>3, Zenon DEF LoadBaseline
  <2> DEFINE run == [NewRun EXCEPT !.mode = "convergence", !.pc = "sources", !.todo = Files,
                                   !.has = has, !.prev = prev, !.known = known]
  <2>2. DOMAIN run = RunFields /\ run.mode = "convergence" /\ run.pc \in SurveySteps
    BY DEF NewRun, RunFields, SurveySteps
  <2>3. Set(p, run) /\ UNCHANGED <<outputs, sole>>
    BY <2>1
  <2> HIDE DEF run
  <2> QED BY <2>2, <2>3, SurveyStep
<1> QED BY <1>1, <1>2, <1>3

LEMMA SurveyGoesOn ==
  ASSUME BuildInv, NEW p \in Procs,
         \/ \E f \in Files : ReadSource(p, f)
         \/ \E c \in CodeFiles : ReadCode(p, c)
         \/ EndSources(p) \/ EndCode(p) \/ Report(p)
         \/ OpenBaseline(p) \/ BaselineDenied(p) \/ WriteBaseline(p) \/ BaselineCutOff(p)
  PROVE  BuildInv' /\ TellsTheOutput
<1>1. runs[p].pc \in SurveySteps /\ UNCHANGED <<outputs, sole>>
  BY Zenon DEF ReadSource, ReadCode, EndSources, EndCode, Report, OpenBaseline, BaselineDenied,
               WriteBaseline, BaselineCutOff, At, SurveySteps
<1>2. DOMAIN runs[p] = RunFields /\ runs[p].mode # "compile"
  BY <1>1 DEF BuildInv, Shapes, ModesOfSteps
<1>3. ASSUME NEW rest, DOMAIN rest = RunFields, rest.mode # "compile", NEW status,
             Set(p, Finished(rest, status))
      PROVE  BuildInv' /\ TellsTheOutput
  <2> DEFINE run == Finished(rest, status)
  <2>1. DOMAIN run = RunFields /\ run.mode # "compile" /\ run.pc = "done"
    BY <1>3 DEF Finished, RunFields
  <2>2. Set(p, run)
    BY <1>3
  <2> HIDE DEF run
  <2> QED BY <1>1, <2>1, <2>2, SurveyStep
<1>4. ASSUME NEW run, DOMAIN run = RunFields, run.mode # "compile", run.pc \in SurveySteps, Set(p, run)
      PROVE  BuildInv' /\ TellsTheOutput
  BY <1>1, <1>4, SurveyStep
<1>5. CASE \E f \in Files : ReadSource(p, f)
  <2>1. PICK f \in Files : ReadSource(p, f)
    BY <1>5
  <2> DEFINE rest == [runs[p] EXCEPT !.todo = @ \ {f}]
  <2>2. DOMAIN rest = RunFields /\ rest.mode = runs[p].mode /\ rest.pc = runs[p].pc
    BY <1>2 DEF RunFields
  <2>3. \/ Set(p, [rest EXCEPT !.progs = Append(@, dir[f])])
        \/ Set(p, Finished(rest, 2)) \/ Set(p, rest)
    BY <2>1, Zenon DEF ReadSource
  <2>4. ASSUME NEW progs, Set(p, [rest EXCEPT !.progs = progs])
        PROVE  BuildInv' /\ TellsTheOutput
    <3> DEFINE run == [rest EXCEPT !.progs = progs]
    <3>1. DOMAIN run = RunFields /\ run.mode = runs[p].mode /\ run.pc = runs[p].pc
      BY <2>2 DEF RunFields
    <3>2. Set(p, run)
      BY <2>4
    <3> HIDE DEF run
    <3> QED BY <1>1, <1>2, <1>4, <3>1, <3>2
  <2> HIDE DEF rest
  <2> QED BY <1>1, <1>2, <1>3, <1>4, <2>2, <2>3, <2>4
<1>6. CASE \E c \in CodeFiles : ReadCode(p, c)
  <2>1. PICK c \in CodeFiles : ReadCode(p, c)
    BY <1>6
  <2> DEFINE rest == [runs[p] EXCEPT !.codeTodo = @ \ {c}]
  <2>2. DOMAIN rest = RunFields /\ rest.mode = runs[p].mode /\ rest.pc = runs[p].pc
    BY <1>2 DEF RunFields
  <2>3. \/ Set(p, [rest EXCEPT !.scans = Append(@, code[c])])
        \/ Set(p, Finished(rest, 2)) \/ Set(p, rest)
    BY <2>1, Zenon DEF ReadCode
  <2>4. ASSUME NEW scans, Set(p, [rest EXCEPT !.scans = scans])
        PROVE  BuildInv' /\ TellsTheOutput
    <3> DEFINE run == [rest EXCEPT !.scans = scans]
    <3>1. DOMAIN run = RunFields /\ run.mode = runs[p].mode /\ run.pc = runs[p].pc
      BY <2>2 DEF RunFields
    <3>2. Set(p, run)
      BY <2>4
    <3> HIDE DEF run
    <3> QED BY <1>1, <1>2, <1>4, <3>1, <3>2
  <2> HIDE DEF rest
  <2> QED BY <1>1, <1>2, <1>3, <1>4, <2>2, <2>3, <2>4
<1>7. CASE EndSources(p) \/ EndCode(p) \/ OpenBaseline(p)
  <2>1. PICK pc \in SurveySteps : Set(p, [runs[p] EXCEPT !.pc = pc])
    BY <1>7 DEF EndSources, EndCode, OpenBaseline, AfterSources, AfterCode, SurveySteps
  <2> DEFINE run == [runs[p] EXCEPT !.pc = pc]
  <2>2. DOMAIN run = RunFields /\ run.mode = runs[p].mode /\ run.pc = pc
    BY <1>2 DEF RunFields
  <2>3. Set(p, run)
    BY <2>1
  <2> HIDE DEF run
  <2> QED BY <1>2, <1>4, <2>1, <2>2, <2>3
<1>8. CASE Report(p) \/ BaselineDenied(p) \/ WriteBaseline(p) \/ BaselineCutOff(p)
  <2>1. \/ \E report, status : Set(p, Finished([runs[p] EXCEPT !.report = report], status))
        \/ \E verdict, status : Set(p, Finished([runs[p] EXCEPT !.verdict = verdict], status))
    BY <1>8, Zenon DEF Report, BaselineDenied, WriteBaseline, BaselineCutOff, Judged
  <2>2. PICK rest, status : /\ Set(p, Finished(rest, status))
                            /\ \/ \E report : rest = [runs[p] EXCEPT !.report = report]
                               \/ \E verdict : rest = [runs[p] EXCEPT !.verdict = verdict]
    BY <2>1, Zenon
  <2>3. DOMAIN rest = RunFields /\ rest.mode = runs[p].mode
    BY <1>2, <2>2 DEF RunFields
  <2> QED BY <1>2, <1>3, <2>2, <2>3
<1> QED BY <1>5, <1>6, <1>7, <1>8

LEMMA KillStep ==
  ASSUME BuildInv, NEW p \in Procs, Kill(p)
  PROVE  BuildInv' /\ TellsTheOutput
<1> DEFINE run == [runs[p] EXCEPT !.pc = "killed"]
<1>1. runs' = [runs EXCEPT ![p] = run] /\ UNCHANGED <<outputs, sole>>
  BY DEF Kill, Set
<1>2. DOMAIN run = RunFields /\ run.pc = "killed"
  BY DEF BuildInv, Shapes, RunFields
<1> HIDE DEF run
<1>3. Told(p, run)
  BY <1>2 DEF Told
<1> QED BY <1>1, <1>2, <1>3, LeavesOutputs DEF SurveySteps

LEMMA Untouched ==
  ASSUME BuildInv, UNCHANGED <<runs, outputs, sole>>
  PROVE  BuildInv' /\ TellsTheOutput
BY DEF BuildInv, Shapes, ModesOfSteps, WritersKnown, OutputOfBuild, TellsTheOutput

LEMMA BuildNext ==
  ASSUME BuildInv, [Next]_vars
  PROVE  BuildInv' /\ TellsTheOutput
<1>1. ASSUME NEW p \in Procs, Step(p)
      PROVE  BuildInv' /\ TellsTheOutput
  <2>1. CASE \E f \in Files, out \in Outputs \cup {None} : Compile(p, f, out)
    BY <2>1, CompileStep
  <2>2. CASE OpenOutput(p) \/ Emit(p) \/ EmitCutOff(p) \/ LoadTrend(p)
    BY <2>2, OpenOutputStep, EmitStep, LoadTrendStep
  <2>3. CASE OutputDenied(p) \/ AppendHistory(p) \/ HistoryDenied(p)
    BY <2>3, BuildEnds
  <2>4. CASE \/ \E mode \in modes : Survey(p, mode)
             \/ \E f \in Files, c \in CodeFiles : Diff(p, f, c)
             \/ LoadBaseline(p)
    BY <2>4, SurveyStarts
  <2>5. CASE \/ \E f \in Files : ReadSource(p, f)
             \/ \E c \in CodeFiles : ReadCode(p, c)
             \/ EndSources(p) \/ EndCode(p) \/ Report(p)
             \/ OpenBaseline(p) \/ BaselineDenied(p) \/ WriteBaseline(p) \/ BaselineCutOff(p)
    BY <2>5, SurveyGoesOn
  <2>6. CASE Kill(p)
    BY <2>6, KillStep
  <2> QED BY <1>1, <2>1, <2>2, <2>3, <2>4, <2>5, <2>6 DEF Step
<1>2. ASSUME NEW f \in Files, NEW prog \in drafts, Edit(f, prog)
      PROVE  BuildInv' /\ TellsTheOutput
  BY <1>2, Untouched DEF Edit
<1>3. ASSUME UNCHANGED vars
      PROVE  BuildInv' /\ TellsTheOutput
  BY <1>3, Untouched DEF vars
<1> QED BY <1>1, <1>2, <1>3 DEF Next

\* The status a build exits with tells what it did to its output: after 0 that is the
\* whole translation of what it read, if no other build wrote it since and the disk had
\* room, and after any other status the build has not touched it (main, single file).
THEOREM ExitTells == Spec => ExitTellsTheOutput
<1>1. BuildInv /\ [Next]_vars => BuildInv'
  BY BuildNext
<1>2. BuildInv /\ [Next]_vars => [TellsTheOutput]_vars
  BY BuildNext
<1>3. Spec => [][TellsTheOutput]_vars
  BY BuildInit, <1>1, <1>2, PTL DEF Spec
<1>4. [][TellsTheOutput]_vars => ExitTellsTheOutput
  BY PTL DEF ExitTellsTheOutput, TellsTheOutput
<1> QED BY <1>3, <1>4

------------------------------------------------------------------------------
(* Numbers and sequences *)

\* Every set of numbers that is not empty has a least element.
LEMMA Least ==
  ASSUME NEW T \in SUBSET Nat, T # {}
  PROVE  \E n \in T : \A m \in T : n <= m
<1> DEFINE R == OpToRel(<, Nat)
<1>1. IsWellFoundedOn(R, Nat)
  BY NatLessThanWellFounded
<1>2. \A x, y \in Nat : <<x, y>> \in R <=> x < y
  BY DEF OpToRel
<1> HIDE DEF R
<1>3. PICK x \in T : \A y \in T : ~(<<y, x>> \in R)
  BY <1>1, WFMin
<1>4. x \in Nat /\ \A y \in T : y \in Nat /\ ~(y < x)
  BY <1>2, <1>3
<1> QED BY <1>4

\* Induction for a set instead of a predicate.
LEMMA SetInduction ==
  ASSUME NEW T, 0 \in T, \A n \in Nat : n \in T => n + 1 \in T
  PROVE  Nat \subseteq T
<1> SUFFICES ASSUME Nat \ T # {}
             PROVE  FALSE
  OBVIOUS
<1>1. PICK n \in Nat \ T : \A m \in Nat \ T : n <= m
  BY Least
<1>2. n \in Nat /\ n # 0
  OBVIOUS
<1>3. n - 1 \in Nat /\ ~(n <= n - 1) /\ (n - 1) + 1 = n
  BY <1>2
<1>4. n - 1 \in T
  BY <1>1, <1>3
<1> QED BY <1>3, <1>4

LEMMA SequenceFacts ==
  ASSUME NEW s, IsSequence(s)
  PROVE  Len(s) \in Nat /\ DOMAIN s = 1 .. Len(s)
BY DEF IsSequence

LEMMA SequenceOf ==
  ASSUME NEW A, NEW s \in Seq(A)
  PROVE  IsSequence(s)
<1>1. Len(s) \in Nat /\ DOMAIN s = 1 .. Len(s)
  OBVIOUS
<1>2. s \in [1 .. Len(s) -> A]
  OBVIOUS
<1>3. s = [i \in 1 .. Len(s) |-> s[i]]
  BY <1>2
<1>4. \A i \in 1 .. Len(s) : s[i] \in Range(s)
  BY <1>1 DEF Range
<1> QED BY <1>1, <1>3, <1>4 DEF IsSequence

LEMMA EmptyIsSequence == IsSequence(<<>>) /\ DOMAIN <<>> = {}
<1>1. <<>> \in Seq({}) /\ Len(<<>>) = 0
  OBVIOUS
<1>2. IsSequence(<<>>)
  BY <1>1, SequenceOf
<1> QED BY <1>1, <1>2, SequenceFacts

LEMMA MapsSequence ==
  ASSUME NEW s, IsSequence(s), NEW f, f = [i \in DOMAIN s |-> f[i]]
  PROVE  IsSequence(f)
<1>1. Len(s) \in Nat /\ f = [i \in 1 .. Len(s) |-> f[i]]
  BY SequenceFacts
<1>2. DOMAIN f = 1 .. Len(s) /\ \A i \in 1 .. Len(s) : f[i] \in Range(f)
  BY <1>1 DEF Range
<1> QED BY <1>1, <1>2 DEF IsSequence

\* A sum of numbers is a number: the recursion of Sum has a solution, and all its
\* values are numbers.
LEMMA SumType ==
  ASSUME NEW s, IsSequence(s), \A i \in DOMAIN s : s[i] \in Nat
  PROVE  Sum(s) \in Nat
<1> DEFINE n == Len(s)
           Sums(f, m) == f = [i \in 0 .. m |-> IF i = 0 THEN 0 ELSE f[i - 1] + s[i]]
<1>1. n \in Nat /\ \A i \in 1 .. n : s[i] \in Nat
  BY SequenceFacts
<1>2. \E f : Sums(f, n)
  <2> DEFINE T == {m \in Nat : \E f : Sums(f, m)}
  <2>1. 0 \in T
    <3> DEFINE g == [i \in 0 .. 0 |-> 0]
    <3>1. g = [i \in 0 .. 0 |-> IF i = 0 THEN 0 ELSE g[i - 1] + s[i]]
      OBVIOUS
    <3> QED BY <3>1
  <2>2. ASSUME NEW m \in Nat, m \in T
        PROVE  m + 1 \in T
    <3>1. PICK f : f = [i \in 0 .. m |-> IF i = 0 THEN 0 ELSE f[i - 1] + s[i]]
      BY <2>2
    <3> DEFINE g == [i \in 0 .. m + 1 |-> IF i = m + 1 THEN f[m] + s[m + 1] ELSE f[i]]
    <3>2. ASSUME NEW i \in 0 .. m + 1
          PROVE  g[i] = IF i = 0 THEN 0 ELSE g[i - 1] + s[i]
      <4>1. CASE i = m + 1
        BY <4>1
      <4>2. CASE i # m + 1
        <5>1. i \in 0 .. m /\ (i # 0 => i - 1 \in 0 .. m /\ i - 1 # m + 1)
          BY <4>2
        <5>2. f[i] = IF i = 0 THEN 0 ELSE f[i - 1] + s[i]
          BY <3>1, <5>1
        <5> QED BY <5>1, <5>2
      <4> QED BY <4>1, <4>2
    <3>3. g = [i \in 0 .. m + 1 |-> IF i = 0 THEN 0 ELSE g[i - 1] + s[i]]
      BY <3>2
    <3> HIDE DEF g
    <3> QED BY <3>3
  <2>3. Nat \subseteq T
    BY <2>1, <2>2, SetInduction
  <2> QED BY <1>1, <2>3
<1> DEFINE upTo == CHOOSE f : Sums(f, n)
<1>3. upTo = [i \in 0 .. n |-> IF i = 0 THEN 0 ELSE upTo[i - 1] + s[i]]
  BY <1>2
<1>4. Sum(s) = upTo[n]
  BY DEF Sum
<1> HIDE DEF upTo
<1> DEFINE T == {m \in Nat : m <= n => upTo[m] \in Nat}
<1>5. 0 \in T
  BY <1>1, <1>3
<1>6. ASSUME NEW m \in Nat, m \in T
      PROVE  m + 1 \in T
  <2> SUFFICES ASSUME m + 1 <= n
               PROVE  upTo[m + 1] \in Nat
    OBVIOUS
  <2>1. m + 1 \in 0 .. n /\ m + 1 # 0 /\ (m + 1) - 1 = m /\ m <= n /\ m + 1 \in 1 .. n
    BY <1>1
  <2>2. upTo[m + 1] = upTo[m] + s[m + 1]
    BY <1>3, <2>1
  <2> QED BY <1>1, <1>6, <2>1, <2>2
<1>7. n \in T
  BY <1>1, <1>5, <1>6, SetInduction
<1> QED BY <1>1, <1>4, <1>7

\* The spaces of a declaration are counted by numbers.
LEMMA SpacesType ==
  ASSUME NEW d, d.params \in Nat, d.fields \in Nat, IsSequence(d.members), IsSequence(d.sections)
  PROVE  Spaces(d) \in Nat /\ GovernedSpaces(d) \in Nat
<1>1. Len(d.members) \in Nat /\ Len(d.sections) \in Nat /\ d.params + 1 \in Nat
  BY SequenceFacts
<1>n. 0 \in Nat /\ 1 \in Nat
  OBVIOUS
<1>2. Spaces(d) \in {0, 1, Len(d.members), d.fields, d.params + 1, Len(d.sections)}
  BY Zenon DEF Spaces
<1>3. GovernedSpaces(d) \in {0, 1, Spaces(d), Len(d.sections)}
  BY Zenon DEF GovernedSpaces
<1> QED BY <1>1, <1>n, <1>2, <1>3

\* So the ungoverned spaces of programs are counted by a number.
LEMMA UngovernedType ==
  ASSUME NEW prog, IsProgram(prog)
  PROVE  Ungoverned(prog.decls) \in Nat
<1> DEFINE decls == prog.decls
           spaces == [i \in DOMAIN decls |-> Spaces(decls[i])]
           governed == [i \in DOMAIN decls |-> GovernedSpaces(decls[i])]
<1>1. IsSequence(decls)
  BY DEF IsProgram
<1>2. \A i \in DOMAIN decls : Spaces(decls[i]) \in Nat /\ GovernedSpaces(decls[i]) \in Nat
  BY SpacesType DEF IsProgram
<1>3. IsSequence(spaces) /\ IsSequence(governed)
  BY <1>1, MapsSequence
<1>4. Sum(spaces) \in Nat /\ Sum(governed) \in Nat
  BY <1>2, <1>3, SumType
<1>5. Ungoverned(decls) = IF Sum(governed) > Sum(spaces) THEN 0 ELSE Sum(spaces) - Sum(governed)
  BY DEF Ungoverned
<1> HIDE DEF spaces, governed
<1> QED BY <1>4, <1>5

ArePrograms(progs) == IsSequence(progs) /\ \A i \in DOMAIN progs : IsProgram(progs[i])

LEMMA DirUngovernedType ==
  ASSUME NEW progs, ArePrograms(progs)
  PROVE  DirUngoverned(progs) \in Nat
<1> DEFINE counts == [i \in DOMAIN progs |-> Ungoverned(progs[i].decls)]
<1>1. \A i \in DOMAIN progs : Ungoverned(progs[i].decls) \in Nat
  BY UngovernedType DEF ArePrograms
<1>2. IsSequence(counts)
  BY MapsSequence DEF ArePrograms
<1>3. Sum(counts) \in Nat
  BY <1>1, <1>2, SumType
<1> QED BY <1>3 DEF DirUngoverned

LEMMA AppendsProgram ==
  ASSUME NEW progs, ArePrograms(progs), NEW prog, IsProgram(prog)
  PROVE  ArePrograms(Append(progs, prog))
<1> DEFINE longer == Append(progs, prog)
<1>1. Len(progs) \in Nat /\ DOMAIN progs = 1 .. Len(progs) /\ progs \in Seq(Range(progs))
  BY SequenceFacts DEF ArePrograms, IsSequence
<1>2. longer \in Seq(Range(progs) \cup {prog})
  BY <1>1
<1>3. /\ DOMAIN longer = 1 .. Len(progs) + 1
      /\ \A i \in 1 .. Len(progs) + 1 :
            longer[i] = IF i = Len(progs) + 1 THEN prog ELSE progs[i]
  BY <1>1
<1>4. IsSequence(longer)
  BY <1>2, SequenceOf
<1> HIDE DEF longer
<1>5. \A i \in DOMAIN longer : IsProgram(longer[i])
  BY <1>1, <1>3 DEF ArePrograms
<1>6. ArePrograms(longer)
  BY <1>4, <1>5 DEF ArePrograms
<1> QED BY <1>6 DEF longer

------------------------------------------------------------------------------
(* What the invariant of the measurements says *)

IsLine(line) ==
  /\ line.exact.num \in Nat /\ line.exact.den \in Nat \ {0}
  /\ line.printed = Printed(line.exact)

MeasuringSteps == {"idle", "sources", "baseline", "saving", "done", "killed"}

\* What a run has read are programs, its trend is that of the line it took from
\* the history, and its verdict that of the baseline it began with.
RunMeasures(run) ==
  /\ ArePrograms(run.progs)
  /\ run.pc \in BuildSteps => IsProgram(run.prog)
  /\ run.past # None =>
        /\ IsProgram(run.prog) /\ IsLine(run.past)
        /\ run.trend = Trend(Analyze(run.prog.decls).ratio, run.past.printed)
  /\ run.mode = "convergence" =>
        /\ run.pc \in MeasuringSteps
        /\ run.known # None => run.known \in Nat /\ run.has = TRUE /\ run.prev = run.known
        /\ run.pc = "done" =>
              run.verdict = Verdict(run.has, run.prev, DirUngoverned(run.progs), DirTotal(run.progs))

ProgramsOnDisk ==
  /\ DOMAIN dir = Files
  /\ \A prog \in drafts \cup Range(dir) : prog # Absent => IsProgram(prog)

HistoryKept == IsSequence(history) /\ \A i \in DOMAIN history : IsLine(history[i])

\* Unless a run is saving, or was cut off while saving, the baseline is what the
\* last run to save it has measured.
BaselineIsMeasured ==
  /\ cutOff \in BOOLEAN
  /\ measured # None => measured \in Nat
  /\ measured # None /\ cutOff = FALSE /\ (\A q \in Procs : runs[q].pc # "saving") =>
        baseline = measured

RunsMeasure == \A p \in Procs : RunMeasures(runs[p])

MeasureInv == BuildInv /\ ProgramsOnDisk /\ HistoryKept /\ BaselineIsMeasured /\ RunsMeasure

LEMMA NewRunMeasures == RunMeasures(NewRun)
<1>1. ArePrograms(NewRun.progs)
  <2>1. NewRun.progs = <<>>
    BY DEF NewRun
  <2> QED BY <2>1, EmptyIsSequence DEF ArePrograms
<1> QED BY <1>1 DEF RunMeasures, NewRun, BuildSteps, MeasuringSteps

LEMMA MeasureInit == Init => MeasureInv
<1> SUFFICES ASSUME Init
             PROVE  MeasureInv
  OBVIOUS
<1>1. BuildInv
  BY BuildInit
<1>2. ProgramsOnDisk
  <2>1. PICK w \in Worlds : drafts = w.drafts /\ dir = w.dir
    BY DEF Init
  <2> QED BY <2>1, DriverAssumption DEF ProgramsOnDisk
<1>3. HistoryKept
  BY EmptyIsSequence DEF Init, HistoryKept
<1>4. BaselineIsMeasured
  BY DEF Init, BaselineIsMeasured
<1>5. RunsMeasure
  BY NewRunMeasures DEF Init, RunsMeasure
<1> QED BY <1>1, <1>2, <1>3, <1>4, <1>5 DEF MeasureInv

------------------------------------------------------------------------------
(* Steps that save no baseline and write no line *)

LEMMA RunStep ==
  ASSUME MeasureInv, NEW p \in Procs, NEW run, RunMeasures(run), runs' = [runs EXCEPT ![p] = run]
  PROVE  RunsMeasure'
<1>1. \A q \in Procs : runs'[q] = IF q = p THEN run ELSE runs[q]
  BY DEF MeasureInv, BuildInv, Shapes
<1>2. \A q \in Procs : RunMeasures(runs'[q])
  BY <1>1 DEF MeasureInv, RunsMeasure
<1> QED BY <1>2 DEF RunsMeasure

LEMMA MeasureStep ==
  ASSUME MeasureInv, BuildInv', NEW p \in Procs, NEW run, RunMeasures(run), Set(p, run),
         runs[p].pc # "saving",
         UNCHANGED <<drafts, dir, history, baseline, measured, cutOff>>
  PROVE  MeasureInv'
<1>0. runs' = [runs EXCEPT ![p] = run]
  BY DEF Set
<1>1. RunsMeasure'
  BY <1>0, RunStep
<1>2. \A q \in Procs : q # p => runs'[q] = runs[q]
  BY <1>0 DEF MeasureInv, BuildInv, Shapes
<1>3. BaselineIsMeasured'
  BY <1>2 DEF MeasureInv, BaselineIsMeasured
<1>4. ProgramsOnDisk' /\ HistoryKept'
  BY DEF MeasureInv, ProgramsOnDisk, HistoryKept
<1> QED BY <1>1, <1>3, <1>4 DEF MeasureInv

\* The steps of a run that change no more than where it is.
LEMMA MovesOn ==
  ASSUME NEW r, RunMeasures(r), DOMAIN r = RunFields, NEW run, DOMAIN run = RunFields,
         \A x \in RunFields \ {"pc", "exit", "opened", "todo", "codeTodo", "scans", "report"} : run[x] = r[x],
         run.pc \in BuildSteps => r.pc \in BuildSteps,
         r.mode = "convergence" => run.pc \in MeasuringSteps \ {"done"}
  PROVE  RunMeasures(run)
<1>1. /\ run.mode = r.mode /\ run.prog = r.prog /\ run.progs = r.progs
      /\ run.past = r.past /\ run.trend = r.trend
      /\ run.known = r.known /\ run.has = r.has /\ run.prev = r.prev
  BY DEF RunFields
<1> QED BY <1>1 DEF RunMeasures

LEMMA RunFacts ==
  ASSUME MeasureInv, NEW p \in Procs
  PROVE  DOMAIN runs[p] = RunFields /\ RunMeasures(runs[p])
BY DEF MeasureInv, BuildInv, Shapes, RunsMeasure

LEMMA OnDisk ==
  ASSUME MeasureInv, NEW f \in Files, dir[f] # Absent
  PROVE  IsProgram(dir[f])
<1>1. dir[f] \in Range(dir)
  BY DEF MeasureInv, ProgramsOnDisk, Range
<1> QED BY <1>1 DEF MeasureInv, ProgramsOnDisk

------------------------------------------------------------------------------
(* Ratios *)

\* The values of a function on a finite set are finitely many.
LEMMA RangeFinite ==
  ASSUME NEW f, IsFiniteSet(DOMAIN f), f = [x \in DOMAIN f |-> f[x]]
  PROVE  IsFiniteSet(Range(f))
<1>1. f \in Surjection(DOMAIN f, Range(f))
  BY DEF Surjection, Range
<1> QED BY <1>1, FS_Surjection

LEMMA DomainFinite ==
  ASSUME NEW s, IsSequence(s)
  PROVE  IsFiniteSet(DOMAIN s)
<1>1. Len(s) \in Int /\ 1 \in Int /\ DOMAIN s = 1 .. Len(s)
  BY SequenceFacts
<1>2. IsFiniteSet(1 .. Len(s))
  BY <1>1, FS_Interval
<1> QED BY <1>1, <1>2

LEMMA CastsFinite ==
  ASSUME NEW prog, IsProgram(prog)
  PROVE  IsFiniteSet(Casts(prog.decls))
<1> DEFINE decls == prog.decls
           kinds(i) == {k \in DOMAIN decls[i].sections : decls[i].sections[k].kind = "dR.k"}
           casts(i) == {<<i, s>> : s \in kinds(i)}
           all == {casts(i) : i \in Traversals(decls)}
<1>1. ASSUME NEW i \in Traversals(decls)
      PROVE  IsFiniteSet(casts(i))
  <2>1. IsSequence(decls[i].sections)
    BY DEF IsProgram, Traversals
  <2>2. IsFiniteSet(DOMAIN decls[i].sections)
    BY <2>1, DomainFinite
  <2>3. IsFiniteSet(kinds(i))
    BY <2>2, FS_Subset
  <2> HIDE DEF kinds
  <2> DEFINE f == [s \in kinds(i) |-> <<i, s>>]
  <2>4. casts(i) = Range(f)
    BY DEF Range
  <2>5. IsFiniteSet(Range(f))
    BY <2>3, RangeFinite
  <2> QED BY <2>4, <2>5
<1>2. IsFiniteSet(all)
  <2>1. IsSequence(decls)
    BY DEF IsProgram
  <2>2. IsFiniteSet(DOMAIN decls)
    BY <2>1, DomainFinite
  <2>3. IsFiniteSet(Traversals(decls))
    BY <2>2, FS_Subset DEF Traversals
  <2> HIDE DEF casts
  <2> DEFINE f == [i \in Traversals(decls) |-> casts(i)]
  <2>4. all = Range(f)
    BY DEF Range
  <2>5. IsFiniteSet(Range(f))
    BY <2>3, RangeFinite
  <2> QED BY <2>4, <2>5
<1>3. \A A \in all : IsFiniteSet(A)
  BY <1>1
<1>4. Casts(decls) = UNION all
  BY DEF Casts
<1> HIDE DEF all
<1> QED BY <1>2, <1>3, <1>4, FS_UNION

LEMMA RatioType ==
  ASSUME NEW prog, IsProgram(prog)
  PROVE  LET r == Analyze(prog.decls).ratio IN r.num \in Nat /\ r.den \in Nat \ {0}
<1> DEFINE total == Cardinality(Casts(prog.decls))
           governed == Cardinality(GovernedCasts(prog.decls))
<1>1. IsFiniteSet(Casts(prog.decls)) /\ GovernedCasts(prog.decls) \subseteq Casts(prog.decls)
  BY CastsFinite DEF GovernedCasts
<1>2. total \in Nat /\ governed \in Nat /\ governed <= total
  BY <1>1, FS_Subset, FS_CardinalityType
<1>3. Analyze(prog.decls).ratio = IF total > 0 THEN Fraction(total - governed, total) ELSE Fraction(0, 1)
  BY DEF Analyze
<1> HIDE DEF total, governed
<1>4. CASE total > 0
  BY <1>2, <1>3, <1>4 DEF Fraction
<1>5. CASE ~(total > 0)
  BY <1>2, <1>3, <1>5 DEF Fraction
<1> QED BY <1>4, <1>5

LEMMA Division ==
  ASSUME NEW x \in Nat, NEW y \in Nat \ {0}
  PROVE  LET q == x \div y IN q \in Nat /\ y * q <= x /\ x < y * q + y
OBVIOUS

\* What is printed is within half a unit of the last place.
LEMMA PrintedIsClose ==
  ASSUME NEW r, r.num \in Nat, r.den \in Nat \ {0}
  PROVE  /\ Printed(r).den = 10000 /\ Printed(r).num \in Nat
         /\ 2 * (r.den * Printed(r).num) <= 20000 * r.num + r.den
         /\ 20000 * r.num - r.den < 2 * (r.den * Printed(r).num)
<1> DEFINE c == r.num
           d == r.den
           q == (2 * 10000 * c + d) \div (2 * d)
<1>1. Printed(r).den = 10000 /\ Printed(r).num = q
  BY DEF Printed, Digits, Fraction
<1>2. c \in Nat /\ d \in Nat \ {0}
  OBVIOUS
<1> HIDE DEF c, d
<1>3. 2 * 10000 * c + d \in Nat /\ 2 * d \in Nat \ {0}
  BY <1>2
<1>4. q \in Nat /\ (2 * d) * q <= 2 * 10000 * c + d /\ 2 * 10000 * c + d < (2 * d) * q + 2 * d
  BY <1>3, Division
<1> HIDE DEF q
<1>5. (2 * d) * q = 2 * (d * q)
  BY <1>2, <1>4
<1>6. d * q \in Nat
  BY <1>2, <1>4
<1>7. 2 * (d * q) <= 20000 * c + d /\ 20000 * c - d < 2 * (d * q)
  BY <1>2, <1>4, <1>5, <1>6
<1> QED BY <1>1, <1>4, <1>7 DEF c, d

LEMMA TimesLess ==
  ASSUME NEW x \in Int, NEW y \in Int, NEW b \in Nat \ {0}
  PROVE  /\ (x < y) <=> (x * b < y * b)
         /\ (x <= y) <=> (x * b <= y * b)
OBVIOUS

\* a/b and c/d are ratios, and n of Digits is c/d as it is printed.
LEMMA RoundedBelow ==
  ASSUME NEW a \in Nat, NEW c \in Nat, NEW b \in Nat \ {0}, NEW d \in Nat \ {0}, NEW n \in Nat,
         20000 * c - d < 2 * (d * n), b * d < 20000, a * d < c * b
  PROVE  a * 10000 < n * b
<1>1. (20000 * c - d) * b < (2 * (d * n)) * b
  BY TimesLess
<1>2. /\ (20000 * c - d) * b = 20000 * (c * b) - b * d
      /\ (2 * (d * n)) * b = (n * b) * (2 * d)
      /\ (a * 10000) * (2 * d) = 20000 * (a * d)
  OBVIOUS
<1>3. a * d \in Nat /\ c * b \in Nat /\ b * d \in Nat /\ (n * b) * (2 * d) \in Nat
  OBVIOUS
<1>4. 20000 * (a * d) < (n * b) * (2 * d)
  BY <1>1, <1>2, <1>3
<1>5. (a * 10000) * (2 * d) < (n * b) * (2 * d)
  BY <1>2, <1>4
<1> QED BY <1>5, TimesLess

LEMMA RoundedAbove ==
  ASSUME NEW a \in Nat, NEW c \in Nat, NEW b \in Nat \ {0}, NEW d \in Nat \ {0}, NEW n \in Nat,
         2 * (d * n) <= 20000 * c + d, b * d < 20000, c * b < a * d
  PROVE  n * b < a * 10000
<1>1. (2 * (d * n)) * b <= (20000 * c + d) * b
  BY TimesLess
<1>2. /\ (20000 * c + d) * b = 20000 * (c * b) + b * d
      /\ (2 * (d * n)) * b = (n * b) * (2 * d)
      /\ (a * 10000) * (2 * d) = 20000 * (a * d)
  OBVIOUS
<1>3. a * d \in Nat /\ c * b \in Nat /\ b * d \in Nat /\ (n * b) * (2 * d) \in Nat
  OBVIOUS
<1>4. (n * b) * (2 * d) < 20000 * (a * d)
  BY <1>1, <1>2, <1>3
<1>5. (n * b) * (2 * d) < (a * 10000) * (2 * d)
  BY <1>2, <1>4
<1> QED BY <1>5, TimesLess

------------------------------------------------------------------------------
(* Every step keeps what the measurements know *)

LEMMA MeasureCompile ==
  ASSUME MeasureInv, BuildInv', NEW p \in Procs, NEW f \in Files, NEW out \in Outputs \cup {None},
         Compile(p, f, out)
  PROVE  MeasureInv'
<1> DEFINE run == [NewRun EXCEPT !.mode = "compile", !.file = f, !.out = out, !.prog = dir[f]]
           next == IF out # None THEN "open" ELSE "trend"
<1>1. /\ UNCHANGED <<drafts, dir, history, baseline, measured, cutOff>>
      /\ runs[p].pc # "saving"
      /\ Set(p, IF dir[f] = Absent THEN Finished(run, 2)
                ELSE IF out # None /\ BuildErrors(dir[f]) THEN Finished(run, 1)
                ELSE [run EXCEPT !.pc = next])
  BY DEF Compile, world, Start, Resting
<1>2. /\ DOMAIN run = RunFields
      /\ run.mode = "compile" /\ run.prog = dir[f] /\ run.progs = NewRun.progs
      /\ run.past = None /\ run.pc = "idle"
  BY DEF NewRun, RunFields
<1> HIDE DEF run
<1>3. ASSUME NEW r, DOMAIN r = RunFields, r.mode = "compile", r.prog = dir[f],
             r.progs = NewRun.progs, r.past = None, r.pc \in {"done"} \cup BuildSteps,
             r.pc \in BuildSteps => dir[f] # Absent, Set(p, r)
      PROVE  MeasureInv'
  <2>1. ArePrograms(r.progs)
    BY <1>3, NewRunMeasures DEF RunMeasures
  <2>2. r.pc \in BuildSteps => IsProgram(r.prog)
    BY <1>3, OnDisk
  <2>3. RunMeasures(r)
    BY <1>3, <2>1, <2>2 DEF RunMeasures
  <2> QED BY <1>1, <1>3, <2>3, MeasureStep
<1>4. ASSUME NEW status, Set(p, Finished(run, status))
      PROVE  MeasureInv'
  <2> DEFINE r == Finished(run, status)
  <2>1. /\ DOMAIN r = RunFields /\ r.mode = "compile" /\ r.prog = dir[f]
        /\ r.progs = NewRun.progs /\ r.past = None /\ r.pc = "done"
    BY <1>2 DEF Finished, RunFields
  <2> HIDE DEF r
  <2>2. Set(p, r)
    BY <1>4 DEF r
  <2> QED BY <1>3, <2>1, <2>2 DEF BuildSteps
<1>5. ASSUME dir[f] # Absent, Set(p, [run EXCEPT !.pc = next])
      PROVE  MeasureInv'
  <2> DEFINE r == [run EXCEPT !.pc = next]
  <2>1. /\ DOMAIN r = RunFields /\ r.mode = "compile" /\ r.prog = dir[f]
        /\ r.progs = NewRun.progs /\ r.past = None /\ r.pc = next
    BY <1>2 DEF RunFields
  <2>2. next \in BuildSteps
    BY DEF BuildSteps
  <2> HIDE DEF r, next
  <2>3. Set(p, r)
    BY <1>5 DEF r
  <2> QED BY <1>3, <1>5, <2>1, <2>2, <2>3
<1> QED BY <1>1, <1>4, <1>5

\* The fields that MovesOn lets change.
Passing == {"pc", "exit", "opened", "todo", "codeTodo", "scans", "report"}

LEMMA PassingStep ==
  ASSUME MeasureInv, BuildInv', NEW p \in Procs, NEW run, Set(p, run), DOMAIN run = RunFields,
         \A x \in RunFields \ Passing : run[x] = runs[p][x],
         run.pc \in BuildSteps => runs[p].pc \in BuildSteps,
         runs[p].mode = "convergence" => run.pc \in MeasuringSteps \ {"done"},
         runs[p].pc # "saving",
         UNCHANGED <<drafts, dir, history, baseline, measured, cutOff>>
  PROVE  MeasureInv'
<1>1. RunMeasures(run)
  BY RunFacts, MovesOn DEF Passing
<1> QED BY <1>1, MeasureStep

LEMMA CompileMode ==
  ASSUME MeasureInv, NEW p \in Procs, runs[p].pc \in BuildSteps
  PROVE  runs[p].mode # "convergence" /\ IsProgram(runs[p].prog)
BY RunFacts DEF MeasureInv, BuildInv, ModesOfSteps, RunMeasures

LEMMA MeasureBuildStep ==
  ASSUME MeasureInv, BuildInv', NEW p \in Procs,
         OpenOutput(p) \/ Emit(p) \/ EmitCutOff(p) \/ OutputDenied(p) \/ HistoryDenied(p)
  PROVE  MeasureInv'
<1>1. PICK pc, run :
         /\ pc \in BuildSteps \cup {"done"} /\ Set(p, run)
         /\ \/ run = [runs[p] EXCEPT !.pc = pc]
            \/ run = [runs[p] EXCEPT !.pc = pc, !.opened = TRUE]
            \/ \E exit : run = [runs[p] EXCEPT !.pc = pc, !.exit = exit]
         /\ runs[p].pc \in BuildSteps
         /\ UNCHANGED <<drafts, dir, history, baseline, measured, cutOff>>
  <2>1. CASE OpenOutput(p) \/ Emit(p) \/ EmitCutOff(p)
    BY <2>1 DEF OpenOutput, Emit, EmitCutOff, At, BuildSteps, world
  <2>2. CASE OutputDenied(p) \/ HistoryDenied(p)
    BY <2>2 DEF OutputDenied, HistoryDenied, Finished, At, BuildSteps, world
  <2> QED BY <2>1, <2>2
<1>2. DOMAIN run = RunFields /\ run.pc = pc /\ \A x \in RunFields \ Passing : run[x] = runs[p][x]
  BY <1>1, RunFacts DEF RunFields, Passing
<1>3. runs[p].mode # "convergence" /\ runs[p].pc # "saving"
  BY <1>1, CompileMode DEF BuildSteps
<1> QED BY <1>1, <1>2, <1>3, PassingStep

LEMMA MeasureLoadTrend ==
  ASSUME MeasureInv, BuildInv', NEW p \in Procs, LoadTrend(p)
  PROVE  MeasureInv'
<1>1. /\ runs[p].pc = "trend" /\ runs[p].pc \in BuildSteps
      /\ UNCHANGED <<drafts, dir, history, baseline, measured, cutOff>>
  BY DEF LoadTrend, At, BuildSteps, world
<1>2. runs[p].mode # "convergence" /\ IsProgram(runs[p].prog)
  BY <1>1, CompileMode
<1>3. CASE Set(p, [runs[p] EXCEPT !.pc = "append"])
  <2> DEFINE run == [runs[p] EXCEPT !.pc = "append"]
  <2>1. DOMAIN run = RunFields /\ \A x \in RunFields \ Passing : run[x] = runs[p][x]
    BY RunFacts DEF RunFields, Passing
  <2> HIDE DEF run
  <2>2. Set(p, run)
    BY <1>3 DEF run
  <2> QED BY <1>1, <1>2, <2>1, <2>2, PassingStep
<1>4. ASSUME history # <<>>,
             Set(p, [runs[p] EXCEPT !.pc = "append", !.past = history[Len(history)],
                        !.trend = Trend(Analysis(p).ratio, history[Len(history)].printed)])
      PROVE  MeasureInv'
  <2> DEFINE line == history[Len(history)]
             trend == Trend(Analysis(p).ratio, line.printed)
             run == [runs[p] EXCEPT !.pc = "append", !.past = line, !.trend = trend]
  <2>1. IsLine(line)
    <3>1. Len(history) \in Nat /\ DOMAIN history = 1 .. Len(history) /\ history \in Seq(Range(history))
      BY SequenceFacts DEF MeasureInv, HistoryKept, IsSequence
    <3>2. Len(history) # 0
      BY <1>4, <3>1
    <3>3. Len(history) \in DOMAIN history
      BY <3>1, <3>2
    <3> QED BY <3>3 DEF MeasureInv, HistoryKept
  <2>2. trend = Trend(Analyze(runs[p].prog.decls).ratio, line.printed)
    BY DEF Analysis
  <2> HIDE DEF line, trend
  <2>3. /\ run.mode = runs[p].mode /\ run.prog = runs[p].prog /\ run.progs = runs[p].progs
        /\ run.past = line /\ run.trend = trend
    BY RunFacts DEF RunFields
  <2> HIDE DEF run
  <2>4. RunMeasures(run)
    BY <1>2, <2>1, <2>2, <2>3, RunFacts DEF RunMeasures
  <2>5. Set(p, run)
    BY <1>4 DEF run, line, trend
  <2> QED BY <1>1, <2>4, <2>5, MeasureStep
<1>5. \/ Set(p, [runs[p] EXCEPT !.pc = "append"])
      \/ /\ history # <<>>
         /\ Set(p, [runs[p] EXCEPT !.pc = "append", !.past = history[Len(history)],
                        !.trend = Trend(Analysis(p).ratio, history[Len(history)].printed)])
  BY Zenon DEF LoadTrend
<1> QED BY <1>3, <1>4, <1>5

LEMMA MeasureAppend ==
  ASSUME MeasureInv, BuildInv', NEW p \in Procs, AppendHistory(p)
  PROVE  MeasureInv'
<1> DEFINE run == Finished(runs[p], BuildExit(p))
           line == [cast |-> Analysis(p).total, exact |-> Analysis(p).ratio,
                    printed |-> Printed(Analysis(p).ratio)]
<1>1. /\ runs[p].pc \in BuildSteps
      /\ history' = Append(history, line) /\ Set(p, run)
      /\ UNCHANGED <<drafts, dir, baseline, measured, cutOff>>
  BY DEF AppendHistory, At, BuildSteps, world
<1>2. runs[p].mode # "convergence" /\ IsProgram(runs[p].prog)
  BY <1>1, CompileMode
<1>3. IsLine(line)
  BY <1>2, RatioType DEF IsLine, Analysis
<1> HIDE DEF line
<1>4. HistoryKept'
  <2>1. /\ Len(history) \in Nat /\ DOMAIN history = 1 .. Len(history)
        /\ history \in Seq(Range(history)) /\ \A i \in DOMAIN history : IsLine(history[i])
    BY SequenceFacts DEF MeasureInv, HistoryKept, IsSequence
  <2>2. Append(history, line) \in Seq(Range(history) \cup {line})
    BY <2>1
  <2>3. IsSequence(Append(history, line))
    BY <2>2, SequenceOf
  <2>4. /\ DOMAIN Append(history, line) = 1 .. Len(history) + 1
        /\ \A i \in 1 .. Len(history) + 1 :
              Append(history, line)[i] = IF i = Len(history) + 1 THEN line ELSE history[i]
    BY <2>1
  <2>5. \A i \in DOMAIN Append(history, line) : IsLine(Append(history, line)[i])
    BY <1>3, <2>1, <2>4
  <2> QED BY <1>1, <2>3, <2>5 DEF HistoryKept
<1>5. /\ DOMAIN run = RunFields /\ run.pc = "done"
      /\ \A x \in RunFields \ Passing : run[x] = runs[p][x]
  BY RunFacts DEF Finished, RunFields, Passing
<1>6. runs' = [runs EXCEPT ![p] = run]
  BY <1>1 DEF Set
<1> HIDE DEF run
<1>7. RunMeasures(run)
  BY <1>2, <1>5, RunFacts, MovesOn DEF Passing, BuildSteps
<1>8. RunsMeasure'
  BY <1>6, <1>7, RunStep
<1>9. BaselineIsMeasured'
  <2>1. \A q \in Procs : runs'[q] = IF q = p THEN run ELSE runs[q]
    BY <1>6 DEF MeasureInv, BuildInv, Shapes
  <2>2. runs[p].pc # "saving"
    BY <1>1 DEF BuildSteps
  <2> QED BY <1>1, <2>1, <2>2 DEF MeasureInv, BaselineIsMeasured
<1>10. ProgramsOnDisk'
  BY <1>1 DEF MeasureInv, ProgramsOnDisk
<1> QED BY <1>4, <1>8, <1>9, <1>10 DEF MeasureInv

\* A step of a run that is in the middle of a survey or a measurement and reads
\* neither a program nor the baseline.
LEMMA MeasureMoves ==
  ASSUME MeasureInv, BuildInv', NEW p \in Procs,
         \/ EndSources(p)
         \/ \E c \in CodeFiles : ReadCode(p, c)
         \/ EndCode(p) \/ Report(p)
  PROVE  MeasureInv'
<1>1. /\ runs[p].pc \in {"sources", "code", "report"}
      /\ UNCHANGED <<drafts, dir, history, baseline, measured, cutOff>>
  BY DEF EndSources, ReadCode, EndCode, Report, At, world
<1>2. runs[p].mode = "convergence" => runs[p].pc = "sources"
  BY <1>1, RunFacts DEF RunMeasures, MeasuringSteps
<1>3. ASSUME NEW run, DOMAIN run = RunFields, \A x \in RunFields \ Passing : run[x] = runs[p][x],
             run.pc \notin BuildSteps,
             runs[p].mode = "convergence" => run.pc \in MeasuringSteps \ {"done"}, Set(p, run)
      PROVE  MeasureInv'
  BY <1>1, <1>3, PassingStep
<1>4. CASE EndSources(p)
  <2> DEFINE pc == AfterSources(runs[p].mode)
             run == [runs[p] EXCEPT !.pc = pc]
  <2>1. /\ DOMAIN run = RunFields /\ run.pc = pc
        /\ \A x \in RunFields \ Passing : run[x] = runs[p][x]
    BY RunFacts DEF RunFields, Passing
  <2>2. pc \notin BuildSteps /\ (runs[p].mode = "convergence" => pc = "baseline")
    BY DEF AfterSources, BuildSteps
  <2> HIDE DEF run, pc
  <2>3. Set(p, run)
    BY <1>4 DEF EndSources, run, pc
  <2> QED BY <1>3, <2>1, <2>2, <2>3 DEF MeasuringSteps
<1>5. CASE EndCode(p)
  <2> DEFINE pc == AfterCode(runs[p].mode)
             run == [runs[p] EXCEPT !.pc = pc]
  <2>1. /\ DOMAIN run = RunFields /\ run.pc = pc
        /\ \A x \in RunFields \ Passing : run[x] = runs[p][x]
    BY RunFacts DEF RunFields, Passing
  <2>2. pc \notin BuildSteps /\ runs[p].mode # "convergence"
    BY <1>2, <1>5 DEF AfterCode, BuildSteps, EndCode, At
  <2> HIDE DEF run, pc
  <2>3. Set(p, run)
    BY <1>5 DEF EndCode, run, pc
  <2> QED BY <1>3, <2>1, <2>2, <2>3
<1>6. CASE Report(p)
  <2>1. PICK report, status : Set(p, Finished([runs[p] EXCEPT !.report = report], status))
    BY <1>6, Zenon DEF Report
  <2> DEFINE run == Finished([runs[p] EXCEPT !.report = report], status)
  <2>2. /\ DOMAIN run = RunFields /\ run.pc = "done"
        /\ \A x \in RunFields \ Passing : run[x] = runs[p][x]
    BY RunFacts DEF Finished, RunFields, Passing
  <2>3. runs[p].mode # "convergence"
    BY <1>2, <1>6 DEF Report, At
  <2> HIDE DEF run
  <2>4. Set(p, run)
    BY <2>1 DEF run
  <2> QED BY <1>3, <2>2, <2>3, <2>4 DEF BuildSteps
<1>7. CASE \E c \in CodeFiles : ReadCode(p, c)
  <2>1. PICK c \in CodeFiles : ReadCode(p, c)
    BY <1>7
  <2> DEFINE rest == [runs[p] EXCEPT !.codeTodo = @ \ {c}]
  <2>2. /\ DOMAIN rest = RunFields /\ rest.pc = runs[p].pc
        /\ \A x \in RunFields \ Passing : rest[x] = runs[p][x]
    BY RunFacts DEF RunFields, Passing
  <2>3. runs[p].mode # "convergence" /\ runs[p].pc \notin BuildSteps
    BY <1>1, <1>2, <2>1 DEF ReadCode, At, BuildSteps
  <2>4. \/ Set(p, [rest EXCEPT !.scans = Append(@, code[c])])
        \/ Set(p, Finished(rest, 2)) \/ Set(p, rest)
    BY <2>1, Zenon DEF ReadCode
  <2> HIDE DEF rest
  <2>5. CASE Set(p, [rest EXCEPT !.scans = Append(@, code[c])])
    <3> DEFINE run == [rest EXCEPT !.scans = Append(@, code[c])]
    <3>1. /\ DOMAIN run = RunFields /\ run.pc = runs[p].pc
          /\ \A x \in RunFields \ Passing : run[x] = runs[p][x]
      BY <2>2 DEF RunFields, Passing
    <3> HIDE DEF run
    <3>2. Set(p, run)
      BY <2>5 DEF run
    <3> QED BY <1>3, <2>3, <3>1, <3>2
  <2>6. CASE Set(p, Finished(rest, 2))
    <3> DEFINE run == Finished(rest, 2)
    <3>1. /\ DOMAIN run = RunFields /\ run.pc = "done"
          /\ \A x \in RunFields \ Passing : run[x] = runs[p][x]
      BY <2>2 DEF Finished, RunFields, Passing
    <3> HIDE DEF run
    <3>2. Set(p, run)
      BY <2>6 DEF run
    <3> QED BY <1>3, <2>3, <3>1, <3>2 DEF BuildSteps
  <2>7. CASE Set(p, rest)
    BY <1>3, <2>2, <2>3, <2>7
  <2> QED BY <2>4, <2>5, <2>6, <2>7
<1> QED BY <1>4, <1>5, <1>6, <1>7

LEMMA MeasureReadSource ==
  ASSUME MeasureInv, BuildInv', NEW p \in Procs, NEW f \in Files, ReadSource(p, f)
  PROVE  MeasureInv'
<1> DEFINE rest == [runs[p] EXCEPT !.todo = @ \ {f}]
<1>1. /\ runs[p].pc = "sources"
      /\ UNCHANGED <<drafts, dir, history, baseline, measured, cutOff>>
  BY DEF ReadSource, At, world
<1>2. /\ DOMAIN rest = RunFields /\ rest.pc = "sources" /\ rest.mode = runs[p].mode
      /\ \A x \in RunFields \ Passing : rest[x] = runs[p][x]
  BY <1>1, RunFacts DEF RunFields, Passing
<1>3. \/ dir[f] # Absent /\ Set(p, [rest EXCEPT !.progs = Append(@, dir[f])])
      \/ runs[p].mode = "diff" /\ Set(p, Finished(rest, 2))
      \/ Set(p, rest)
  BY <1>2, Zenon DEF ReadSource
<1>4. RunMeasures(rest)
  BY <1>1, <1>2, RunFacts, MovesOn DEF Passing, BuildSteps, MeasuringSteps
<1> HIDE DEF rest
<1>5. CASE dir[f] # Absent /\ Set(p, [rest EXCEPT !.progs = Append(@, dir[f])])
  <2> DEFINE progs == Append(rest.progs, dir[f])
             run == [rest EXCEPT !.progs = progs]
  <2>1. ArePrograms(progs)
    BY <1>4, <1>5, OnDisk, AppendsProgram DEF RunMeasures
  <2> HIDE DEF progs
  <2>2. /\ run.progs = progs /\ run.pc = "sources" /\ run.mode = rest.mode /\ run.prog = rest.prog
        /\ run.past = rest.past /\ run.trend = rest.trend
        /\ run.known = rest.known /\ run.has = rest.has /\ run.prev = rest.prev
    BY <1>2 DEF RunFields
  <2> HIDE DEF run
  <2>3. RunMeasures(run)
    BY <1>4, <2>1, <2>2 DEF RunMeasures, BuildSteps, MeasuringSteps
  <2>4. Set(p, run)
    BY <1>5 DEF run, progs
  <2> QED BY <1>1, <2>3, <2>4, MeasureStep
<1>6. CASE runs[p].mode = "diff" /\ Set(p, Finished(rest, 2))
  <2> DEFINE run == Finished(rest, 2)
  <2>1. /\ DOMAIN run = RunFields /\ run.pc = "done"
        /\ \A x \in RunFields \ Passing : run[x] = runs[p][x]
    BY <1>2 DEF Finished, RunFields, Passing
  <2> HIDE DEF run
  <2>2. Set(p, run)
    BY <1>6 DEF run
  <2> QED BY <1>1, <1>6, <2>1, <2>2, PassingStep DEF BuildSteps
<1>7. CASE Set(p, rest)
  BY <1>1, <1>4, <1>7, MeasureStep
<1> QED BY <1>3, <1>5, <1>6, <1>7

LEMMA MeasureSurvey ==
  ASSUME MeasureInv, BuildInv', NEW p \in Procs,
         \/ \E mode \in modes : Survey(p, mode)
         \/ \E f \in Files, c \in CodeFiles : Diff(p, f, c)
  PROVE  MeasureInv'
<1>1. PICK mode, pc, todo, codeTodo :
         /\ mode \in {"lint", "map", "audit", "diff"} /\ pc \in {"sources", "code"}
         /\ Set(p, [NewRun EXCEPT !.mode = mode, !.pc = pc, !.todo = todo, !.codeTodo = codeTodo])
         /\ runs[p].pc # "saving"
         /\ UNCHANGED <<drafts, dir, history, baseline, measured, cutOff>>
  BY DEF Survey, Diff, FirstPhase, Start, Resting, world
<1> DEFINE run == [NewRun EXCEPT !.mode = mode, !.pc = pc, !.todo = todo, !.codeTodo = codeTodo]
<1>2. run.mode = mode /\ run.pc = pc /\ run.progs = NewRun.progs /\ run.past = None
  BY DEF NewRun
<1> HIDE DEF run
<1>3. RunMeasures(run)
  BY <1>1, <1>2, NewRunMeasures DEF RunMeasures, BuildSteps
<1>4. Set(p, run)
  BY <1>1 DEF run
<1> QED BY <1>1, <1>3, <1>4, MeasureStep

\* A run that begins after a baseline was saved whole reads just that one.
LEMMA MeasureLoadBaseline ==
  ASSUME MeasureInv, BuildInv', NEW p \in Procs, LoadBaseline(p)
  PROVE  MeasureInv'
<1> DEFINE has == baseline # Absent
           prev == IF baseline \in {Absent, Empty} THEN 0 ELSE baseline
           known == IF cutOff \/ \E q \in Procs : At(q, "saving") THEN None ELSE measured
           run == [NewRun EXCEPT !.mode = "convergence", !.pc = "sources", !.todo = Files,
                                 !.has = has, !.prev = prev, !.known = known]
<1>1. /\ Set(p, run) /\ runs[p].pc # "saving"
      /\ UNCHANGED <<drafts, dir, history, baseline, measured, cutOff>>
  BY DEF LoadBaseline, Start, Resting, world
<1>2. known # None => measured # None /\ measured = known /\ cutOff = FALSE
                      /\ \A q \in Procs : runs[q].pc # "saving"
  BY DEF At, MeasureInv, BaselineIsMeasured
<1>3. known # None => known \in Nat /\ baseline = known
  BY <1>2 DEF MeasureInv, BaselineIsMeasured
<1>4. known # None => has = TRUE /\ prev = known
  BY <1>3, DriverAssumption
<1> HIDE DEF has, prev, known
<1>5. /\ run.mode = "convergence" /\ run.pc = "sources" /\ run.progs = NewRun.progs
      /\ run.past = None /\ run.known = known /\ run.has = has /\ run.prev = prev
  BY DEF NewRun
<1> HIDE DEF run
<1>6. RunMeasures(run)
  BY <1>3, <1>4, <1>5, NewRunMeasures DEF RunMeasures, BuildSteps, MeasuringSteps
<1> QED BY <1>1, <1>6, MeasureStep

LEMMA JudgedMeasures ==
  ASSUME MeasureInv, NEW p \in Procs, runs[p].pc \in {"baseline", "saving"}
  PROVE  /\ RunMeasures(Judged(runs[p])) /\ Judged(runs[p]).pc = "done"
         /\ DirUngoverned(runs[p].progs) \in Nat
<1> DEFINE verdict == Verdict(runs[p].has, runs[p].prev, DirUngoverned(runs[p].progs), DirTotal(runs[p].progs))
           run == Judged(runs[p])
<1>1. run = Finished([runs[p] EXCEPT !.verdict = verdict], 0)
  BY DEF Judged
<1> HIDE DEF run, verdict
<1>2. /\ run.pc = "done" /\ run.mode = runs[p].mode /\ run.verdict = verdict
      /\ run.prog = runs[p].prog /\ run.progs = runs[p].progs
      /\ run.past = runs[p].past /\ run.trend = runs[p].trend
      /\ run.known = runs[p].known /\ run.has = runs[p].has /\ run.prev = runs[p].prev
  BY <1>1, RunFacts DEF Finished, RunFields
<1>3. RunMeasures(run)
  BY <1>2, RunFacts DEF RunMeasures, BuildSteps, MeasuringSteps, verdict
<1>4. DirUngoverned(runs[p].progs) \in Nat
  BY RunFacts, DirUngovernedType DEF RunMeasures
<1> QED BY <1>2, <1>3, <1>4 DEF run

LEMMA MeasureBaseline ==
  ASSUME MeasureInv, BuildInv', NEW p \in Procs,
         OpenBaseline(p) \/ BaselineDenied(p) \/ WriteBaseline(p) \/ BaselineCutOff(p)
  PROVE  MeasureInv'
<1>1. /\ runs[p].pc \in {"baseline", "saving"}
      /\ UNCHANGED <<drafts, dir, history>>
  BY DEF OpenBaseline, BaselineDenied, WriteBaseline, BaselineCutOff, At, world
<1>2. ProgramsOnDisk' /\ HistoryKept'
  BY <1>1 DEF MeasureInv, ProgramsOnDisk, HistoryKept
<1>3. CASE BaselineDenied(p)
  BY <1>1, <1>3, JudgedMeasures, MeasureStep DEF BaselineDenied, At, world
<1>4. CASE OpenBaseline(p)
  <2> DEFINE run == [runs[p] EXCEPT !.pc = "saving"]
  <2>1. /\ DOMAIN run = RunFields /\ run.pc = "saving"
        /\ \A x \in RunFields \ Passing : run[x] = runs[p][x]
    BY RunFacts DEF RunFields, Passing
  <2>2. runs' = [runs EXCEPT ![p] = run]
    BY <1>4 DEF OpenBaseline, Set
  <2> HIDE DEF run
  <2>3. RunMeasures(run)
    BY <2>1, RunFacts, MovesOn DEF Passing, BuildSteps, MeasuringSteps
  <2>4. RunsMeasure'
    BY <2>2, <2>3, RunStep
  <2>5. runs'[p].pc = "saving" /\ UNCHANGED <<measured, cutOff>>
    BY <1>4, <2>1, <2>2 DEF OpenBaseline, MeasureInv, BuildInv, Shapes
  <2>6. BaselineIsMeasured'
    BY <2>5 DEF MeasureInv, BaselineIsMeasured
  <2> QED BY <1>2, <2>4, <2>6 DEF MeasureInv
<1>5. CASE WriteBaseline(p)
  <2>1. /\ Set(p, Judged(runs[p])) /\ cutOff' = FALSE
        /\ baseline' = DirUngoverned(runs[p].progs) /\ measured' = DirUngoverned(runs[p].progs)
    BY <1>5 DEF WriteBaseline
  <2>2. RunsMeasure'
    BY <1>1, <2>1, JudgedMeasures, RunStep DEF Set
  <2>3. BaselineIsMeasured'
    BY <1>1, <2>1, JudgedMeasures DEF BaselineIsMeasured
  <2> QED BY <1>2, <2>2, <2>3 DEF MeasureInv
<1>6. CASE BaselineCutOff(p)
  <2>1. Set(p, Judged(runs[p])) /\ cutOff' = TRUE /\ UNCHANGED <<baseline, measured>>
    BY <1>6 DEF BaselineCutOff
  <2>2. RunsMeasure'
    BY <1>1, <2>1, JudgedMeasures, RunStep DEF Set
  <2>3. BaselineIsMeasured'
    BY <2>1 DEF MeasureInv, BaselineIsMeasured
  <2> QED BY <1>2, <2>2, <2>3 DEF MeasureInv
<1> QED BY <1>3, <1>4, <1>5, <1>6

LEMMA MeasureKill ==
  ASSUME MeasureInv, BuildInv', NEW p \in Procs, Kill(p)
  PROVE  MeasureInv'
<1> DEFINE run == [runs[p] EXCEPT !.pc = "killed"]
<1>1. /\ runs' = [runs EXCEPT ![p] = run] /\ cutOff' = (cutOff \/ runs[p].pc = "saving")
      /\ UNCHANGED <<drafts, dir, history, baseline, measured>>
  BY DEF Kill, Set, At, world
<1>2. /\ DOMAIN run = RunFields /\ run.pc = "killed"
      /\ \A x \in RunFields \ Passing : run[x] = runs[p][x]
  BY RunFacts DEF RunFields, Passing
<1> HIDE DEF run
<1>3. RunMeasures(run)
  BY <1>2, RunFacts, MovesOn DEF Passing, BuildSteps, MeasuringSteps
<1>4. RunsMeasure'
  BY <1>1, <1>3, RunStep
<1>5. \A q \in Procs : q # p => runs'[q] = runs[q]
  BY <1>1 DEF MeasureInv, BuildInv, Shapes
<1>6. BaselineIsMeasured'
  <2>1. cutOff' \in BOOLEAN /\ (measured' # None => measured' \in Nat)
    BY <1>1 DEF MeasureInv, BaselineIsMeasured
  <2>2. ASSUME measured' # None, cutOff' = FALSE, \A q \in Procs : runs'[q].pc # "saving"
        PROVE  baseline' = measured'
    <3>1. cutOff = FALSE /\ runs[p].pc # "saving"
      BY <1>1, <2>2 DEF MeasureInv, BaselineIsMeasured
    <3>2. \A q \in Procs : runs[q].pc # "saving"
      BY <1>5, <2>2, <3>1
    <3> QED BY <1>1, <2>2, <3>1, <3>2 DEF MeasureInv, BaselineIsMeasured
  <2> QED BY <2>1, <2>2 DEF BaselineIsMeasured
<1>7. ProgramsOnDisk' /\ HistoryKept'
  BY <1>1 DEF MeasureInv, ProgramsOnDisk, HistoryKept
<1> QED BY <1>4, <1>6, <1>7 DEF MeasureInv

LEMMA MeasureNext ==
  ASSUME MeasureInv, [Next]_vars
  PROVE  MeasureInv'
<1>0. BuildInv'
  BY BuildNext DEF MeasureInv
<1>1. ASSUME NEW p \in Procs, Step(p)
      PROVE  MeasureInv'
  <2>1. CASE \E f \in Files, out \in Outputs \cup {None} : Compile(p, f, out)
    BY <1>0, <2>1, MeasureCompile
  <2>2. CASE OpenOutput(p) \/ Emit(p) \/ EmitCutOff(p) \/ OutputDenied(p) \/ HistoryDenied(p)
    BY <1>0, <2>2, MeasureBuildStep
  <2>3. CASE LoadTrend(p) \/ AppendHistory(p)
    BY <1>0, <2>3, MeasureLoadTrend, MeasureAppend
  <2>4. CASE \/ \E mode \in modes : Survey(p, mode)
             \/ \E f \in Files, c \in CodeFiles : Diff(p, f, c)
    BY <1>0, <2>4, MeasureSurvey
  <2>5. CASE LoadBaseline(p) \/ \E f \in Files : ReadSource(p, f)
    BY <1>0, <2>5, MeasureLoadBaseline, MeasureReadSource
  <2>6. CASE \/ EndSources(p)
             \/ \E c \in CodeFiles : ReadCode(p, c)
             \/ EndCode(p) \/ Report(p)
    BY <1>0, <2>6, MeasureMoves
  <2>7. CASE OpenBaseline(p) \/ BaselineDenied(p) \/ WriteBaseline(p) \/ BaselineCutOff(p)
    BY <1>0, <2>7, MeasureBaseline
  <2>8. CASE Kill(p)
    BY <1>0, <2>8, MeasureKill
  <2> QED BY <1>1, <2>1, <2>2, <2>3, <2>4, <2>5, <2>6, <2>7, <2>8 DEF Step
<1>2. ASSUME NEW f \in Files, NEW prog \in drafts, Edit(f, prog)
      PROVE  MeasureInv'
  <2>1. /\ dir' = [dir EXCEPT ![f] = prog]
        /\ UNCHANGED <<drafts, history, baseline, runs, measured, cutOff>>
    BY <1>2 DEF Edit, world
  <2>2. ProgramsOnDisk'
    BY <2>1 DEF MeasureInv, ProgramsOnDisk, Range
  <2> QED BY <1>0, <2>1, <2>2 DEF MeasureInv, HistoryKept, BaselineIsMeasured, RunsMeasure
<1>3. ASSUME UNCHANGED vars
      PROVE  MeasureInv'
  BY <1>0, <1>3 DEF vars, world, MeasureInv, ProgramsOnDisk, HistoryKept, BaselineIsMeasured, RunsMeasure
<1> QED BY <1>1, <1>2, <1>3 DEF Next

LEMMA MeasureInvHolds == Spec => []MeasureInv
<1>1. MeasureInv /\ [Next]_vars => MeasureInv'
  BY MeasureNext
<1> QED BY MeasureInit, <1>1, PTL DEF Spec

\* A measurement whose predecessor was saved whole is judged by just that one,
\* whatever other runs measure and whichever are killed (load_baseline, save_baseline).
THEOREM GrowthSeen == Spec => []GrowthIsSeen
<1>1. ASSUME MeasureInv
      PROVE  GrowthIsSeen
  <2> SUFFICES ASSUME NEW p \in Procs, runs[p].pc = "done", runs[p].mode = "convergence",
                      runs[p].known \notin {None, 0}
               PROVE  runs[p].verdict =
                         IF DirUngoverned(runs[p].progs) > runs[p].known THEN "DIVERGING"
                         ELSE IF DirUngoverned(runs[p].progs) = runs[p].known THEN "stable"
                         ELSE "converging"
    BY DEF GrowthIsSeen
  <2>1. RunMeasures(runs[p])
    BY <1>1, RunFacts
  <2>2. /\ ArePrograms(runs[p].progs) /\ runs[p].known \in Nat \ {0}
        /\ runs[p].has = TRUE
        /\ runs[p].verdict = Verdict(runs[p].has, runs[p].known, DirUngoverned(runs[p].progs),
                                     DirTotal(runs[p].progs))
    BY <2>1 DEF RunMeasures
  <2>3. DirUngoverned(runs[p].progs) \in Nat
    BY <2>2, DirUngovernedType
  <2>4. PICK has, known, now, total :
           /\ has = runs[p].has /\ known = runs[p].known
           /\ now = DirUngoverned(runs[p].progs) /\ total = DirTotal(runs[p].progs)
    OBVIOUS
  <2>5. has = TRUE /\ known \in Nat \ {0} /\ now \in Nat /\ runs[p].verdict = Verdict(has, known, now, total)
    BY <2>2, <2>3, <2>4
  <2>6. /\ now > known => runs[p].verdict = "DIVERGING"
        /\ now = known => runs[p].verdict = "stable"
        /\ now < known => runs[p].verdict = "converging"
    BY <2>5 DEF Verdict, Fraction
  <2>7. now > known \/ now = known \/ now < known
    BY <2>5
  <2>8. now = known => ~(now > known)
    BY <2>5
  <2>9. now < known => ~(now > known) /\ now # known
    BY <2>5
  <2> QED BY <2>4, <2>6, <2>7, <2>8, <2>9, Zenon
<1> QED BY <1>1, MeasureInvHolds, PTL

\* What a ratio is compared with is not the ratio that came before but what was
\* printed of it.
LEMMA PrintedTells ==
  ASSUME NEW now, now.num \in Nat, now.den \in Nat \ {0},
         NEW old, old.num \in Nat, old.den \in Nat \ {0}, now.den * old.den < 20000
  PROVE  /\ Less(now, old) => Trend(now, Printed(old)) = "improving"
         /\ Less(old, now) => Trend(now, Printed(old)) = "worsening"
<1> DEFINE printed == Printed(old)
<1>1. /\ printed.den = 10000 /\ printed.num \in Nat
      /\ 2 * (old.den * printed.num) <= 20000 * old.num + old.den
      /\ 20000 * old.num - old.den < 2 * (old.den * printed.num)
  BY PrintedIsClose
<1> HIDE DEF printed
<1>2. ASSUME Less(now, old)
      PROVE  Trend(now, printed) = "improving"
  <2>1. now.num * old.den < old.num * now.den
    BY <1>2 DEF Less
  <2>2. now.num * 10000 < printed.num * now.den
    BY <1>1, <2>1, RoundedBelow
  <2> QED BY <1>1, <2>2 DEF Trend, Less
<1>3. ASSUME Less(old, now)
      PROVE  Trend(now, printed) = "worsening"
  <2>1. old.num * now.den < now.num * old.den
    BY <1>3 DEF Less
  <2>2. printed.num * now.den < now.num * 10000
    BY <1>1, <2>1, RoundedAbove
  <2>3. printed.num * now.den \in Nat /\ now.num * 10000 \in Nat
    BY <1>1
  <2>4. ~(now.num * 10000 < printed.num * now.den)
    BY <2>2, <2>3
  <2> QED BY <1>1, <2>2, <2>4 DEF Trend, Less
<1> QED BY <1>2, <1>3 DEF printed

\* Four decimals tell two ratios apart whose casts, multiplied, are less than
\* 20000 (convergence_save_history, convergence_load_prev_ratio).
THEOREM TrendTells == Spec => []TrendTellsDirection
<1>1. ASSUME MeasureInv
      PROVE  TrendTellsDirection
  <2> SUFFICES ASSUME NEW p \in Procs, runs[p].past # None,
                      Analyze(runs[p].prog.decls).ratio.den * runs[p].past.exact.den < 2 * Digits
               PROVE  /\ Less(Analyze(runs[p].prog.decls).ratio, runs[p].past.exact) =>
                            runs[p].trend = "improving"
                      /\ Less(runs[p].past.exact, Analyze(runs[p].prog.decls).ratio) =>
                            runs[p].trend = "worsening"
    BY DEF TrendTellsDirection
  <2>1. RunMeasures(runs[p])
    BY <1>1, RunFacts
  <2>2. /\ IsProgram(runs[p].prog) /\ IsLine(runs[p].past)
        /\ runs[p].trend = Trend(Analyze(runs[p].prog.decls).ratio, runs[p].past.printed)
    BY <2>1 DEF RunMeasures
  <2>3. /\ runs[p].past.exact.num \in Nat /\ runs[p].past.exact.den \in Nat \ {0}
        /\ runs[p].trend = Trend(Analyze(runs[p].prog.decls).ratio, Printed(runs[p].past.exact))
    BY <2>2 DEF IsLine
  <2>4. /\ Analyze(runs[p].prog.decls).ratio.num \in Nat
        /\ Analyze(runs[p].prog.decls).ratio.den \in Nat \ {0}
    BY <2>2, RatioType
  <2>5. Analyze(runs[p].prog.decls).ratio.den * runs[p].past.exact.den < 20000
    BY DEF Digits
  <2> QED BY <2>3, <2>4, <2>5, PrintedTells
<1> QED BY <1>1, MeasureInvHolds, PTL

------------------------------------------------------------------------------
(* Sequences put one after the other *)

AreSequences(ss) == IsSequence(ss) /\ \A k \in DOMAIN ss : IsSequence(ss[k])

\* How FlattenSeq comes to its result: by adding one sequence after the other.
Flattens(flat, ss) ==
  /\ flat[0] = <<>>
  /\ \A m \in Nat : m < Len(ss) => flat[m + 1] = flat[m] \o ss[m + 1]
  /\ \A m \in 0 .. Len(ss) : IsSequence(flat[m])
  /\ FlattenSeq(ss) = flat[Len(ss)]

\* r begins as s and goes on as t.
IsJoin(r, s, t) ==
  /\ DOMAIN r = 1 .. Len(s) + Len(t)
  /\ \A i \in 1 .. Len(s) : r[i] = s[i]
  /\ \A i \in 1 .. Len(t) : r[Len(s) + i] = t[i]
  /\ \A i \in 1 .. Len(s) + Len(t) : i \in 1 .. Len(s) \/ \E j \in 1 .. Len(t) : i = Len(s) + j

LEMMA JoinFacts ==
  ASSUME NEW s, IsSequence(s), NEW t, IsSequence(t)
  PROVE  IsSequence(s \o t) /\ IsJoin(s \o t, s, t)
<1> DEFINE A == Range(s) \cup Range(t)
<1>1. s \in Seq(A) /\ t \in Seq(A) /\ Len(s) \in Nat /\ Len(t) \in Nat
  <2>1. s \in Seq(Range(s)) /\ t \in Seq(Range(t))
    BY DEF IsSequence
  <2> HIDE DEF IsSequence
  <2> QED BY <2>1
<1> HIDE DEF A
<1>2. s \o t \in Seq(A)
  BY <1>1
<1>3. IsSequence(s \o t)
  BY <1>2, SequenceOf
<1>4. /\ Len(s \o t) = Len(s) + Len(t)
      /\ DOMAIN (s \o t) = 1 .. Len(s) + Len(t)
      /\ \A i \in 1 .. Len(s) + Len(t) :
            (s \o t)[i] = IF i <= Len(s) THEN s[i] ELSE t[i - Len(s)]
  BY <1>1
<1>5. ASSUME NEW i \in 1 .. Len(s)
      PROVE  (s \o t)[i] = s[i]
  BY <1>1, <1>4
<1>6. ASSUME NEW i \in 1 .. Len(t)
      PROVE  Len(s) + i \in 1 .. Len(s) + Len(t) /\ (s \o t)[Len(s) + i] = t[i]
  <2>1. Len(s) + i \in 1 .. Len(s) + Len(t) /\ ~(Len(s) + i <= Len(s)) /\ (Len(s) + i) - Len(s) = i
    BY <1>1
  <2> QED BY <1>4, <2>1
<1>7. ASSUME NEW i \in 1 .. Len(s) + Len(t), i \notin 1 .. Len(s)
      PROVE  \E j \in 1 .. Len(t) : i = Len(s) + j
  <2>1. i - Len(s) \in 1 .. Len(t) /\ i = Len(s) + (i - Len(s))
    BY <1>1, <1>7
  <2> QED BY <2>1
<1> QED BY <1>3, <1>4, <1>5, <1>6, <1>7 DEF IsJoin

LEMMA EmptyJoin ==
  ASSUME NEW s, IsSequence(s)
  PROVE  <<>> \o s = s
<1>1. s \in Seq(Range(s))
  BY DEF IsSequence
<1> QED BY <1>1

LEMMA Flattening ==
  ASSUME NEW ss, AreSequences(ss)
  PROVE  \E flat : Flattens(flat, ss)
<1> DEFINE n == Len(ss)
           Joins(f, m) == f = [i \in 1 .. m |-> IF i = 1 THEN ss[i] ELSE f[i - 1] \o ss[i]]
<1>1. n \in Nat /\ DOMAIN ss = 1 .. n /\ \A k \in 1 .. n : IsSequence(ss[k])
  BY SequenceFacts DEF AreSequences
<1>2. ASSUME n = 0
      PROVE  \E flat : Flattens(flat, ss)
  <2> DEFINE flat == [m \in {0} |-> <<>>]
  <2>1. ss = <<>>
    <3>1. ss \in Seq(Range(ss))
      BY DEF AreSequences, IsSequence
    <3> QED BY <1>2, <3>1
  <2>2. FlattenSeq(ss) = <<>>
    BY <1>2, <2>1 DEF FlattenSeq
  <2>3. Flattens(flat, ss)
    BY <1>2, <2>2, EmptyIsSequence DEF Flattens
  <2> QED BY <2>3
<1>3. ASSUME n # 0
      PROVE  \E flat : Flattens(flat, ss)
  <2>1. \E f : Joins(f, n)
    <3> DEFINE T == {m \in Nat : \E f : Joins(f, m)}
    <3>1. 0 \in T
      <4> DEFINE g == [i \in 1 .. 0 |-> <<>>]
      <4>1. g = [i \in 1 .. 0 |-> IF i = 1 THEN ss[i] ELSE g[i - 1] \o ss[i]]
        OBVIOUS
      <4> QED BY <4>1
    <3>2. ASSUME NEW m \in Nat, m \in T
          PROVE  m + 1 \in T
      <4>1. PICK f : f = [i \in 1 .. m |-> IF i = 1 THEN ss[i] ELSE f[i - 1] \o ss[i]]
        BY <3>2
      <4> DEFINE last == IF m = 0 THEN ss[1] ELSE f[m] \o ss[m + 1]
                 g == [i \in 1 .. m + 1 |-> IF i = m + 1 THEN last ELSE f[i]]
      <4>2. ASSUME NEW i \in 1 .. m + 1
            PROVE  g[i] = IF i = 1 THEN ss[i] ELSE g[i - 1] \o ss[i]
        <5>1. CASE i = m + 1 /\ m = 0
          BY <5>1
        <5>2. CASE i = m + 1 /\ m # 0
          <6>1. i # 1 /\ i - 1 = m /\ m \in 1 .. m + 1 /\ m # m + 1
            BY <5>2
          <6>2. g[i] = f[m] \o ss[i] /\ g[m] = f[m]
            BY <5>2, <6>1
          <6> HIDE DEF g
          <6>3. g[i] = g[i - 1] \o ss[i]
            BY <6>1, <6>2
          <6> QED BY <6>1, <6>3
        <5>3. CASE i # m + 1
          <6>1. i \in 1 .. m /\ (i # 1 => i - 1 \in 1 .. m /\ i - 1 # m + 1)
            BY <5>3
          <6>2. f[i] = IF i = 1 THEN ss[i] ELSE f[i - 1] \o ss[i]
            BY <4>1, <6>1
          <6>3. g[i] = f[i] /\ (i # 1 => g[i - 1] = f[i - 1])
            BY <6>1, <5>3
          <6> HIDE DEF g
          <6>4. CASE i = 1
            BY <6>2, <6>3, <6>4
          <6>5. CASE i # 1
            <7>1. f[i] = f[i - 1] \o ss[i]
              BY <6>2, <6>5
            <7>2. g[i] = g[i - 1] \o ss[i]
              BY <6>3, <6>5, <7>1
            <7> QED BY <6>5, <7>2
          <6> QED BY <6>4, <6>5
        <5> QED BY <5>1, <5>2, <5>3
      <4>3. g = [i \in 1 .. m + 1 |-> IF i = 1 THEN ss[i] ELSE g[i - 1] \o ss[i]]
        BY <4>2
      <4>4. Joins(g, m + 1)
        BY <4>3
      <4> HIDE DEF g, Joins
      <4>5. \E h : Joins(h, m + 1)
        BY <4>4
      <4> QED BY <4>5
    <3>3. Nat \subseteq T
      BY <3>1, <3>2, SetInduction
    <3> QED BY <1>1, <3>3
  <2> DEFINE flatten == CHOOSE f : Joins(f, n)
  <2>2. flatten = [i \in 1 .. n |-> IF i = 1 THEN ss[i] ELSE flatten[i - 1] \o ss[i]]
    BY <2>1
  <2>3. FlattenSeq(ss) = flatten[n]
    BY <1>3 DEF FlattenSeq
  <2> HIDE DEF flatten
  <2> DEFINE flat == [m \in 0 .. n |-> IF m = 0 THEN <<>> ELSE flatten[m]]
  <2>4. ASSUME NEW m \in Nat, m < n
        PROVE  flat[m + 1] = flat[m] \o ss[m + 1]
    <3>1. m + 1 \in 1 .. n /\ m + 1 \in 0 .. n /\ m \in 0 .. n /\ m + 1 # 0
      BY <1>1, <2>4
    <3>2. CASE m = 0
      <4>1. flat[m + 1] = ss[1] /\ flat[m] = <<>> /\ 1 \in 1 .. n
        BY <2>2, <3>1, <3>2
      <4> HIDE DEF flat
      <4> QED BY <1>1, <3>2, <4>1, EmptyJoin
    <3>3. CASE m # 0
      <4>1. m + 1 # 1 /\ (m + 1) - 1 = m
        BY <3>3
      <4>2. flatten[m + 1] = flatten[m] \o ss[m + 1]
        BY <2>2, <3>1, <4>1
      <4>3. flat[m + 1] = flatten[m + 1] /\ flat[m] = flatten[m]
        BY <3>1, <3>3
      <4> HIDE DEF flat
      <4> QED BY <4>2, <4>3
    <3> QED BY <3>2, <3>3
  <2>5. flat[0] = <<>> /\ FlattenSeq(ss) = flat[n]
    BY <1>1, <1>3, <2>3
  <2> HIDE DEF flat
  <2>6. ASSUME NEW m \in 0 .. n
        PROVE  IsSequence(flat[m])
    <3> DEFINE T == {k \in Nat : k <= n => IsSequence(flat[k])}
    <3>1. 0 \in T
      BY <2>5, EmptyIsSequence
    <3>2. ASSUME NEW k \in Nat, k \in T
          PROVE  k + 1 \in T
      <4> SUFFICES ASSUME k + 1 <= n
                   PROVE  IsSequence(flat[k + 1])
        BY DEF T
      <4>1. k < n /\ k + 1 \in 1 .. n
        BY <1>1
      <4>2. IsSequence(flat[k])
        BY <1>1, <3>2, <4>1
      <4>3. flat[k + 1] = flat[k] \o ss[k + 1]
        BY <2>4, <4>1
      <4>4. IsSequence(flat[k]) /\ IsSequence(ss[k + 1]) /\ flat[k + 1] = flat[k] \o ss[k + 1]
        BY <1>1, <4>1, <4>2, <4>3
      <4>5. IsSequence(flat[k] \o ss[k + 1])
        BY <4>4, JoinFacts
      <4> QED BY <4>4, <4>5
    <3>3. Nat \subseteq T
      <4> HIDE DEF T
      <4> QED BY <3>1, <3>2, SetInduction
    <3> QED BY <1>1, <3>3
  <2>7. Flattens(flat, ss)
    BY <2>4, <2>5, <2>6 DEF Flattens
  <2> QED BY <2>7
<1> QED BY <1>2, <1>3

\* What holds of every pair of elements holds of the pairs in the results.
LEMMA FlattenRelated ==
  ASSUME NEW ss, AreSequences(ss), NEW rr, AreSequences(rr), Len(rr) = Len(ss), NEW R,
         \A k \in DOMAIN ss :
            /\ DOMAIN rr[k] = DOMAIN ss[k]
            /\ \A i \in DOMAIN ss[k] : <<ss[k][i], rr[k][i]>> \in R
  PROVE  /\ IsSequence(FlattenSeq(ss)) /\ IsSequence(FlattenSeq(rr))
         /\ DOMAIN FlattenSeq(rr) = DOMAIN FlattenSeq(ss)
         /\ \A j \in DOMAIN FlattenSeq(ss) : <<FlattenSeq(ss)[j], FlattenSeq(rr)[j]>> \in R
<1>1. PICK f : Flattens(f, ss)
  BY Flattening
<1>2. PICK g : Flattens(g, rr)
  BY Flattening
<1>3. Len(ss) \in Nat /\ DOMAIN ss = 1 .. Len(ss) /\ DOMAIN rr = 1 .. Len(ss)
  BY SequenceFacts DEF AreSequences
<1> DEFINE Related(s, r) == DOMAIN r = DOMAIN s /\ \A j \in DOMAIN s : <<s[j], r[j]>> \in R
           T == {m \in Nat : m <= Len(ss) => Related(f[m], g[m])}
<1>4. 0 \in T
  BY <1>1, <1>2, EmptyIsSequence DEF Flattens
<1>5. ASSUME NEW m \in Nat, m \in T
      PROVE  m + 1 \in T
  <2> SUFFICES ASSUME m + 1 <= Len(ss)
               PROVE  Related(f[m + 1], g[m + 1])
    OBVIOUS
  <2>1. m < Len(ss) /\ m + 1 \in 1 .. Len(ss) /\ m \in 0 .. Len(ss) /\ m <= Len(ss)
    BY <1>3
  <2>2. Related(f[m], g[m]) /\ Related(ss[m + 1], rr[m + 1])
    BY <1>3, <1>5, <2>1
  <2>3. f[m + 1] = f[m] \o ss[m + 1] /\ IsSequence(f[m]) /\ IsSequence(ss[m + 1])
    BY <1>1, <1>3, <2>1 DEF Flattens, AreSequences
  <2>4. g[m + 1] = g[m] \o rr[m + 1] /\ IsSequence(g[m]) /\ IsSequence(rr[m + 1])
    BY <1>2, <1>3, <2>1 DEF Flattens, AreSequences
  <2> HIDE DEF T
  <2>5. ASSUME NEW s, NEW t, NEW r, NEW q, IsSequence(s), IsSequence(t), IsSequence(r), IsSequence(q),
               Related(s, r), Related(t, q)
        PROVE  Related(s \o t, r \o q)
    <3>1. /\ Len(s) \in Nat /\ DOMAIN s = 1 .. Len(s) /\ Len(t) \in Nat /\ DOMAIN t = 1 .. Len(t)
          /\ Len(r) \in Nat /\ DOMAIN r = 1 .. Len(r) /\ Len(q) \in Nat /\ DOMAIN q = 1 .. Len(q)
      BY <2>5, SequenceFacts
    <3>2. Len(r) = Len(s) /\ Len(q) = Len(t)
      BY <2>5, <3>1
    <3>3. /\ DOMAIN (s \o t) = 1 .. Len(s) + Len(t)
          /\ \A i \in 1 .. Len(s) : (s \o t)[i] = s[i]
          /\ \A i \in 1 .. Len(t) : (s \o t)[Len(s) + i] = t[i]
          /\ \A i \in 1 .. Len(s) + Len(t) : i \in 1 .. Len(s) \/ \E j \in 1 .. Len(t) : i = Len(s) + j
      BY <2>5, JoinFacts DEF IsJoin
    <3>4. /\ DOMAIN (r \o q) = 1 .. Len(r) + Len(q)
          /\ \A i \in 1 .. Len(r) : (r \o q)[i] = r[i]
          /\ \A i \in 1 .. Len(q) : (r \o q)[Len(r) + i] = q[i]
      BY <2>5, JoinFacts DEF IsJoin
    <3>5. DOMAIN (r \o q) = DOMAIN (s \o t)
      BY <3>2, <3>3, <3>4
    <3>6. ASSUME NEW j \in DOMAIN (s \o t)
          PROVE  <<(s \o t)[j], (r \o q)[j]>> \in R
      <4>1. CASE j \in 1 .. Len(s)
        BY <2>5, <3>1, <3>2, <3>3, <3>4, <4>1
      <4>2. CASE \E i \in 1 .. Len(t) : j = Len(s) + i
        <5>1. PICK i \in 1 .. Len(t) : j = Len(s) + i
          BY <4>2
        <5>2. (s \o t)[j] = t[i] /\ (r \o q)[j] = q[i]
          BY <3>2, <3>3, <3>4, <5>1
        <5> QED BY <2>5, <3>1, <5>2
      <4> QED BY <3>3, <4>1, <4>2
    <3> QED BY <3>5, <3>6
  <2> HIDE DEF Related
  <2> QED BY <2>2, <2>3, <2>4, <2>5
<1>6. Len(ss) \in T
  <2> HIDE DEF T
  <2> QED BY <1>3, <1>4, <1>5, SetInduction
<1>7. Related(f[Len(ss)], g[Len(ss)])
  BY <1>3, <1>6
<1>8. f[Len(ss)] = FlattenSeq(ss) /\ g[Len(ss)] = FlattenSeq(rr)
  BY <1>1, <1>2 DEF Flattens
<1>9. IsSequence(f[Len(ss)]) /\ IsSequence(g[Len(ss)])
  BY <1>1, <1>2, <1>3 DEF Flattens
<1> QED BY <1>7, <1>8, <1>9

IsFirst(s, T, j) == j \in DOMAIN s /\ s[j] \in T /\ \A i \in DOMAIN s : i < j => s[i] \notin T
IsWithout(s, T) == \A i \in DOMAIN s : s[i] \notin T

\* The first element of a kind in the result is the first of one of the sequences.
LEMMA FlattenFirst ==
  ASSUME NEW ss, AreSequences(ss), NEW T
  PROVE  \/ IsWithout(FlattenSeq(ss), T) /\ \A k \in DOMAIN ss : IsWithout(ss[k], T)
         \/ \E k \in DOMAIN ss : \E i \in DOMAIN ss[k] : \E j \in DOMAIN FlattenSeq(ss) :
               IsFirst(FlattenSeq(ss), T, j) /\ IsFirst(ss[k], T, i) /\ FlattenSeq(ss)[j] = ss[k][i]
<1>1. PICK f : Flattens(f, ss)
  BY Flattening
<1>2. Len(ss) \in Nat /\ DOMAIN ss = 1 .. Len(ss)
  BY SequenceFacts DEF AreSequences
<1> DEFINE Without(s, m) == IsWithout(s, T) /\ \A k \in 1 .. m : IsWithout(ss[k], T)
           First(s, m) == \E k \in 1 .. m : \E i, j : IsFirst(s, T, j) /\ IsFirst(ss[k], T, i) /\ s[j] = ss[k][i]
           N == {m \in Nat : m <= Len(ss) => Without(f[m], m) \/ First(f[m], m)}
<1>3. 0 \in N
  BY <1>1, EmptyIsSequence DEF Flattens, IsWithout
<1>4. ASSUME NEW m \in Nat, m \in N
      PROVE  m + 1 \in N
  <2> SUFFICES ASSUME m + 1 <= Len(ss)
               PROVE  Without(f[m + 1], m + 1) \/ First(f[m + 1], m + 1)
    <3> HIDE DEF Without, First
    <3> QED OBVIOUS
  <2>1. m < Len(ss) /\ m + 1 \in 1 .. Len(ss) /\ m \in 0 .. Len(ss) /\ m <= Len(ss)
    BY <1>2
  <2>2. Without(f[m], m) \/ First(f[m], m)
    BY <1>4, <2>1
  <2>3. f[m + 1] = f[m] \o ss[m + 1] /\ IsSequence(f[m]) /\ IsSequence(ss[m + 1])
    BY <1>1, <1>2, <2>1 DEF Flattens, AreSequences
  <2>13. IsJoin(f[m + 1], f[m], ss[m + 1])
    BY <2>3, JoinFacts
  <2> DEFINE s == f[m]
             t == ss[m + 1]
             r == f[m + 1]
  <2>4. /\ Len(s) \in Nat /\ DOMAIN s = 1 .. Len(s) /\ Len(t) \in Nat /\ DOMAIN t = 1 .. Len(t)
    BY <2>3, SequenceFacts
  <2>5. /\ DOMAIN r = 1 .. Len(s) + Len(t)
        /\ \A i \in 1 .. Len(s) : r[i] = s[i]
        /\ \A i \in 1 .. Len(t) : r[Len(s) + i] = t[i]
        /\ \A i \in 1 .. Len(s) + Len(t) : i \in 1 .. Len(s) \/ \E j \in 1 .. Len(t) : i = Len(s) + j
    BY <2>13 DEF IsJoin
  <2>6. \A k \in 1 .. m + 1 : k \in 1 .. m \/ k = m + 1
    OBVIOUS
  <2>7. \A k \in 1 .. m : k \in 1 .. m + 1
    OBVIOUS
  <2>8. m + 1 \in 1 .. m + 1
    OBVIOUS
  <2> HIDE DEF N, s, r
  <2>9. CASE First(s, m)
    <3>5. PICK k \in 1 .. m : \E i, j : IsFirst(s, T, j) /\ IsFirst(ss[k], T, i) /\ s[j] = ss[k][i]
      BY <2>9
    <3>1. PICK i, j : IsFirst(s, T, j) /\ IsFirst(ss[k], T, i) /\ s[j] = ss[k][i]
      BY <3>5
    <3>2. IsFirst(r, T, j)
      <4>1. j \in 1 .. Len(s) /\ j \in 1 .. Len(s) + Len(t) /\ r[j] = s[j] /\ s[j] \in T
        BY <2>4, <2>5, <3>1 DEF IsFirst
      <4>2. ASSUME NEW i2 \in 1 .. Len(s) + Len(t), i2 < j
            PROVE  r[i2] \notin T
        <5>1. i2 \in 1 .. Len(s)
          BY <2>4, <4>1, <4>2
        <5> QED BY <2>4, <2>5, <3>1, <4>2, <5>1 DEF IsFirst
      <4> QED BY <2>5, <4>1, <4>2 DEF IsFirst
    <3>3. r[j] = ss[k][i]
      BY <2>4, <2>5, <3>1 DEF IsFirst
    <3>4. First(r, m + 1)
      BY <2>7, <3>1, <3>2, <3>3, <3>5
    <3> QED BY <3>4 DEF r
  <2>10. CASE Without(s, m) /\ IsWithout(t, T)
    <3>1. IsWithout(r, T)
      <4> SUFFICES ASSUME NEW i \in 1 .. Len(s) + Len(t)
                   PROVE  r[i] \notin T
        BY <2>5 DEF IsWithout
      <4>1. CASE i \in 1 .. Len(s)
        BY <2>4, <2>5, <2>10, <4>1 DEF IsWithout
      <4>2. CASE \E j \in 1 .. Len(t) : i = Len(s) + j
        BY <2>4, <2>5, <2>10, <4>2 DEF IsWithout
      <4> QED BY <2>5, <4>1, <4>2
    <3>2. \A k \in 1 .. m + 1 : IsWithout(ss[k], T)
      BY <2>6, <2>10
    <3> QED BY <3>1, <3>2 DEF r
  <2>11. CASE Without(s, m) /\ ~IsWithout(t, T)
    <3>1. PICK i \in {x \in DOMAIN t : t[x] \in T} : \A x \in {y \in DOMAIN t : t[y] \in T} : i <= x
      <4>1. {x \in DOMAIN t : t[x] \in T} \in SUBSET Nat
        BY <2>4
      <4>2. {x \in DOMAIN t : t[x] \in T} # {}
        BY <2>11 DEF IsWithout
      <4> HIDE DEF t
      <4> QED BY <4>1, <4>2, Least
    <3>2. i \in 1 .. Len(t) /\ t[i] \in T /\ \A x \in 1 .. Len(t) : x < i => t[x] \notin T
      BY <2>4, <3>1
    <3>3. IsFirst(t, T, i)
      BY <2>4, <3>2 DEF IsFirst
    <3>4. IsFirst(r, T, Len(s) + i)
      <4>1. Len(s) + i \in 1 .. Len(s) + Len(t) /\ r[Len(s) + i] = t[i]
        BY <2>4, <2>5, <3>2
      <4>2. ASSUME NEW x \in 1 .. Len(s) + Len(t), x < Len(s) + i
            PROVE  r[x] \notin T
        <5>1. CASE x \in 1 .. Len(s)
          BY <2>4, <2>5, <2>11, <5>1 DEF IsWithout
        <5>2. CASE \E y \in 1 .. Len(t) : x = Len(s) + y
          <6>1. PICK y \in 1 .. Len(t) : x = Len(s) + y
            BY <5>2
          <6>2. y < i
            BY <2>4, <3>2, <4>2, <6>1
          <6> QED BY <2>5, <3>2, <6>1, <6>2
        <5> QED BY <2>5, <5>1, <5>2
      <4> QED BY <2>5, <3>2, <4>1, <4>2 DEF IsFirst
    <3>5. r[Len(s) + i] = ss[m + 1][i]
      BY <2>5, <3>2
    <3>6. First(r, m + 1)
      BY <2>8, <3>3, <3>4, <3>5
    <3> QED BY <3>6 DEF r
  <2>12. Without(s, m) \/ First(s, m)
    BY <2>2 DEF s
  <2> QED BY <2>9, <2>10, <2>11, <2>12
<1>5. Len(ss) \in N
  <2> HIDE DEF N
  <2> QED BY <1>2, <1>3, <1>4, SetInduction
<1>6. Without(f[Len(ss)], Len(ss)) \/ First(f[Len(ss)], Len(ss))
  BY <1>2, <1>5
<1>7. f[Len(ss)] = FlattenSeq(ss)
  BY <1>1 DEF Flattens
<1>8. CASE Without(FlattenSeq(ss), Len(ss))
  BY <1>2, <1>8
<1>9. CASE First(FlattenSeq(ss), Len(ss))
  <2>1. PICK k \in 1 .. Len(ss) :
           \E i, j : IsFirst(FlattenSeq(ss), T, j) /\ IsFirst(ss[k], T, i) /\ FlattenSeq(ss)[j] = ss[k][i]
    BY <1>9
  <2>2. PICK i, j : IsFirst(FlattenSeq(ss), T, j) /\ IsFirst(ss[k], T, i) /\ FlattenSeq(ss)[j] = ss[k][i]
    BY <2>1
  <2>3. i \in DOMAIN ss[k] /\ j \in DOMAIN FlattenSeq(ss)
    BY <2>2 DEF IsFirst
  <2> QED BY <1>2, <2>2, <2>3
<1> QED BY <1>6, <1>7, <1>8, <1>9

\* The elements of the result are those of the sequences.
LEMMA FlattenRange ==
  ASSUME NEW ss, AreSequences(ss)
  PROVE  /\ IsSequence(FlattenSeq(ss))
         /\ \A j \in DOMAIN FlattenSeq(ss) : \E k \in DOMAIN ss : FlattenSeq(ss)[j] \in Range(ss[k])
         /\ \A k \in DOMAIN ss : \A i \in DOMAIN ss[k] : ss[k][i] \in Range(FlattenSeq(ss))
<1>1. IsSequence(FlattenSeq(ss))
  <2>1. PICK f : Flattens(f, ss)
    BY Flattening
  <2>2. Len(ss) \in 0 .. Len(ss)
    BY SequenceFacts DEF AreSequences
  <2> QED BY <2>1, <2>2 DEF Flattens
<1>2. ASSUME NEW j \in DOMAIN FlattenSeq(ss)
      PROVE  \E k \in DOMAIN ss : FlattenSeq(ss)[j] \in Range(ss[k])
  <2> DEFINE T == {FlattenSeq(ss)[j]}
  <2>1. ~IsWithout(FlattenSeq(ss), T)
    BY DEF IsWithout
  <2>2. PICK k \in DOMAIN ss : \E i \in DOMAIN ss[k] : IsFirst(ss[k], T, i)
    BY <2>1, FlattenFirst
  <2>3. PICK i \in DOMAIN ss[k] : ss[k][i] = FlattenSeq(ss)[j]
    BY <2>2 DEF IsFirst
  <2>4. FlattenSeq(ss)[j] \in Range(ss[k])
    BY <2>3 DEF Range
  <2> QED BY <2>4
<1>3. ASSUME NEW k \in DOMAIN ss, NEW i \in DOMAIN ss[k]
      PROVE  ss[k][i] \in Range(FlattenSeq(ss))
  <2> DEFINE T == {ss[k][i]}
  <2>1. ~IsWithout(ss[k], T)
    BY DEF IsWithout
  <2>2. PICK j \in DOMAIN FlattenSeq(ss) : IsFirst(FlattenSeq(ss), T, j)
    BY <2>1, FlattenFirst
  <2>3. FlattenSeq(ss)[j] = ss[k][i]
    BY <2>2 DEF IsFirst
  <2> QED BY <2>3 DEF Range
<1> QED BY <1>1, <1>2, <1>3

LEMMA KeptFacts ==
  ASSUME NEW s, IsSequence(s), NEW T
  PROVE  IsSequence(Kept(s, T)) /\ Range(Kept(s, T)) = Range(s) \cap T
<1> DEFINE ss == [i \in DOMAIN s |-> IF s[i] \in T THEN <<s[i]>> ELSE <<>>]
<1>1. ASSUME NEW i \in DOMAIN s
      PROVE  IsSequence(ss[i]) /\ Range(ss[i]) = {s[i]} \cap T
  <2>1. CASE s[i] \in T
    <3>1. ss[i] = <<s[i]>> /\ <<s[i]>> \in Seq({s[i]}) /\ DOMAIN <<s[i]>> = {1}
      BY <2>1
    <3>2. IsSequence(ss[i])
      BY <3>1, SequenceOf
    <3> QED BY <2>1, <3>1, <3>2 DEF Range
  <2>2. CASE s[i] \notin T
    BY <2>2, EmptyIsSequence DEF Range
  <2> QED BY <2>1, <2>2
<1>2. DOMAIN ss = DOMAIN s /\ IsSequence(ss)
  BY MapsSequence
<1>3. Kept(s, T) = FlattenSeq(ss)
  BY DEF Kept
<1> HIDE DEF ss
<1>4. AreSequences(ss)
  BY <1>1, <1>2 DEF AreSequences
<1>5. ASSUME NEW x \in Range(FlattenSeq(ss))
      PROVE  x \in Range(s) \cap T
  <2>1. PICK j \in DOMAIN FlattenSeq(ss) : x = FlattenSeq(ss)[j]
    BY DEF Range
  <2>2. PICK k \in DOMAIN s : x \in Range(ss[k])
    BY <1>2, <1>4, <2>1, FlattenRange
  <2> QED BY <1>1, <2>2 DEF Range
<1>6. ASSUME NEW x \in Range(s) \cap T
      PROVE  x \in Range(FlattenSeq(ss))
  <2>1. PICK k \in DOMAIN s : x = s[k]
    BY DEF Range
  <2>2. x \in Range(ss[k])
    BY <1>1, <2>1
  <2>3. PICK i \in DOMAIN ss[k] : x = ss[k][i]
    BY <2>2 DEF Range
  <2> QED BY <1>2, <1>4, <2>3, FlattenRange
<1> QED BY <1>3, <1>4, <1>5, <1>6, FlattenRange

\* What SelectInSeq returns when it looks for elements of T.
Picked(s, T) ==
  LET I == {i \in 1 .. Len(s) : s[i] \in T} IN IF I # {} THEN Min(I) ELSE 0

LEMMA PicksFirst ==
  ASSUME NEW s, IsSequence(s), NEW T
  PROVE  /\ IsWithout(s, T) => Picked(s, T) = 0
         /\ \A j : IsFirst(s, T, j) => Picked(s, T) = j /\ j # 0
<1> DEFINE I == {i \in 1 .. Len(s) : s[i] \in T}
<1>1. Len(s) \in Nat /\ DOMAIN s = 1 .. Len(s) /\ I \subseteq 1 .. Len(s)
  BY SequenceFacts
<1>2. Picked(s, T) = IF I # {} THEN Min(I) ELSE 0
  BY DEF Picked
<1>3. ASSUME IsWithout(s, T)
      PROVE  Picked(s, T) = 0
  <2>1. I = {}
    BY <1>1, <1>3 DEF IsWithout
  <2> HIDE DEF I
  <2> QED BY <1>2, <2>1
<1>4. ASSUME NEW j, IsFirst(s, T, j)
      PROVE  Picked(s, T) = j /\ j # 0
  <2>1. j \in I /\ \A i \in I : ~(i < j)
    BY <1>1, <1>4 DEF IsFirst
  <2> HIDE DEF I
  <2>2. \A i \in I : i \in Nat
    BY <1>1
  <2>3. \A i \in I : j <= i
    BY <2>1, <2>2
  <2>4. \A i \in I : (\A k \in I : i <= k) => i = j
    BY <2>1, <2>2, <2>3
  <2>5. Min(I) = j
    BY <2>1, <2>3, <2>4 DEF Min
  <2>6. j # 0
    BY <1>1, <2>1
  <2> QED BY <1>2, <2>1, <2>5, <2>6
<1> QED BY <1>3, <1>4

LEMMA Picks ==
  ASSUME NEW s, IsSequence(s), NEW T
  PROVE  \/ IsWithout(s, T) /\ Picked(s, T) = 0
         \/ Picked(s, T) \in DOMAIN s /\ IsFirst(s, T, Picked(s, T)) /\ Picked(s, T) # 0
<1>1. Len(s) \in Nat /\ DOMAIN s = 1 .. Len(s)
  BY SequenceFacts
<1>2. CASE IsWithout(s, T)
  BY <1>2, PicksFirst
<1>3. CASE ~IsWithout(s, T)
  <2> DEFINE J == {x \in DOMAIN s : s[x] \in T}
  <2>1. J \in SUBSET Nat /\ J # {}
    BY <1>1, <1>3 DEF IsWithout
  <2>2. PICK j \in J : \A x \in J : j <= x
    <3> HIDE DEF J
    <3> QED BY <2>1, Least
  <2>3. IsFirst(s, T, j)
    BY <1>1, <2>2 DEF IsFirst
  <2> QED BY <2>3, PicksFirst DEF IsFirst
<1> QED BY <1>2, <1>3

\* What is picked from the result is what is picked from one of the sequences.
LEMMA FlattenPicks ==
  ASSUME NEW ss, AreSequences(ss), NEW T
  PROVE  \/ Picked(FlattenSeq(ss), T) = 0 /\ \A k \in DOMAIN ss : Picked(ss[k], T) = 0
         \/ /\ Picked(FlattenSeq(ss), T) # 0
            /\ \E k \in DOMAIN ss :
                  /\ Picked(ss[k], T) # 0
                  /\ FlattenSeq(ss)[Picked(FlattenSeq(ss), T)] = ss[k][Picked(ss[k], T)]
<1>1. IsSequence(FlattenSeq(ss)) /\ \A k \in DOMAIN ss : IsSequence(ss[k])
  BY FlattenRange DEF AreSequences
<1>2. CASE IsWithout(FlattenSeq(ss), T) /\ \A k \in DOMAIN ss : IsWithout(ss[k], T)
  BY <1>1, <1>2, PicksFirst
<1>3. CASE \E k \in DOMAIN ss : \E i \in DOMAIN ss[k] : \E j \in DOMAIN FlattenSeq(ss) :
              IsFirst(FlattenSeq(ss), T, j) /\ IsFirst(ss[k], T, i) /\ FlattenSeq(ss)[j] = ss[k][i]
  <2>1. PICK k \in DOMAIN ss : \E i \in DOMAIN ss[k] : \E j \in DOMAIN FlattenSeq(ss) :
              IsFirst(FlattenSeq(ss), T, j) /\ IsFirst(ss[k], T, i) /\ FlattenSeq(ss)[j] = ss[k][i]
    BY <1>3
  <2>2. PICK i \in DOMAIN ss[k], j \in DOMAIN FlattenSeq(ss) :
              IsFirst(FlattenSeq(ss), T, j) /\ IsFirst(ss[k], T, i) /\ FlattenSeq(ss)[j] = ss[k][i]
    BY <2>1
  <2>3. Picked(FlattenSeq(ss), T) = j /\ j # 0 /\ Picked(ss[k], T) = i /\ i # 0
    BY <1>1, <2>2, PicksFirst
  <2> QED BY <2>2, <2>3
<1> QED BY <1>2, <1>3, FlattenFirst

------------------------------------------------------------------------------
(* What is said of a declaration and the merged scans is said of one of them *)

AreScans(scans) == IsSequence(scans) /\ \A k \in DOMAIN scans : IsScan(scans[k])

\* Of the merged scans e is said, of the k-th of them said[k].
Witnessed(e, said) ==
  \/ e.status = "ordbok_only" /\ \A k \in DOMAIN said : said[k] = e
  \/ e.status # "ordbok_only" /\ \E k \in DOMAIN said : said[k] = e

\* What a comparison says that looks for an element of T.
Answer(s, T, none, F) == IF Picked(s, T) = 0 THEN none ELSE F[s[Picked(s, T)]]

LEMMA AnswerWitnessed ==
  ASSUME NEW ss, AreSequences(ss), NEW T, NEW none, NEW F, NEW e, NEW said,
         none.status = "ordbok_only", \A x \in T : F[x].status # "ordbok_only",
         e = Answer(FlattenSeq(ss), T, none, F), DOMAIN said = DOMAIN ss,
         \A k \in DOMAIN ss : said[k] = Answer(ss[k], T, none, F)
  PROVE  Witnessed(e, said)
<1>1. CASE Picked(FlattenSeq(ss), T) = 0 /\ \A k \in DOMAIN ss : Picked(ss[k], T) = 0
  <2>1. e = none /\ \A k \in DOMAIN said : said[k] = none
    BY <1>1 DEF Answer
  <2> QED BY <2>1 DEF Witnessed
<1>2. CASE /\ Picked(FlattenSeq(ss), T) # 0
           /\ \E k \in DOMAIN ss :
                 /\ Picked(ss[k], T) # 0
                 /\ FlattenSeq(ss)[Picked(FlattenSeq(ss), T)] = ss[k][Picked(ss[k], T)]
  <2>1. PICK k \in DOMAIN ss :
               /\ Picked(ss[k], T) # 0
               /\ FlattenSeq(ss)[Picked(FlattenSeq(ss), T)] = ss[k][Picked(ss[k], T)]
    BY <1>2
  <2>2. e = F[FlattenSeq(ss)[Picked(FlattenSeq(ss), T)]] /\ said[k] = F[ss[k][Picked(ss[k], T)]]
    BY <1>2, <2>1 DEF Answer
  <2>3. said[k] = e
    BY <2>1, <2>2
  <2>4. IsSequence(ss[k])
    BY DEF AreSequences
  <2>5. ss[k][Picked(ss[k], T)] \in T
    BY <2>1, <2>4, Picks DEF IsFirst
  <2>6. e.status # "ordbok_only"
    BY <2>2, <2>3, <2>5
  <2> QED BY <2>3, <2>6 DEF Witnessed
<1> QED BY <1>1, <1>2, FlattenPicks

\* The parts of the merged scans.
LEMMA MergedParts ==
  ASSUME NEW scans, AreScans(scans)
  PROVE  LET cs == [k \in DOMAIN scans |-> scans[k].consts]
             ws == [k \in DOMAIN scans |-> scans[k].switches]
             fs == [k \in DOMAIN scans |-> scans[k].functions]
             merged == MergeScans(scans)
         IN  /\ AreSequences(cs) /\ AreSequences(ws) /\ AreSequences(fs)
             /\ merged.consts = FlattenSeq(cs)
             /\ merged.switches = FlattenSeq(ws)
             /\ merged.functions = FlattenSeq(fs)
<1> DEFINE cs == [k \in DOMAIN scans |-> scans[k].consts]
           ws == [k \in DOMAIN scans |-> scans[k].switches]
           fs == [k \in DOMAIN scans |-> scans[k].functions]
<1>1. IsSequence(cs) /\ IsSequence(ws) /\ IsSequence(fs)
  BY MapsSequence DEF AreScans
<1>2. AreSequences(cs) /\ AreSequences(ws) /\ AreSequences(fs)
  BY <1>1 DEF AreSequences, AreScans, IsScan
<1>3. /\ MergeScans(scans).consts = FlattenSeq(cs)
      /\ MergeScans(scans).switches = FlattenSeq(ws)
      /\ MergeScans(scans).functions = FlattenSeq(fs)
  BY DEF MergeScans
<1> QED BY <1>2, <1>3

NotFound(d) == Entry(d, "ordbok_only", Fraction(1, 1))

\* The constants that a kinded value may be compared with, and what is said then.
Named(d, found) == {x \in found : Called(d, x.name)}
ValueEntry(d, c) ==
  IF None \in {d.value, c.value} THEN Entry(d, "matched", Fraction(1, 10))
  ELSE IF d.value = c.value THEN Entry(d, "matched", Fraction(0, 1))
  ELSE Entry(d, "diverged", Fraction(1, 1))

LEMMA XiAnswer ==
  ASSUME NEW d, NEW scan, IsScan(scan), NEW U, Range(scan.consts) \subseteq U
  PROVE  CompareXiConst(d, scan) =
            Answer(scan.consts, Named(d, U), NotFound(d), [c \in Named(d, U) |-> ValueEntry(d, c)])
<1> DEFINE s == scan.consts
           T == Named(d, U)
           j == Picked(s, T)
<1>1. IsSequence(s)
  BY DEF IsScan
<1>2. Len(s) \in Nat /\ DOMAIN s = 1 .. Len(s)
  BY <1>1, SequenceFacts
<1>3. {i \in 1 .. Len(s) : Called(d, s[i].name)} = {i \in 1 .. Len(s) : s[i] \in T}
  BY <1>2 DEF Named, Range
<1>4. SelectInSeq(s, LAMBDA c : Called(d, c.name)) = j
  BY <1>3 DEF SelectInSeq, Picked
<1>5. CompareXiConst(d, scan) = IF j = 0 THEN NotFound(d) ELSE ValueEntry(d, s[j])
  BY <1>4 DEF CompareXiConst, NotFound, ValueEntry
<1>6. j # 0 => s[j] \in T
  BY <1>1, Picks DEF IsFirst
<1> HIDE DEF j, T
<1>7. CASE j = 0
  BY <1>5, <1>7 DEF Answer, j, T
<1>8. CASE j # 0
  BY <1>5, <1>6, <1>8 DEF Answer, j, T
<1> QED BY <1>7, <1>8

LEMMA MergedIsScan ==
  ASSUME NEW scans, AreScans(scans)
  PROVE  IsScan(MergeScans(scans))
<1> DEFINE cs == [i \in DOMAIN scans |-> scans[i].consts]
           ws == [i \in DOMAIN scans |-> scans[i].switches]
           fs == [i \in DOMAIN scans |-> scans[i].functions]
<1>1. /\ AreSequences(cs) /\ AreSequences(ws) /\ AreSequences(fs)
      /\ MergeScans(scans).consts = FlattenSeq(cs)
      /\ MergeScans(scans).switches = FlattenSeq(ws)
      /\ MergeScans(scans).functions = FlattenSeq(fs)
  BY MergedParts
<1>2. \A i \in DOMAIN ws : \A j \in DOMAIN ws[i] : IsSequence(ws[i][j].branches)
  BY DEF AreScans, IsScan
<1> HIDE DEF cs, ws, fs
<1>3. IsSequence(FlattenSeq(cs)) /\ IsSequence(FlattenSeq(ws)) /\ IsSequence(FlattenSeq(fs))
  BY <1>1, FlattenRange
<1>4. \A j \in DOMAIN FlattenSeq(ws) : \E i \in DOMAIN ws : FlattenSeq(ws)[j] \in Range(ws[i])
  BY <1>1, FlattenRange
<1>5. \A j \in DOMAIN FlattenSeq(ws) : IsSequence(FlattenSeq(ws)[j].branches)
  BY <1>2, <1>4 DEF Range
<1> QED BY <1>1, <1>3, <1>5 DEF IsScan

\* The scans' parts are within the merged one.
LEMMA PartsWithin ==
  ASSUME NEW scans, AreScans(scans), NEW k \in DOMAIN scans
  PROVE  /\ IsScan(scans[k])
         /\ Range(scans[k].consts) \subseteq Range(MergeScans(scans).consts)
         /\ Range(scans[k].switches) \subseteq Range(MergeScans(scans).switches)
         /\ Range(scans[k].functions) \subseteq Range(MergeScans(scans).functions)
<1> DEFINE cs == [i \in DOMAIN scans |-> scans[i].consts]
           ws == [i \in DOMAIN scans |-> scans[i].switches]
           fs == [i \in DOMAIN scans |-> scans[i].functions]
<1>1. /\ AreSequences(cs) /\ AreSequences(ws) /\ AreSequences(fs)
      /\ MergeScans(scans).consts = FlattenSeq(cs)
      /\ MergeScans(scans).switches = FlattenSeq(ws)
      /\ MergeScans(scans).functions = FlattenSeq(fs)
  BY MergedParts
<1>2. cs[k] = scans[k].consts /\ ws[k] = scans[k].switches /\ fs[k] = scans[k].functions
  OBVIOUS
<1>3. k \in DOMAIN cs /\ k \in DOMAIN ws /\ k \in DOMAIN fs
  OBVIOUS
<1> HIDE DEF cs, ws, fs
<1>4. \A j \in DOMAIN cs[k] : cs[k][j] \in Range(FlattenSeq(cs))
  BY <1>1, <1>3, FlattenRange
<1>5. \A j \in DOMAIN ws[k] : ws[k][j] \in Range(FlattenSeq(ws))
  BY <1>1, <1>3, FlattenRange
<1>6. \A j \in DOMAIN fs[k] : fs[k][j] \in Range(FlattenSeq(fs))
  BY <1>1, <1>3, FlattenRange
<1>7. IsScan(scans[k])
  BY DEF AreScans
<1>8. Range(cs[k]) \subseteq Range(FlattenSeq(cs))
  BY <1>4 DEF Range
<1>9. Range(ws[k]) \subseteq Range(FlattenSeq(ws))
  BY <1>5 DEF Range
<1>10. Range(fs[k]) \subseteq Range(FlattenSeq(fs))
  BY <1>6 DEF Range
<1> QED BY <1>1, <1>2, <1>7, <1>8, <1>9, <1>10

LEMMA XiWitnessed ==
  ASSUME NEW d, NEW scans, AreScans(scans)
  PROVE  Witnessed(CompareXiConst(d, MergeScans(scans)),
                   [k \in DOMAIN scans |-> CompareXiConst(d, scans[k])])
<1> DEFINE merged == MergeScans(scans)
           cs == [k \in DOMAIN scans |-> scans[k].consts]
           T == Named(d, Range(merged.consts))
           F == [c \in T |-> ValueEntry(d, c)]
           none == NotFound(d)
           e == CompareXiConst(d, merged)
           said == [k \in DOMAIN scans |-> CompareXiConst(d, scans[k])]
<1>1. AreSequences(cs) /\ merged.consts = FlattenSeq(cs) /\ DOMAIN cs = DOMAIN scans /\ DOMAIN said = DOMAIN cs
  BY MergedParts
<1>2. e = Answer(FlattenSeq(cs), T, none, F)
  BY <1>1, MergedIsScan, XiAnswer
<1>3. ASSUME NEW k \in DOMAIN cs
      PROVE  said[k] = Answer(cs[k], T, none, F)
  BY <1>1, PartsWithin, XiAnswer
<1>4. none.status = "ordbok_only" /\ \A c \in T : F[c].status # "ordbok_only"
  BY DEF NotFound, ValueEntry, Entry
<1> HIDE DEF cs, T, F, none, e, said
<1>5. Witnessed(e, said)
  BY <1>1, <1>2, <1>3, <1>4, AnswerWitnessed
<1> QED BY <1>5 DEF e, said

CountEntry(d, f) ==
  IF f.params = d.params THEN Entry(d, "matched", Fraction(0, 1)) ELSE Entry(d, "diverged", Fraction(1, 2))

LEMMA MeihuaAnswer ==
  ASSUME NEW d, NEW scan, IsScan(scan), NEW U, Range(scan.functions) \subseteq U
  PROVE  CompareMeihua(d, scan) =
            Answer(scan.functions, Named(d, U), NotFound(d), [f \in Named(d, U) |-> CountEntry(d, f)])
<1> DEFINE s == scan.functions
           T == Named(d, U)
           j == Picked(s, T)
<1>1. IsSequence(s)
  BY DEF IsScan
<1>2. Len(s) \in Nat /\ DOMAIN s = 1 .. Len(s)
  BY <1>1, SequenceFacts
<1>3. {i \in 1 .. Len(s) : Called(d, s[i].name)} = {i \in 1 .. Len(s) : s[i] \in T}
  BY <1>2 DEF Named, Range
<1>4. SelectInSeq(s, LAMBDA c : Called(d, c.name)) = j
  BY <1>3 DEF SelectInSeq, Picked
<1>5. CompareMeihua(d, scan) = IF j = 0 THEN NotFound(d) ELSE CountEntry(d, s[j])
  BY <1>4 DEF CompareMeihua, NotFound, CountEntry
<1>6. j # 0 => s[j] \in T
  BY <1>1, Picks DEF IsFirst
<1> HIDE DEF j, T
<1>7. CASE j = 0
  BY <1>5, <1>7 DEF Answer, j, T
<1>8. CASE j # 0
  BY <1>5, <1>6, <1>8 DEF Answer, j, T
<1> QED BY <1>7, <1>8

LEMMA MeihuaWitnessed ==
  ASSUME NEW d, NEW scans, AreScans(scans)
  PROVE  Witnessed(CompareMeihua(d, MergeScans(scans)),
                   [k \in DOMAIN scans |-> CompareMeihua(d, scans[k])])
<1> DEFINE merged == MergeScans(scans)
           fs == [k \in DOMAIN scans |-> scans[k].functions]
           T == Named(d, Range(merged.functions))
           F == [f \in T |-> CountEntry(d, f)]
           none == NotFound(d)
           e == CompareMeihua(d, merged)
           said == [k \in DOMAIN scans |-> CompareMeihua(d, scans[k])]
<1>1. AreSequences(fs) /\ merged.functions = FlattenSeq(fs) /\ DOMAIN fs = DOMAIN scans /\ DOMAIN said = DOMAIN fs
  BY MergedParts
<1>2. e = Answer(FlattenSeq(fs), T, none, F)
  BY <1>1, MergedIsScan, MeihuaAnswer
<1>3. ASSUME NEW k \in DOMAIN fs
      PROVE  said[k] = Answer(fs[k], T, none, F)
  BY <1>1, PartsWithin, MeihuaAnswer
<1>4. none.status = "ordbok_only" /\ \A f \in T : F[f].status # "ordbok_only"
  BY DEF NotFound, CountEntry, Entry
<1> HIDE DEF fs, T, F, none, e, said
<1>5. Witnessed(e, said)
  BY <1>1, <1>2, <1>3, <1>4, AnswerWitnessed
<1> QED BY <1>5 DEF e, said

\* The blocks that share more than three of the cases in ten, and what is said of one.
Sharing(d, found) ==
  {w \in found : w.var # None /\ 10 * Overlap(Cases(d), w.branches) > 3 * Len(Cases(d))}
CasesEntry(d, w) ==
  LET cases == Cases(d)
      found == Cardinality(Found(cases, w.branches))
      total == Len(cases) + Cardinality(Extra(cases, w.branches))
  IN  Entry(d, IF found = total THEN "matched" ELSE "diverged", Fraction(total - found, total))

LEMMA ProjectionAnswer ==
  ASSUME NEW d, NEW scan, IsScan(scan), NEW U, Range(scan.switches) \subseteq U
  PROVE  CompareProjection(d, scan) =
            Answer(scan.switches, Sharing(d, U), NotFound(d), [w \in Sharing(d, U) |-> CasesEntry(d, w)])
<1> DEFINE s == scan.switches
           T == Sharing(d, U)
           j == Picked(s, T)
<1>1. IsSequence(s)
  BY DEF IsScan
<1>2. Len(s) \in Nat /\ DOMAIN s = 1 .. Len(s)
  BY <1>1, SequenceFacts
<1>3. {i \in 1 .. Len(s) : s[i].var # None /\ 10 * Overlap(Cases(d), s[i].branches) > 3 * Len(Cases(d))} =
      {i \in 1 .. Len(s) : s[i] \in T}
  BY <1>2 DEF Sharing, Range
<1>4. SelectInSeq(s, LAMBDA w : w.var # None /\ 10 * Overlap(Cases(d), w.branches) > 3 * Len(Cases(d))) = j
  BY <1>3 DEF SelectInSeq, Picked
<1>5. CompareProjection(d, scan) = IF j = 0 THEN NotFound(d) ELSE CasesEntry(d, s[j])
  BY <1>4 DEF CompareProjection, NotFound, CasesEntry
<1>6. j # 0 => s[j] \in T
  BY <1>1, Picks DEF IsFirst
<1> HIDE DEF j, T
<1>7. CASE j = 0
  BY <1>5, <1>7 DEF Answer, j, T
<1>8. CASE j # 0
  BY <1>5, <1>6, <1>8 DEF Answer, j, T
<1> QED BY <1>7, <1>8

LEMMA ProjectionWitnessed ==
  ASSUME NEW d, NEW scans, AreScans(scans)
  PROVE  Witnessed(CompareProjection(d, MergeScans(scans)),
                   [k \in DOMAIN scans |-> CompareProjection(d, scans[k])])
<1> DEFINE merged == MergeScans(scans)
           ws == [k \in DOMAIN scans |-> scans[k].switches]
           T == Sharing(d, Range(merged.switches))
           F == [w \in T |-> CasesEntry(d, w)]
           none == NotFound(d)
           e == CompareProjection(d, merged)
           said == [k \in DOMAIN scans |-> CompareProjection(d, scans[k])]
<1>1. AreSequences(ws) /\ merged.switches = FlattenSeq(ws) /\ DOMAIN ws = DOMAIN scans /\ DOMAIN said = DOMAIN ws
  BY MergedParts
<1>2. e = Answer(FlattenSeq(ws), T, none, F)
  BY <1>1, MergedIsScan, ProjectionAnswer
<1>3. ASSUME NEW k \in DOMAIN ws
      PROVE  said[k] = Answer(ws[k], T, none, F)
  BY <1>1, PartsWithin, ProjectionAnswer
<1>4. none.status = "ordbok_only" /\ \A w \in T : F[w].status # "ordbok_only"
  BY DEF NotFound, CasesEntry, Entry
<1> HIDE DEF ws, T, F, none, e, said
<1>5. Witnessed(e, said)
  BY <1>1, <1>2, <1>3, <1>4, AnswerWitnessed
<1> QED BY <1>5 DEF e, said

LEMMA FoundInOne ==
  ASSUME NEW scans, AreScans(scans)
  PROVE  /\ \A x \in Range(MergeScans(scans).consts) : \E k \in DOMAIN scans : x \in Range(scans[k].consts)
         /\ \A x \in Range(MergeScans(scans).switches) : \E k \in DOMAIN scans : x \in Range(scans[k].switches)
         /\ \A x \in Range(MergeScans(scans).functions) : \E k \in DOMAIN scans : x \in Range(scans[k].functions)
<1> DEFINE cs == [i \in DOMAIN scans |-> scans[i].consts]
           ws == [i \in DOMAIN scans |-> scans[i].switches]
           fs == [i \in DOMAIN scans |-> scans[i].functions]
<1>1. /\ AreSequences(cs) /\ AreSequences(ws) /\ AreSequences(fs)
      /\ MergeScans(scans).consts = FlattenSeq(cs)
      /\ MergeScans(scans).switches = FlattenSeq(ws)
      /\ MergeScans(scans).functions = FlattenSeq(fs)
  BY MergedParts
<1>2. \A x \in Range(FlattenSeq(cs)) : \E k \in DOMAIN cs : x \in Range(cs[k])
  <2> HIDE DEF cs
  <2> QED BY <1>1, FlattenRange DEF Range
<1>3. \A x \in Range(FlattenSeq(ws)) : \E k \in DOMAIN ws : x \in Range(ws[k])
  <2> HIDE DEF ws
  <2> QED BY <1>1, FlattenRange DEF Range
<1>4. \A x \in Range(FlattenSeq(fs)) : \E k \in DOMAIN fs : x \in Range(fs[k])
  <2> HIDE DEF fs
  <2> QED BY <1>1, FlattenRange DEF Range
<1>5. /\ DOMAIN cs = DOMAIN scans /\ DOMAIN ws = DOMAIN scans /\ DOMAIN fs = DOMAIN scans
      /\ \A k \in DOMAIN scans : cs[k] = scans[k].consts /\ ws[k] = scans[k].switches /\ fs[k] = scans[k].functions
  OBVIOUS
<1> HIDE DEF cs, ws, fs
<1> QED BY <1>1, <1>2, <1>3, <1>4, <1>5

TraversalFound(d, scan) == \E f \in Range(scan.functions) : MatchesTarget(d, f.name)
ConstFound(d, scan) == \E c \in Range(scan.consts) : MatchesTarget(d, c.name)
BlockFound(d, scan) == \E w \in Range(scan.switches) : w.var # None /\ MatchesTarget(d, w.var)

\* Merged scans have a definition of that name exactly when one of them has.
LEMMA FoundMerged ==
  ASSUME NEW d, NEW scans, AreScans(scans)
  PROVE  /\ TraversalFound(d, MergeScans(scans)) <=> \E k \in DOMAIN scans : TraversalFound(d, scans[k])
         /\ ConstFound(d, MergeScans(scans)) <=> \E k \in DOMAIN scans : ConstFound(d, scans[k])
         /\ BlockFound(d, MergeScans(scans)) <=> \E k \in DOMAIN scans : BlockFound(d, scans[k])
<1>1. TraversalFound(d, MergeScans(scans)) <=> \E k \in DOMAIN scans : TraversalFound(d, scans[k])
  BY FoundInOne, PartsWithin DEF TraversalFound
<1>2. ConstFound(d, MergeScans(scans)) <=> \E k \in DOMAIN scans : ConstFound(d, scans[k])
  BY FoundInOne, PartsWithin DEF ConstFound
<1>3. BlockFound(d, MergeScans(scans)) <=> \E k \in DOMAIN scans : BlockFound(d, scans[k])
  BY FoundInOne, PartsWithin DEF BlockFound
<1> QED BY <1>1, <1>2, <1>3

LEMMA TraversalAnswer ==
  ASSUME NEW d, NEW scan
  PROVE  /\ TraversalFound(d, scan) => CompareTraversal(d, scan) = Entry(d, "matched", Fraction(0, 1))
         /\ ~TraversalFound(d, scan) => CompareTraversal(d, scan) = Entry(d, "ordbok_only", Fraction(1, 2))
BY DEF TraversalFound, CompareTraversal, ToSet, Range

LEMMA ZetaAnswer ==
  ASSUME NEW d, NEW scan
  PROVE  /\ BlockFound(d, scan) => CompareZeta(d, scan) = Entry(d, "diverged", Fraction(7, 10))
         /\ ~BlockFound(d, scan) /\ ConstFound(d, scan) => CompareZeta(d, scan) = Entry(d, "diverged", Fraction(8, 10))
         /\ ~BlockFound(d, scan) /\ ~ConstFound(d, scan) /\ TraversalFound(d, scan) =>
               CompareZeta(d, scan) = Entry(d, "matched", Fraction(1, 10))
         /\ ~BlockFound(d, scan) /\ ~ConstFound(d, scan) /\ ~TraversalFound(d, scan) =>
               CompareZeta(d, scan) = NotFound(d)
<1>1. BlockFound(d, scan) <=> \E w \in ToSet(scan.switches) : w.var # None /\ MatchesTarget(d, w.var)
  BY DEF BlockFound, ToSet, Range
<1>2. ConstFound(d, scan) <=> \E c \in ToSet(scan.consts) : MatchesTarget(d, c.name)
  BY DEF ConstFound, ToSet, Range
<1>3. TraversalFound(d, scan) <=> \E f \in ToSet(scan.functions) : MatchesTarget(d, f.name)
  BY DEF TraversalFound, ToSet, Range
<1> QED BY <1>1, <1>2, <1>3, Zenon DEF CompareZeta, NotFound

LEMMA TraversalWitnessed ==
  ASSUME NEW d, NEW scans, AreScans(scans)
  PROVE  Witnessed(CompareTraversal(d, MergeScans(scans)),
                   [k \in DOMAIN scans |-> CompareTraversal(d, scans[k])])
<1> DEFINE e == CompareTraversal(d, MergeScans(scans))
           said == [k \in DOMAIN scans |-> CompareTraversal(d, scans[k])]
<1>1. CASE TraversalFound(d, MergeScans(scans))
  <2>1. e = Entry(d, "matched", Fraction(0, 1))
    BY <1>1, TraversalAnswer
  <2>2. PICK k \in DOMAIN scans : TraversalFound(d, scans[k])
    BY <1>1, FoundMerged
  <2>3. k \in DOMAIN said /\ said[k] = e
    BY <2>1, <2>2, TraversalAnswer
  <2>4. e.status # "ordbok_only"
    BY <2>1 DEF Entry
  <2> QED BY <2>3, <2>4 DEF Witnessed
<1>2. CASE ~TraversalFound(d, MergeScans(scans))
  <2>1. e = Entry(d, "ordbok_only", Fraction(1, 2))
    BY <1>2, TraversalAnswer
  <2>2. \A k \in DOMAIN said : said[k] = e
    BY <1>2, <2>1, FoundMerged, TraversalAnswer
  <2>3. e.status = "ordbok_only"
    BY <2>1 DEF Entry
  <2> QED BY <2>2, <2>3 DEF Witnessed
<1> QED BY <1>1, <1>2

LEMMA ZetaWitnessed ==
  ASSUME NEW d, NEW scans, AreScans(scans)
  PROVE  Witnessed(CompareZeta(d, MergeScans(scans)),
                   [k \in DOMAIN scans |-> CompareZeta(d, scans[k])])
<1> DEFINE merged == MergeScans(scans)
           e == CompareZeta(d, merged)
           said == [k \in DOMAIN scans |-> CompareZeta(d, scans[k])]
<1>1. /\ TraversalFound(d, merged) <=> \E k \in DOMAIN scans : TraversalFound(d, scans[k])
      /\ ConstFound(d, merged) <=> \E k \in DOMAIN scans : ConstFound(d, scans[k])
      /\ BlockFound(d, merged) <=> \E k \in DOMAIN scans : BlockFound(d, scans[k])
  BY FoundMerged
<1>2. CASE BlockFound(d, merged)
  <2>1. e = Entry(d, "diverged", Fraction(7, 10))
    BY <1>2, ZetaAnswer
  <2>2. PICK k \in DOMAIN scans : BlockFound(d, scans[k])
    BY <1>1, <1>2
  <2>3. k \in DOMAIN said /\ said[k] = e
    BY <2>1, <2>2, ZetaAnswer
  <2>4. e.status # "ordbok_only"
    BY <2>1 DEF Entry
  <2> QED BY <2>3, <2>4 DEF Witnessed
<1>3. CASE ~BlockFound(d, merged) /\ ConstFound(d, merged)
  <2>1. e = Entry(d, "diverged", Fraction(8, 10))
    BY <1>3, ZetaAnswer
  <2>2. PICK k \in DOMAIN scans : ConstFound(d, scans[k]) /\ ~BlockFound(d, scans[k])
    BY <1>1, <1>3
  <2>3. k \in DOMAIN said /\ said[k] = e
    BY <2>1, <2>2, ZetaAnswer
  <2>4. e.status # "ordbok_only"
    BY <2>1 DEF Entry
  <2> QED BY <2>3, <2>4 DEF Witnessed
<1>4. CASE ~BlockFound(d, merged) /\ ~ConstFound(d, merged) /\ TraversalFound(d, merged)
  <2>1. e = Entry(d, "matched", Fraction(1, 10))
    BY <1>4, ZetaAnswer
  <2>2. PICK k \in DOMAIN scans :
               TraversalFound(d, scans[k]) /\ ~ConstFound(d, scans[k]) /\ ~BlockFound(d, scans[k])
    BY <1>1, <1>4
  <2>3. k \in DOMAIN said /\ said[k] = e
    BY <2>1, <2>2, ZetaAnswer
  <2>4. e.status # "ordbok_only"
    BY <2>1 DEF Entry
  <2> QED BY <2>3, <2>4 DEF Witnessed
<1>5. CASE ~BlockFound(d, merged) /\ ~ConstFound(d, merged) /\ ~TraversalFound(d, merged)
  <2>1. e = NotFound(d)
    BY <1>5, ZetaAnswer
  <2>2. \A k \in DOMAIN said : said[k] = e
    BY <1>1, <1>5, <2>1, ZetaAnswer
  <2>3. e.status = "ordbok_only"
    BY <2>1 DEF NotFound, Entry
  <2> QED BY <2>2, <2>3 DEF Witnessed
<1> QED BY <1>2, <1>3, <1>4, <1>5

LEMMA PickedSame ==
  ASSUME NEW s, IsSequence(s), NEW T, NEW V, T \cap Range(s) = V \cap Range(s)
  PROVE  Picked(s, T) = Picked(s, V)
<1>1. DOMAIN s = 1 .. Len(s)
  BY SequenceFacts
<1>2. \A i \in 1 .. Len(s) : s[i] \in Range(s)
  BY <1>1 DEF Range
<1>3. {i \in 1 .. Len(s) : s[i] \in T} = {i \in 1 .. Len(s) : s[i] \in V}
  BY <1>2
<1> QED BY <1>3 DEF Picked

LEMMA MaximumExists ==
  ASSUME NEW n \in Nat, n # 0, NEW f, \A i \in 1 .. n : f[i] \in Nat
  PROVE  \E i \in 1 .. n : \A j \in 1 .. n : f[j] <= f[i]
<1> DEFINE T == {m \in Nat : m + 1 <= n => \E i \in 1 .. m + 1 : \A j \in 1 .. m + 1 : f[j] <= f[i]}
<1>1. 0 \in T
  <2>1. 1 \in 1 .. 0 + 1 /\ 1 \in 1 .. n /\ \A j \in 1 .. 0 + 1 : j = 1
    OBVIOUS
  <2>2. \A j \in 1 .. 0 + 1 : f[j] <= f[1]
    BY <2>1
  <2> QED BY <2>1, <2>2
<1>2. ASSUME NEW m \in Nat, m \in T
      PROVE  m + 1 \in T
  <2> SUFFICES ASSUME m + 1 + 1 <= n
               PROVE  \E i \in 1 .. m + 1 + 1 : \A j \in 1 .. m + 1 + 1 : f[j] <= f[i]
    OBVIOUS
  <2>1. PICK i \in 1 .. m + 1 : \A j \in 1 .. m + 1 : f[j] <= f[i]
    BY <1>2
  <2>2. \A j \in 1 .. m + 1 + 1 : j \in 1 .. n /\ f[j] \in Nat /\ (j \in 1 .. m + 1 \/ j = m + 1 + 1)
    OBVIOUS
  <2>3. i \in 1 .. m + 1 + 1 /\ m + 1 + 1 \in 1 .. m + 1 + 1
    OBVIOUS
  <2> HIDE DEF T
  <2>4. CASE f[m + 1 + 1] <= f[i]
    <3>1. \A j \in 1 .. m + 1 + 1 : f[j] <= f[i]
      BY <2>1, <2>2, <2>4
    <3> QED BY <2>3, <3>1
  <2>5. CASE ~(f[m + 1 + 1] <= f[i])
    <3>1. f[m + 1 + 1] \in Nat /\ f[i] \in Nat
      BY <2>2, <2>3
    <3>2. \A j \in 1 .. m + 1 + 1 : f[j] <= f[m + 1 + 1]
      BY <2>1, <2>2, <2>5, <3>1
    <3> QED BY <2>3, <3>2
  <2> QED BY <2>4, <2>5
<1>3. n - 1 \in Nat /\ n - 1 + 1 = n
  OBVIOUS
<1>4. n - 1 \in T
  <2> HIDE DEF T
  <2> QED BY <1>1, <1>2, <1>3, SetInduction
<1> QED BY <1>3, <1>4

\* How many branches of a block are members of the dimension d, and the blocks
\* among those found that have most of them.
Share(d, w) == Shared(Members(d), w.branches)
Best(d, found) == {w \in found : Share(d, w) > 0 /\ \A v \in found : Share(d, v) <= Share(d, w)}
MembersEntry(d, w) ==
  LET extra == Len(w.branches) - Share(d, w)
      whole == Share(d, w) = Len(Members(d)) /\ extra = 0
  IN  IF 10 * Share(d, w) <= 3 * Len(Members(d)) THEN NotFound(d)
      ELSE Entry(d, IF whole THEN "matched" ELSE "diverged",
                 Fraction(Len(Members(d)) + extra - Share(d, w), Len(Members(d)) + extra))

LEMMA ShareType ==
  ASSUME NEW d, NEW w, IsSequence(w.branches)
  PROVE  Share(d, w) \in Nat
<1> DEFINE shared == {j \in DOMAIN w.branches : \E k \in DOMAIN Members(d) : SameName(w.branches[j], Members(d)[k])}
<1>1. IsFiniteSet(DOMAIN w.branches)
  BY DomainFinite
<1>2. IsFiniteSet(shared)
  BY <1>1, FS_Subset
<1>3. Share(d, w) = Cardinality(shared)
  BY DEF Share, Shared
<1> QED BY <1>2, <1>3, FS_CardinalityType

LEMMA DimensionAnswer ==
  ASSUME NEW d, NEW scan, IsScan(scan)
  PROVE  LET j == Picked(scan.switches, Best(d, Range(scan.switches)))
         IN  CompareDimension(d, scan) = IF j = 0 THEN NotFound(d) ELSE MembersEntry(d, scan.switches[j])
<1> DEFINE s == scan.switches
           T == Best(d, Range(s))
           j == Picked(s, T)
           share == [i \in DOMAIN s |-> Shared(Members(d), s[i].branches)]
           Most(n) == n > 0 /\ \A i \in DOMAIN share : share[i] <= n
<1>1. IsSequence(s)
  BY DEF IsScan
<1>2. Len(s) \in Nat /\ DOMAIN s = 1 .. Len(s) /\ DOMAIN share = 1 .. Len(s)
  BY <1>1, SequenceFacts
<1>3. Len(share) = Len(s)
  BY <1>1, <1>2, MapsSequence, SequenceFacts
<1>4. \A i \in 1 .. Len(s) : share[i] = Share(d, s[i])
  BY <1>2 DEF Share
<1>5. Range(s) = {s[i] : i \in 1 .. Len(s)}
  BY <1>2 DEF Range
<1> HIDE DEF share
<1>6. {i \in 1 .. Len(share) : Most(share[i])} = {i \in 1 .. Len(s) : s[i] \in T}
  BY <1>2, <1>3, <1>4, <1>5 DEF Best
<1>7. BestBlock(share) = j
  BY <1>6 DEF BestBlock, SelectInSeq, Picked
<1>8. j # 0 => j \in 1 .. Len(s)
  BY <1>1, <1>2, Picks
<1> HIDE DEF j
<1>9. j # 0 => share[j] = Share(d, s[j])
  BY <1>4, <1>8
<1>10. CompareDimension(d, scan) =
         IF j = 0 \/ 10 * share[j] <= 3 * Len(Members(d)) THEN Entry(d, "ordbok_only", Fraction(1, 1))
         ELSE LET extra == Len(s[j].branches) - share[j]
                  whole == share[j] = Len(Members(d)) /\ extra = 0
              IN  Entry(d, IF whole THEN "matched" ELSE "diverged",
                        Fraction(Len(Members(d)) + extra - share[j], Len(Members(d)) + extra))
  BY <1>7 DEF CompareDimension, share
<1>11. CASE j = 0
  BY <1>10, <1>11 DEF NotFound, j
<1>12. CASE j # 0
  <2>1. CompareDimension(d, scan) = MembersEntry(d, s[j])
    BY <1>9, <1>10, <1>12 DEF NotFound, MembersEntry
  <2> QED BY <1>12, <2>1 DEF j
<1> QED BY <1>11, <1>12

LEMMA DimensionWitnessed ==
  ASSUME NEW d, NEW scans, AreScans(scans), Len(Members(d)) \in Nat
  PROVE  Witnessed(CompareDimension(d, MergeScans(scans)),
                   [k \in DOMAIN scans |-> CompareDimension(d, scans[k])])
<1> DEFINE ws == [k \in DOMAIN scans |-> scans[k].switches]
           s == MergeScans(scans).switches
           U == Range(s)
           B == Best(d, U)
           e == CompareDimension(d, MergeScans(scans))
           said == [k \in DOMAIN scans |-> CompareDimension(d, scans[k])]
<1>1. AreSequences(ws) /\ s = FlattenSeq(ws) /\ DOMAIN ws = DOMAIN scans
  BY MergedParts
<1>2. IsSequence(s) /\ Len(s) \in Nat /\ DOMAIN s = 1 .. Len(s)
  BY MergedIsScan, SequenceFacts DEF IsScan
<1>3. \A w \in U : Share(d, w) \in Nat
  BY MergedIsScan, ShareType DEF IsScan, Range
<1>4. /\ Picked(s, B) = 0 => e = NotFound(d)
      /\ Picked(s, B) # 0 => e = MembersEntry(d, s[Picked(s, B)])
  BY MergedIsScan, DimensionAnswer
<1>5. ASSUME NEW k \in DOMAIN scans
      PROVE  LET j == Picked(ws[k], Best(d, Range(ws[k]))) IN
             /\ IsSequence(ws[k]) /\ Range(ws[k]) \subseteq U
             /\ j = 0 => said[k] = NotFound(d)
             /\ j # 0 => said[k] = MembersEntry(d, ws[k][j]) /\ ws[k][j] \in Range(ws[k])
  <2>1. IsScan(scans[k]) /\ IsSequence(ws[k]) /\ Range(ws[k]) \subseteq U
    BY PartsWithin DEF IsScan
  <2> DEFINE j == Picked(ws[k], Best(d, Range(ws[k])))
  <2>2. said[k] = IF j = 0 THEN NotFound(d) ELSE MembersEntry(d, ws[k][j])
    BY <2>1, DimensionAnswer
  <2>3. j # 0 => ws[k][j] \in Range(ws[k])
    BY <2>1, Picks DEF Range
  <2> HIDE DEF j
  <2>4. j = 0 => said[k] = NotFound(d)
    BY <2>2
  <2>5. j # 0 => said[k] = MembersEntry(d, ws[k][j])
    BY <2>2
  <2> QED BY <2>1, <2>3, <2>4, <2>5 DEF j
<1>6. DOMAIN said = DOMAIN scans
  OBVIOUS
<1>7. NotFound(d).status = "ordbok_only"
  BY DEF NotFound, Entry
<1> SUFFICES Witnessed(e, said)
  OBVIOUS
<1> HIDE DEF ws, s, U, B, e, said
\* When no block shares enough, no scan has one that does.
<1>8. ASSUME \A w \in U : 10 * Share(d, w) <= 3 * Len(Members(d)), e = NotFound(d)
      PROVE  Witnessed(e, said)
  <2>1. ASSUME NEW k \in DOMAIN scans
        PROVE  said[k] = NotFound(d)
    <3> DEFINE j == Picked(ws[k], Best(d, Range(ws[k])))
    <3>1. CASE j = 0
      BY <1>5, <3>1
    <3>2. CASE j # 0
      <4>1. ws[k][j] \in U /\ said[k] = MembersEntry(d, ws[k][j])
        BY <1>5, <3>2
      <4> HIDE DEF j
      <4> QED BY <1>8, <4>1 DEF MembersEntry
    <3> QED BY <3>1, <3>2
  <2> QED BY <1>6, <1>7, <1>8, <2>1 DEF Witnessed
<1>9. CASE Picked(FlattenSeq(ws), B) = 0
  <2>1. ASSUME NEW w \in U
        PROVE  Share(d, w) = 0
    <3> DEFINE share == [i \in 1 .. Len(s) |-> Share(d, s[i])]
    <3>1. U = {s[i] : i \in 1 .. Len(s)} /\ Len(s) # 0
      BY <1>2 DEF U, Range
    <3>2. \A i \in 1 .. Len(s) : share[i] \in Nat
      BY <1>3, <3>1
    <3>3. PICK i \in 1 .. Len(s) : \A j \in 1 .. Len(s) : share[j] <= share[i]
      <4> HIDE DEF share
      <4> QED BY <1>2, <3>1, <3>2, MaximumExists
    <3>4. \A v \in U : Share(d, v) <= Share(d, s[i])
      BY <3>1, <3>3
    <3>5. s[i] \notin B
      BY <1>1, <1>2, <1>9, Picks DEF IsWithout
    <3>6. ~(Share(d, s[i]) > 0)
      BY <3>1, <3>4, <3>5 DEF B, Best
    <3> QED BY <1>3, <3>1, <3>4, <3>6
  <2>2. \A w \in U : 10 * Share(d, w) <= 3 * Len(Members(d))
    BY <2>1
  <2> QED BY <1>1, <1>4, <1>8, <1>9, <2>2
<1>10. CASE \E k \in DOMAIN ws :
              /\ Picked(FlattenSeq(ws), B) # 0 /\ Picked(ws[k], B) # 0
              /\ FlattenSeq(ws)[Picked(FlattenSeq(ws), B)] = ws[k][Picked(ws[k], B)]
  <2>1. PICK k \in DOMAIN scans :
              /\ Picked(s, B) # 0 /\ Picked(ws[k], B) # 0
              /\ s[Picked(s, B)] = ws[k][Picked(ws[k], B)]
    BY <1>1, <1>10
  <2> DEFINE w == s[Picked(s, B)]
  <2>2. w \in B /\ w \in Range(ws[k])
    BY <1>2, <1>5, <2>1, Picks DEF IsFirst, Range
  <2>3. e = MembersEntry(d, w)
    BY <1>4, <2>1
  <2>4. w \in U /\ Share(d, w) > 0 /\ \A v \in U : Share(d, v) <= Share(d, w)
    BY <2>2 DEF B, Best
  <2>5. Best(d, Range(ws[k])) \cap Range(ws[k]) = B \cap Range(ws[k])
    <3>1. Range(ws[k]) \subseteq U
      BY <1>5
    <3> HIDE DEF w
    <3>2. ASSUME NEW v \in Range(ws[k]), Share(d, v) > 0, \A x \in Range(ws[k]) : Share(d, x) <= Share(d, v)
          PROVE  \A x \in U : Share(d, x) <= Share(d, v)
      <4>1. Share(d, w) <= Share(d, v) /\ Share(d, v) \in Nat /\ Share(d, w) \in Nat
        BY <1>3, <2>2, <2>4, <3>1, <3>2
      <4> QED BY <1>3, <2>4, <4>1
    <3> QED BY <3>1, <3>2 DEF B, Best
  <2>6. Picked(ws[k], Best(d, Range(ws[k]))) = Picked(ws[k], B)
    BY <1>5, <2>5, PickedSame
  <2>7. said[k] = MembersEntry(d, w)
    BY <1>5, <2>1, <2>6
  <2>8. CASE 10 * Share(d, w) <= 3 * Len(Members(d))
    <3>1. e = NotFound(d)
      BY <2>3, <2>8 DEF MembersEntry
    <3> HIDE DEF w
    <3>2. ASSUME NEW v \in U
          PROVE  10 * Share(d, v) <= 3 * Len(Members(d))
      <4>1. Share(d, v) \in Nat /\ Share(d, w) \in Nat /\ Share(d, v) <= Share(d, w)
        BY <1>3, <2>4
      <4> QED BY <2>8, <4>1
    <3> QED BY <1>8, <3>1, <3>2
  <2>9. CASE ~(10 * Share(d, w) <= 3 * Len(Members(d)))
    <3>1. e.status # "ordbok_only"
      BY <2>3, <2>9 DEF MembersEntry, Entry
    <3> QED BY <1>6, <2>3, <2>7, <3>1 DEF Witnessed
  <2> QED BY <2>8, <2>9
<1>11. \/ Picked(FlattenSeq(ws), B) = 0
       \/ \E k \in DOMAIN ws :
              /\ Picked(FlattenSeq(ws), B) # 0 /\ Picked(ws[k], B) # 0
              /\ FlattenSeq(ws)[Picked(FlattenSeq(ws), B)] = ws[k][Picked(ws[k], B)]
  BY <1>1, FlattenPicks
<1> QED BY <1>9, <1>10, <1>11

\* A comparison says of merged scans what it says of one of them; that the
\* declaration is missing, it says only if it is missing from all.
LEMMA CompareWitnessed ==
  ASSUME NEW d, d.type \in Compared, IsSequence(d.members), NEW scans, AreScans(scans)
  PROVE  Witnessed(Compare(d, MergeScans(scans)), [k \in DOMAIN scans |-> Compare(d, scans[k])])
<1>1. CASE d.type = "xi"
  <2>1. \A scan : Compare(d, scan) = CompareXiConst(d, scan)
    BY <1>1, Zenon DEF Compare
  <2> QED BY <2>1, XiWitnessed
<1>2. CASE d.type = "zeta"
  <2>1. \A scan : Compare(d, scan) = CompareZeta(d, scan)
    BY <1>2, Zenon DEF Compare
  <2> QED BY <2>1, ZetaWitnessed
<1>3. CASE d.type = "projection"
  <2>1. \A scan : Compare(d, scan) = CompareProjection(d, scan)
    BY <1>3, Zenon DEF Compare
  <2> QED BY <2>1, ProjectionWitnessed
<1>4. CASE d.type = "meihua"
  <2>1. \A scan : Compare(d, scan) = CompareMeihua(d, scan)
    BY <1>4, Zenon DEF Compare
  <2> QED BY <2>1, MeihuaWitnessed
<1>5. CASE d.type = "dimension"
  <2>1. \A scan : Compare(d, scan) = CompareDimension(d, scan)
    BY <1>5, Zenon DEF Compare
  <2>2. IsSequence(Members(d))
    BY EmptyIsSequence DEF Members
  <2>3. Len(Members(d)) \in Nat
    BY <2>2, SequenceFacts
  <2> QED BY <2>1, <2>3, DimensionWitnessed
<1>6. CASE d.type = "traversal"
  <2>1. \A scan : Compare(d, scan) = CompareTraversal(d, scan)
    BY <1>6, Zenon DEF Compare
  <2> QED BY <2>1, TraversalWitnessed
<1> QED BY <1>1, <1>2, <1>3, <1>4, <1>5, <1>6 DEF Compared

\* The declarations that several programs have for comparison, one after the other.
AllComparable(progs) == FlattenSeq([i \in DOMAIN progs |-> Comparable(progs[i].decls)])

LEMMA ComparableFacts ==
  ASSUME NEW prog, IsProgram(prog)
  PROVE  /\ IsSequence(Comparable(prog.decls))
         /\ Range(Comparable(prog.decls)) = {d \in Range(prog.decls) : d.type \in Compared}
<1>1. IsSequence(prog.decls)
  BY DEF IsProgram
<1> QED BY <1>1, KeptFacts DEF Comparable

LEMMA AllComparableFacts ==
  ASSUME NEW progs, ArePrograms(progs)
  PROVE  /\ AreSequences([i \in DOMAIN progs |-> Comparable(progs[i].decls)])
         /\ \A j \in DOMAIN AllComparable(progs) :
               AllComparable(progs)[j].type \in Compared /\ IsSequence(AllComparable(progs)[j].members)
         /\ \A i \in DOMAIN progs : \A j \in DOMAIN progs[i].decls :
               progs[i].decls[j].type \in Compared => progs[i].decls[j] \in Range(AllComparable(progs))
<1> DEFINE ss == [i \in DOMAIN progs |-> Comparable(progs[i].decls)]
<1>1. IsSequence(progs) /\ \A i \in DOMAIN progs : IsProgram(progs[i])
  BY DEF ArePrograms
<1>2. IsSequence(ss)
  BY <1>1, MapsSequence
<1>3. \A i \in DOMAIN ss : IsSequence(ss[i]) /\ Range(ss[i]) = {d \in Range(progs[i].decls) : d.type \in Compared}
  BY <1>1, ComparableFacts
<1>4. AreSequences(ss) /\ DOMAIN ss = DOMAIN progs
  BY <1>2, <1>3 DEF AreSequences
<1>5. AllComparable(progs) = FlattenSeq(ss)
  BY DEF AllComparable
<1> HIDE DEF ss
<1>6. ASSUME NEW j \in DOMAIN AllComparable(progs)
      PROVE  AllComparable(progs)[j].type \in Compared /\ IsSequence(AllComparable(progs)[j].members)
  <2>1. PICK i \in DOMAIN progs : AllComparable(progs)[j] \in Range(ss[i])
    BY <1>4, <1>5, FlattenRange
  <2>2. AllComparable(progs)[j] \in Range(progs[i].decls) /\ AllComparable(progs)[j].type \in Compared
    BY <1>3, <1>4, <2>1
  <2> QED BY <1>1, <2>2 DEF IsProgram, Range
<1>7. ASSUME NEW i \in DOMAIN progs, NEW j \in DOMAIN progs[i].decls, progs[i].decls[j].type \in Compared
      PROVE  progs[i].decls[j] \in Range(AllComparable(progs))
  <2>1. progs[i].decls[j] \in Range(ss[i])
    BY <1>3, <1>4, <1>7 DEF Range
  <2>2. PICK k \in DOMAIN ss[i] : progs[i].decls[j] = ss[i][k]
    BY <2>1 DEF Range
  <2> QED BY <1>4, <1>5, <2>2, FlattenRange
<1> QED BY <1>4, <1>6, <1>7 DEF ss

\* The report has an entry for each of them, in the same order.
LEMMA ReportEntries ==
  ASSUME NEW progs, ArePrograms(progs), NEW scans
  PROVE  /\ IsSequence(AllComparable(progs)) /\ IsSequence(TotalDrift(progs, scans))
         /\ DOMAIN TotalDrift(progs, scans) = DOMAIN AllComparable(progs)
         /\ \A j \in DOMAIN AllComparable(progs) :
               TotalDrift(progs, scans)[j] = Compare(AllComparable(progs)[j], MergeScans(scans))
<1> DEFINE merged == MergeScans(scans)
           ss == [i \in DOMAIN progs |-> Comparable(progs[i].decls)]
           rr == [i \in DOMAIN progs |-> DriftCompare(progs[i].decls, merged)]
           U == UNION {Range(ss[i]) : i \in DOMAIN progs}
           R == {<<d, Compare(d, merged)>> : d \in U}
<1>1. AreSequences(ss) /\ IsSequence(progs)
  BY AllComparableFacts DEF ArePrograms
<1>2. ASSUME NEW i \in DOMAIN progs
      PROVE  rr[i] = [j \in DOMAIN ss[i] |-> Compare(ss[i][j], merged)]
  BY DEF DriftCompare
<1>3. AllComparable(progs) = FlattenSeq(ss) /\ TotalDrift(progs, scans) = FlattenSeq(rr)
  BY DEF AllComparable, TotalDrift
<1>4. DOMAIN ss = DOMAIN progs /\ DOMAIN rr = DOMAIN progs /\ IsSequence(ss) /\ IsSequence(rr)
  BY <1>1, MapsSequence
<1> HIDE DEF ss, rr, merged
<1>5. \A i \in DOMAIN rr : IsSequence(rr[i])
  <2> SUFFICES ASSUME NEW i \in DOMAIN progs
               PROVE  IsSequence(rr[i])
    BY <1>4
  <2>1. IsSequence(ss[i])
    BY <1>1, <1>4 DEF AreSequences
  <2> DEFINE r == [j \in DOMAIN ss[i] |-> Compare(ss[i][j], merged)]
  <2>2. IsSequence(r)
    BY <2>1, MapsSequence
  <2> QED BY <1>2, <2>2
<1>6. AreSequences(rr)
  BY <1>4, <1>5 DEF AreSequences
<1>7. Len(rr) = Len(ss)
  <2>1. DOMAIN rr = 1 .. Len(rr) /\ DOMAIN ss = 1 .. Len(ss) /\ Len(rr) \in Nat /\ Len(ss) \in Nat
    BY <1>4, SequenceFacts
  <2> QED BY <1>4, <2>1
<1>8. \A i \in DOMAIN ss : DOMAIN rr[i] = DOMAIN ss[i] /\ \A j \in DOMAIN ss[i] : <<ss[i][j], rr[i][j]>> \in R
  BY <1>2, <1>4 DEF Range
<1> HIDE DEF R
<1>9. /\ IsSequence(FlattenSeq(ss)) /\ IsSequence(FlattenSeq(rr))
      /\ DOMAIN FlattenSeq(rr) = DOMAIN FlattenSeq(ss)
      /\ \A j \in DOMAIN FlattenSeq(ss) : <<FlattenSeq(ss)[j], FlattenSeq(rr)[j]>> \in R
  BY <1>1, <1>6, <1>7, <1>8, FlattenRelated
<1>10. \A x, y : <<x, y>> \in R => y = Compare(x, merged)
  BY DEF R
<1> QED BY <1>3, <1>9, <1>10 DEF merged

------------------------------------------------------------------------------
(* What --lint and --map have read and said *)

ScansOnDisk == \A c \in CodeFiles : code[c] # Absent => IsScan(code[c])

\* A survey with --lint or --map has finds in scan form and writes no baseline;
\* at its end its report and status are those of what it read.
RunSurveys(run) ==
  /\ AreScans(run.scans)
  /\ run.mode \in {"lint", "map"} => run.pc \in {"idle", "sources", "code", "report", "done", "killed"}
  /\ run.mode \in {"lint", "map"} /\ run.pc = "done" => run.report = TotalDrift(run.progs, run.scans)
  /\ run.mode = "lint" /\ run.pc = "done" => run.exit = LintExit(run.progs, run.report)

RunsSurvey == \A p \in Procs : RunSurveys(runs[p])

SurveyInv == MeasureInv /\ ScansOnDisk /\ RunsSurvey

LEMMA AppendsScan ==
  ASSUME NEW scans, AreScans(scans), NEW scan, IsScan(scan)
  PROVE  AreScans(Append(scans, scan))
<1> DEFINE longer == Append(scans, scan)
<1>1. Len(scans) \in Nat /\ DOMAIN scans = 1 .. Len(scans) /\ scans \in Seq(Range(scans))
  BY SequenceFacts DEF AreScans, IsSequence
<1>2. longer \in Seq(Range(scans) \cup {scan})
  BY <1>1
<1>3. /\ DOMAIN longer = 1 .. Len(scans) + 1
      /\ \A i \in 1 .. Len(scans) + 1 :
            longer[i] = IF i = Len(scans) + 1 THEN scan ELSE scans[i]
  BY <1>1
<1>4. IsSequence(longer)
  BY <1>2, SequenceOf
<1> HIDE DEF longer
<1>5. \A k \in DOMAIN longer : IsScan(longer[k])
  BY <1>1, <1>3 DEF AreScans
<1>6. AreScans(longer)
  BY <1>4, <1>5 DEF AreScans
<1> QED BY <1>6 DEF longer

LEMMA NoScans == AreScans(<<>>)
BY EmptyIsSequence DEF AreScans

LEMMA SurveyInit == Init => SurveyInv
<1> SUFFICES ASSUME Init
             PROVE  SurveyInv
  OBVIOUS
<1>1. MeasureInv
  BY MeasureInit
<1>2. ScansOnDisk
  <2>1. PICK w \in Worlds : code = w.code
    BY DEF Init
  <2> QED BY <2>1, DriverAssumption DEF ScansOnDisk
<1>3. NewRun.scans = <<>> /\ NewRun.pc = "idle"
  BY DEF NewRun
<1>4. RunSurveys(NewRun)
  BY <1>3, NoScans DEF RunSurveys
<1>5. RunsSurvey
  BY <1>4 DEF Init, RunsSurvey
<1> QED BY <1>1, <1>2, <1>5 DEF SurveyInv

\* A run that is not at the end of a --lint or --map has only to have read scans.
Unfinished(run) ==
  /\ AreScans(run.scans)
  /\ run.mode \in {"lint", "map"} => run.pc \in {"sources", "code", "report", "killed"}

LEMMA SurveysStep ==
  ASSUME SurveyInv, MeasureInv', NEW p \in Procs, NEW run, RunSurveys(run) \/ Unfinished(run),
         runs' = [runs EXCEPT ![p] = run], UNCHANGED code
  PROVE  SurveyInv'
<1>1. RunSurveys(run)
  BY DEF RunSurveys, Unfinished
<1>2. \A q \in Procs : runs'[q] = IF q = p THEN run ELSE runs[q]
  BY DEF SurveyInv, MeasureInv, BuildInv, Shapes
<1>3. RunsSurvey'
  <2>1. \A q \in Procs : RunSurveys(runs'[q])
    BY <1>1, <1>2 DEF SurveyInv, RunsSurvey
  <2> QED BY <2>1 DEF RunsSurvey
<1> QED BY <1>3 DEF SurveyInv, ScansOnDisk

LEMMA SurveyFacts ==
  ASSUME SurveyInv, NEW p \in Procs
  PROVE  DOMAIN runs[p] = RunFields /\ RunSurveys(runs[p])
BY RunFacts DEF SurveyInv, RunsSurvey

\* Builds and measurements.
LEMMA SurveyElsewhere ==
  ASSUME SurveyInv, MeasureInv', NEW p \in Procs,
         \/ \E f \in Files, out \in Outputs \cup {None} : Compile(p, f, out)
         \/ OpenOutput(p) \/ OutputDenied(p) \/ Emit(p) \/ EmitCutOff(p)
         \/ LoadTrend(p) \/ AppendHistory(p) \/ HistoryDenied(p)
         \/ LoadBaseline(p)
         \/ OpenBaseline(p) \/ BaselineDenied(p) \/ WriteBaseline(p) \/ BaselineCutOff(p)
  PROVE  SurveyInv'
<1>1. ASSUME NEW run, Set(p, run), AreScans(run.scans), run.mode \notin {"lint", "map"}, UNCHANGED code
      PROVE  SurveyInv'
  BY <1>1, SurveysStep DEF Set, Unfinished
<1>2. CASE \E f \in Files, out \in Outputs \cup {None} : Compile(p, f, out)
  <2>1. PICK f \in Files, out \in Outputs \cup {None} : Compile(p, f, out)
    BY <1>2
  <2> DEFINE start == [NewRun EXCEPT !.mode = "compile", !.file = f, !.out = out, !.prog = dir[f]]
             next == IF out # None THEN "open" ELSE "trend"
  <2>2. DOMAIN start = RunFields /\ start.mode = "compile" /\ start.scans = <<>>
    BY DEF NewRun, RunFields
  <2>3. \/ \E exit : Set(p, Finished(start, exit))
        \/ Set(p, [start EXCEPT !.pc = next])
    BY <2>1, Zenon DEF Compile
  <2>4. UNCHANGED code
    BY <2>1 DEF Compile, world
  <2> HIDE DEF start, next
  <2>5. PICK run : Set(p, run) /\ run.mode = "compile" /\ run.scans = <<>>
    <3>1. CASE \E exit : Set(p, Finished(start, exit))
      <4>1. PICK exit : Set(p, Finished(start, exit))
        BY <3>1
      <4>2. Finished(start, exit).mode = "compile" /\ Finished(start, exit).scans = <<>>
        BY <2>2 DEF Finished, RunFields
      <4> QED BY <4>1, <4>2
    <3>2. CASE Set(p, [start EXCEPT !.pc = next])
      BY <2>2, <3>2 DEF RunFields
    <3> QED BY <2>3, <3>1, <3>2
  <2> QED BY <1>1, <2>4, <2>5, NoScans
<1>3. CASE \/ OpenOutput(p) \/ OutputDenied(p) \/ Emit(p) \/ EmitCutOff(p)
           \/ LoadTrend(p) \/ AppendHistory(p) \/ HistoryDenied(p)
           \/ OpenBaseline(p) \/ BaselineDenied(p) \/ WriteBaseline(p) \/ BaselineCutOff(p)
  <2>1. runs[p].mode \notin {"lint", "map"} /\ AreScans(runs[p].scans) /\ DOMAIN runs[p] = RunFields
    <3>1. runs[p].pc \in BuildSteps \cup {"baseline", "saving"}
      BY <1>3 DEF OpenOutput, OutputDenied, Emit, EmitCutOff, LoadTrend, AppendHistory, HistoryDenied,
                  OpenBaseline, BaselineDenied, WriteBaseline, BaselineCutOff, At, BuildSteps
    <3> QED BY <3>1, SurveyFacts DEF RunSurveys, BuildSteps
  <2>2. PICK run : Set(p, run) /\ run.mode = runs[p].mode /\ run.scans = runs[p].scans /\ UNCHANGED code
    <3>1. CASE OpenOutput(p) \/ Emit(p) \/ EmitCutOff(p) \/ OpenBaseline(p)
      <4>1. PICK pc : /\ \/ Set(p, [runs[p] EXCEPT !.pc = pc])
                         \/ Set(p, [runs[p] EXCEPT !.pc = pc, !.opened = TRUE])
                      /\ UNCHANGED code
        BY <3>1 DEF OpenOutput, Emit, EmitCutOff, OpenBaseline, world
      <4> QED BY <2>1, <4>1 DEF RunFields
    <3>2. CASE OutputDenied(p) \/ HistoryDenied(p) \/ AppendHistory(p)
      <4>1. PICK exit : Set(p, Finished(runs[p], exit)) /\ UNCHANGED code
        BY <3>2 DEF OutputDenied, HistoryDenied, AppendHistory, world
      <4>2. Finished(runs[p], exit).mode = runs[p].mode /\ Finished(runs[p], exit).scans = runs[p].scans
        BY <2>1 DEF Finished, RunFields
      <4> QED BY <4>1, <4>2
    <3>3. CASE BaselineDenied(p) \/ WriteBaseline(p) \/ BaselineCutOff(p)
      <4>1. Set(p, Judged(runs[p])) /\ UNCHANGED code
        BY <3>3 DEF BaselineDenied, WriteBaseline, BaselineCutOff, world
      <4>2. Judged(runs[p]).mode = runs[p].mode /\ Judged(runs[p]).scans = runs[p].scans
        BY <2>1 DEF Judged, Finished, RunFields
      <4> QED BY <4>1, <4>2
    <3>4. CASE LoadTrend(p)
      <4>1. PICK past, trend : \/ Set(p, [runs[p] EXCEPT !.pc = "append"])
                               \/ Set(p, [runs[p] EXCEPT !.pc = "append", !.past = past, !.trend = trend])
        BY <3>4, Zenon DEF LoadTrend
      <4>2. UNCHANGED code
        BY <3>4 DEF LoadTrend, world
      <4> QED BY <2>1, <4>1, <4>2 DEF RunFields
    <3> QED BY <1>3, <3>1, <3>2, <3>3, <3>4
  <2> QED BY <1>1, <2>1, <2>2
<1>4. CASE LoadBaseline(p)
  <2>1. PICK has, prev, known :
           Set(p, [NewRun EXCEPT !.mode = "convergence", !.pc = "sources", !.todo = Files,
                                 !.has = has, !.prev = prev, !.known = known])
    BY <1>4 DEF LoadBaseline
  <2>2. UNCHANGED code
    BY <1>4 DEF LoadBaseline, world
  <2> DEFINE run == [NewRun EXCEPT !.mode = "convergence", !.pc = "sources", !.todo = Files,
                                   !.has = has, !.prev = prev, !.known = known]
  <2>3. run.mode = "convergence" /\ run.scans = <<>>
    BY DEF NewRun
  <2>4. Set(p, run)
    BY <2>1
  <2> HIDE DEF run
  <2> QED BY <1>1, <2>2, <2>3, <2>4, NoScans
<1> QED BY <1>2, <1>3, <1>4

LEMMA SurveyReads ==
  ASSUME SurveyInv, MeasureInv', NEW p \in Procs,
         \/ \E mode \in modes : Survey(p, mode)
         \/ \E f \in Files, c \in CodeFiles : Diff(p, f, c)
         \/ \E f \in Files : ReadSource(p, f)
         \/ EndSources(p)
         \/ \E c \in CodeFiles : ReadCode(p, c)
         \/ EndCode(p) \/ Kill(p)
  PROVE  SurveyInv'
<1>0. DOMAIN runs[p] = RunFields /\ AreScans(runs[p].scans)
  BY SurveyFacts DEF RunSurveys
<1>1. ASSUME NEW run, Set(p, run), Unfinished(run), UNCHANGED code
      PROVE  SurveyInv'
  BY <1>1, SurveysStep DEF Set
<1>2. CASE \/ \E mode \in modes : Survey(p, mode)
           \/ \E f \in Files, c \in CodeFiles : Diff(p, f, c)
  <2>1. ASSUME NEW mode, NEW pc \in {"sources", "code"}, NEW todo, NEW codeTodo, UNCHANGED code,
               Set(p, [NewRun EXCEPT !.mode = mode, !.pc = pc, !.todo = todo, !.codeTodo = codeTodo])
        PROVE  SurveyInv'
    <3> DEFINE run == [NewRun EXCEPT !.mode = mode, !.pc = pc, !.todo = todo, !.codeTodo = codeTodo]
    <3>1. run.pc = pc /\ run.scans = <<>>
      BY DEF NewRun
    <3>2. Set(p, run)
      BY <2>1
    <3> HIDE DEF run
    <3> QED BY <1>1, <2>1, <3>1, <3>2, NoScans DEF Unfinished
  <2>2. ASSUME NEW mode \in modes, Survey(p, mode)
        PROVE  SurveyInv'
    <3>1. /\ FirstPhase(mode) \in {"sources", "code"} /\ UNCHANGED code
          /\ Set(p, [NewRun EXCEPT !.mode = mode, !.pc = FirstPhase(mode), !.todo = Files,
                                   !.codeTodo = Scanned(mode)])
      BY <2>2 DEF Survey, FirstPhase, world
    <3> QED BY <2>1, <3>1
  <2>3. ASSUME NEW f \in Files, NEW c \in CodeFiles, Diff(p, f, c)
        PROVE  SurveyInv'
    <3>1. /\ Set(p, [NewRun EXCEPT !.mode = "diff", !.pc = "sources", !.todo = {f}, !.codeTodo = {c}])
          /\ UNCHANGED code
      BY <2>3 DEF Diff, world
    <3> QED BY <2>1, <3>1
  <2> QED BY <1>2, <2>2, <2>3
<1>3. CASE EndSources(p) \/ EndCode(p) \/ Kill(p)
  <2>1. PICK pc : /\ Set(p, [runs[p] EXCEPT !.pc = pc]) /\ UNCHANGED code
                  /\ runs[p].mode \in {"lint", "map"} => pc \in {"sources", "code", "report", "killed"}
    BY <1>3 DEF EndSources, EndCode, Kill, AfterSources, AfterCode, world
  <2> DEFINE run == [runs[p] EXCEPT !.pc = pc]
  <2>2. run.pc = pc /\ run.scans = runs[p].scans /\ run.mode = runs[p].mode
    BY <1>0 DEF RunFields
  <2>3. Set(p, run)
    BY <2>1
  <2> HIDE DEF run
  <2> QED BY <1>0, <1>1, <2>1, <2>2, <2>3 DEF Unfinished
<1>4. CASE \E f \in Files : ReadSource(p, f)
  <2>1. PICK f \in Files : ReadSource(p, f)
    BY <1>4
  <2> DEFINE rest == [runs[p] EXCEPT !.todo = @ \ {f}]
  <2>2. /\ DOMAIN rest = RunFields /\ rest.pc = "sources" /\ rest.mode = runs[p].mode
        /\ rest.scans = runs[p].scans /\ UNCHANGED code
    BY <1>0, <2>1 DEF ReadSource, At, RunFields, world
  <2>3. \/ Set(p, [rest EXCEPT !.progs = Append(@, dir[f])])
        \/ rest.mode = "diff" /\ Set(p, Finished(rest, 2))
        \/ Set(p, rest)
    BY <2>1, Zenon DEF ReadSource
  <2> HIDE DEF rest
  <2>4. PICK run : /\ Set(p, run) /\ run.mode = rest.mode /\ run.scans = rest.scans
                   /\ run.pc = "sources" \/ rest.mode = "diff"
    <3>1. CASE Set(p, [rest EXCEPT !.progs = Append(@, dir[f])])
      BY <2>2, <3>1 DEF RunFields
    <3>2. CASE rest.mode = "diff" /\ Set(p, Finished(rest, 2))
      <4>1. Finished(rest, 2).mode = rest.mode /\ Finished(rest, 2).scans = rest.scans
        BY <2>2 DEF Finished, RunFields
      <4> QED BY <3>2, <4>1
    <3>3. CASE Set(p, rest)
      BY <2>2, <3>3
    <3> QED BY <2>3, <3>1, <3>2, <3>3
  <2> QED BY <1>0, <1>1, <2>2, <2>4 DEF Unfinished
<1>5. CASE \E c \in CodeFiles : ReadCode(p, c)
  <2>1. PICK c \in CodeFiles : ReadCode(p, c)
    BY <1>5
  <2> DEFINE rest == [runs[p] EXCEPT !.codeTodo = @ \ {c}]
  <2>2. /\ DOMAIN rest = RunFields /\ rest.pc = "code" /\ rest.mode = runs[p].mode
        /\ rest.scans = runs[p].scans /\ UNCHANGED code
    BY <1>0, <2>1 DEF ReadCode, At, RunFields, world
  <2>3. \/ code[c] # Absent /\ Set(p, [rest EXCEPT !.scans = Append(@, code[c])])
        \/ rest.mode = "diff" /\ Set(p, Finished(rest, 2))
        \/ Set(p, rest)
    BY <2>1, Zenon DEF ReadCode
  <2> HIDE DEF rest
  <2>4. PICK run : /\ Set(p, run) /\ run.mode = rest.mode /\ AreScans(run.scans)
                   /\ run.pc = "code" \/ rest.mode = "diff"
    <3>1. CASE code[c] # Absent /\ Set(p, [rest EXCEPT !.scans = Append(@, code[c])])
      <4> DEFINE scans == Append(rest.scans, code[c])
      <4>1. AreScans(scans)
        BY <1>0, <2>2, <3>1, AppendsScan DEF SurveyInv, ScansOnDisk
      <4>2. Set(p, [rest EXCEPT !.scans = scans])
        BY <3>1
      <4> HIDE DEF scans
      <4> QED BY <2>2, <4>1, <4>2 DEF RunFields
    <3>2. CASE rest.mode = "diff" /\ Set(p, Finished(rest, 2))
      <4>1. Finished(rest, 2).mode = rest.mode /\ Finished(rest, 2).scans = rest.scans
        BY <2>2 DEF Finished, RunFields
      <4> QED BY <1>0, <2>2, <3>2, <4>1
    <3>3. CASE Set(p, rest)
      BY <1>0, <2>2, <3>3
    <3> QED BY <2>3, <3>1, <3>2, <3>3
  <2> QED BY <1>1, <2>2, <2>4 DEF Unfinished
<1> QED BY <1>2, <1>3, <1>4, <1>5

LEMMA SurveyReports ==
  ASSUME SurveyInv, MeasureInv', NEW p \in Procs, Report(p)
  PROVE  SurveyInv'
<1> DEFINE report == Reported(runs[p])
           exit == SurveyExit(runs[p], report)
           run == Finished([runs[p] EXCEPT !.report = report], exit)
<1>1. Set(p, run) /\ UNCHANGED code
  BY DEF Report, world
<1>2. runs[p].mode \in {"lint", "map"} => report = TotalDrift(runs[p].progs, runs[p].scans)
  BY DEF Reported
<1>3. runs[p].mode = "lint" => exit = LintExit(runs[p].progs, report)
  BY Zenon DEF SurveyExit
<1> HIDE DEF report, exit
<1>4. /\ run.pc = "done" /\ run.mode = runs[p].mode /\ run.scans = runs[p].scans
      /\ run.progs = runs[p].progs /\ run.report = report /\ run.exit = exit
  BY SurveyFacts DEF Finished, RunFields
<1> HIDE DEF run
<1>5. RunSurveys(run)
  BY <1>2, <1>3, <1>4, SurveyFacts DEF RunSurveys
<1> QED BY <1>1, <1>5, SurveysStep DEF Set

LEMMA SurveyNext ==
  ASSUME SurveyInv, [Next]_vars
  PROVE  SurveyInv'
<1>0. MeasureInv'
  BY MeasureNext DEF SurveyInv
<1>1. ASSUME NEW p \in Procs, Step(p)
      PROVE  SurveyInv'
  BY <1>0, <1>1, SurveyElsewhere, SurveyReads, SurveyReports DEF Step
<1>2. ASSUME NEW f \in Files, NEW prog \in drafts, Edit(f, prog)
      PROVE  SurveyInv'
  BY <1>0, <1>2 DEF Edit, world, SurveyInv, ScansOnDisk, RunsSurvey
<1>3. ASSUME UNCHANGED vars
      PROVE  SurveyInv'
  BY <1>0, <1>3 DEF vars, SurveyInv, ScansOnDisk, RunsSurvey
<1> QED BY <1>1, <1>2, <1>3 DEF Next

LEMMA SurveyInvHolds == Spec => []SurveyInv
<1>1. SurveyInv /\ [Next]_vars => SurveyInv'
  BY SurveyNext
<1> QED BY SurveyInit, <1>1, PTL DEF Spec

LEMMA SameLength ==
  ASSUME NEW m \in Nat, NEW n \in Nat, 1 .. m = 1 .. n
  PROVE  m = n
<1>1. ASSUME NEW a \in Nat, NEW b \in Nat, a < b
      PROVE  b \in 1 .. b /\ b \notin 1 .. a
  BY <1>1
<1>2. m < n \/ n < m \/ m = n
  OBVIOUS
<1>3. CASE m < n
  <2>1. n \in 1 .. n /\ n \notin 1 .. m
    BY <1>1, <1>3
  <2> QED BY <2>1
<1>4. CASE n < m
  <2>1. m \in 1 .. m /\ m \notin 1 .. n
    BY <1>1, <1>4
  <2> QED BY <2>1
<1> QED BY <1>2, <1>3, <1>4

\* What --lint or --map says of a declaration is what a comparison with one of
\* the scans says, and it is said to be missing only if it is missing from all.
THEOREM LintWitnessed == Spec => []LintIsWitnessed
<1>1. ASSUME SurveyInv
      PROVE  LintIsWitnessed
  <2> SUFFICES ASSUME NEW p \in Procs, runs[p].mode \in {"lint", "map"}, runs[p].pc = "done"
               PROVE  LET run == runs[p]
                          decls == AllComparable(run.progs) IN
                      /\ Len(run.report) = Len(decls)
                      /\ \A j \in DOMAIN decls :
                            LET said == {Compare(decls[j], run.scans[k]) : k \in DOMAIN run.scans} IN
                            /\ said # {} => run.report[j] \in said
                            /\ run.report[j].status = "ordbok_only" <=> \A e \in said : e.status = "ordbok_only"
    BY DEF LintIsWitnessed, AllComparable
  <2> DEFINE progs == runs[p].progs
             scans == runs[p].scans
             decls == AllComparable(progs)
             report == runs[p].report
  <2>1. ArePrograms(progs) /\ AreScans(scans) /\ report = TotalDrift(progs, scans)
    BY <1>1, RunFacts, SurveyFacts DEF SurveyInv, RunMeasures, RunSurveys
  <2>2. /\ IsSequence(decls) /\ IsSequence(report) /\ DOMAIN report = DOMAIN decls
        /\ \A j \in DOMAIN decls : report[j] = Compare(decls[j], MergeScans(scans))
    BY <2>1, ReportEntries
  <2>3. \A j \in DOMAIN decls : decls[j].type \in Compared /\ IsSequence(decls[j].members)
    BY <2>1, AllComparableFacts
  <2> HIDE DEF progs, scans, decls, report
  <2>4. Len(report) = Len(decls)
    <3>1. /\ Len(report) \in Nat /\ DOMAIN report = 1 .. Len(report)
          /\ Len(decls) \in Nat /\ DOMAIN decls = 1 .. Len(decls)
      BY <2>2, SequenceFacts
    <3>2. 1 .. Len(report) = 1 .. Len(decls)
      BY <2>2, <3>1
    <3> QED BY <3>1, <3>2, SameLength
  <2>5. ASSUME NEW j \in DOMAIN decls
        PROVE  LET said == {Compare(decls[j], scans[k]) : k \in DOMAIN scans} IN
               /\ said # {} => report[j] \in said
               /\ report[j].status = "ordbok_only" <=> \A e \in said : e.status = "ordbok_only"
    <3> DEFINE e == report[j]
               said == [k \in DOMAIN scans |-> Compare(decls[j], scans[k])]
    <3>1. Witnessed(e, said)
      BY <2>1, <2>2, <2>3, CompareWitnessed
    <3>2. {Compare(decls[j], scans[k]) : k \in DOMAIN scans} = {said[k] : k \in DOMAIN said}
      OBVIOUS
    <3> HIDE DEF e, said
    <3>3. CASE e.status = "ordbok_only" /\ \A k \in DOMAIN said : said[k] = e
      BY <3>2, <3>3 DEF e
    <3>4. CASE e.status # "ordbok_only" /\ \E k \in DOMAIN said : said[k] = e
      BY <3>2, <3>4 DEF e
    <3> QED BY <3>1, <3>3, <3>4 DEF Witnessed
  <2> QED BY <2>4, <2>5 DEF progs, scans, decls, report
<1> QED BY <1>1, SurveyInvHolds, PTL

------------------------------------------------------------------------------
(* What a comparison without a complaint shows *)

\* The branches of a block found are the cases of the projection, apart from a
\* default and the wildcard.
LEMMA CasesAgree ==
  ASSUME NEW d, NEW w, IsSequence(w.branches), IsSequence(d.arms), CasesEntry(d, w).status = "matched"
  PROVE  Fold(w.branches) \ {Wild} = Fold(Cases(d)) \ {Wild}
<1> DEFINE cases == Cases(d)
           branches == w.branches
           found == Found(cases, branches)
           extra == Extra(cases, branches)
<1>1. IsSequence(cases)
  BY KeptFacts DEF Cases
<1>2. Len(cases) \in Nat /\ DOMAIN cases = 1 .. Len(cases) /\ IsFiniteSet(DOMAIN cases) /\ IsFiniteSet(DOMAIN branches)
  BY <1>1, SequenceFacts, DomainFinite
<1>3. Cardinality(DOMAIN cases) = Len(cases)
  <2>1. Len(cases) \in Int /\ 1 \in Int
    BY <1>2
  <2>2. Cardinality(1 .. Len(cases)) = IF 1 > Len(cases) THEN 0 ELSE Len(cases) - 1 + 1
    BY <2>1, FS_Interval
  <2> QED BY <1>2, <2>2
<1>4. found \subseteq DOMAIN cases /\ extra \subseteq DOMAIN branches
  BY DEF Found, Extra
<1>5. Cardinality(found) = Len(cases) + Cardinality(extra)
  BY DEF CasesEntry, Entry
<1> HIDE DEF cases, found, extra
<1>6. /\ Cardinality(found) \in Nat /\ Cardinality(found) <= Len(cases)
      /\ IsFiniteSet(extra) /\ Cardinality(extra) \in Nat
  BY <1>2, <1>3, <1>4, FS_Subset, FS_CardinalityType
<1>7. Cardinality(extra) = 0 /\ Cardinality(found) = Cardinality(DOMAIN cases)
  BY <1>2, <1>3, <1>5, <1>6
<1>8. extra = {}
  BY <1>6, <1>7, FS_EmptySet
<1>9. found = DOMAIN cases
  BY <1>2, <1>4, <1>7, FS_Subset
<1>10. ASSUME NEW i \in DOMAIN cases
       PROVE  \E j \in DOMAIN branches : Lower[branches[j]] = Lower[cases[i]]
  BY <1>9 DEF found, Found, SameName
<1>11. ASSUME NEW j \in DOMAIN branches, Lower[branches[j]] # Wild
       PROVE  \E i \in DOMAIN cases : Lower[branches[j]] = Lower[cases[i]]
  <2>1. branches[j] # Wild
    BY <1>11, DriftAssumption
  <2> QED BY <1>8, <2>1 DEF extra, Extra, SameName
<1>12. Fold(branches) = {Lower[branches[j]] : j \in DOMAIN branches}
  BY DEF Fold, ToSet
<1>13. Fold(cases) = {Lower[cases[i]] : i \in DOMAIN cases}
  BY DEF Fold, ToSet
<1>14. Fold(branches) \ {Wild} = Fold(cases) \ {Wild}
  <2> HIDE DEF branches
  <2> QED BY <1>10, <1>11, <1>12, <1>13
<1> QED BY <1>14 DEF cases

\* All branches of the block are members, and if none is there twice in different
\* spellings, they are as many as the members, so they are all of them.
LEMMA MembersAgree ==
  ASSUME NEW d, NEW w, IsSequence(w.branches), IsSequence(d.members), Share(d, w) > 0,
         MembersEntry(d, w).status = "matched"
  PROVE  /\ Fold(w.branches) \subseteq Fold(d.members)
         /\ OneSpelling(w.branches) => Fold(w.branches) = Fold(d.members)
<1> DEFINE branches == w.branches
           members == Members(d)
           shared == {j \in DOMAIN branches : \E k \in DOMAIN members : SameName(branches[j], members[k])}
           n == Len(members)
<1>1. IsSequence(members)
  BY EmptyIsSequence DEF Members
<1>2. /\ n \in Nat /\ DOMAIN members = 1 .. n
      /\ Len(branches) \in Nat /\ DOMAIN branches = 1 .. Len(branches)
  BY <1>1, SequenceFacts
<1>3. /\ IsFiniteSet(DOMAIN branches) /\ IsFiniteSet(DOMAIN members)
      /\ Cardinality(DOMAIN branches) = Len(branches) /\ Cardinality(DOMAIN members) = n
  <2>1. Len(branches) \in Int /\ n \in Int /\ 1 \in Int
    BY <1>2
  <2> HIDE DEF n
  <2>2. Cardinality(1 .. Len(branches)) = IF 1 > Len(branches) THEN 0 ELSE Len(branches) - 1 + 1
    BY <2>1, FS_Interval
  <2>3. Cardinality(1 .. n) = IF 1 > n THEN 0 ELSE n - 1 + 1
    BY <2>1, FS_Interval
  <2>4. IsFiniteSet(1 .. Len(branches)) /\ IsFiniteSet(1 .. n)
    BY <2>1, FS_Interval
  <2> QED BY <1>2, <2>2, <2>3, <2>4
<1>4. Share(d, w) = Cardinality(shared) /\ shared \subseteq DOMAIN branches
  BY DEF Share, Shared
<1>5. Share(d, w) = n /\ Len(branches) - Share(d, w) = 0
  <2>1. NotFound(d).status # "matched"
    BY DEF NotFound, Entry
  <2>2. ~(10 * Share(d, w) <= 3 * n)
    BY <2>1 DEF MembersEntry
  <2> QED BY <2>2 DEF MembersEntry, Entry
<1>6. shared = DOMAIN branches
  <2>1. Share(d, w) = Len(branches)
    BY <1>2, <1>5
  <2> HIDE DEF shared
  <2> QED BY <1>3, <1>4, <2>1, FS_Subset
<1>7. n = Len(branches) /\ n # 0
  BY <1>2, <1>5
<1>8. members = d.members
  <2>1. members # <<>>
    BY <1>7, EmptyIsSequence, SequenceFacts
  <2> QED BY <2>1 DEF Members
<1>9. Fold(branches) = {Lower[branches[j]] : j \in DOMAIN branches}
  BY DEF Fold, ToSet
<1>10. Fold(members) = {Lower[members[k]] : k \in DOMAIN members}
  BY DEF Fold, ToSet
<1>11. Fold(branches) \subseteq Fold(members)
  BY <1>6, <1>9, <1>10 DEF SameName
<1>12. ASSUME OneSpelling(branches)
       PROVE  Fold(branches) = Fold(members)
  <2> HIDE DEF members, branches, n
  <2> DEFINE f == [j \in DOMAIN branches |-> Lower[branches[j]]]
             g == [k \in DOMAIN members |-> Lower[members[k]]]
  <2>1. f \in Surjection(DOMAIN branches, Fold(branches))
    BY <1>9 DEF Surjection
  <2>2. f \in Injection(DOMAIN branches, Fold(branches))
    BY <1>9, <1>12 DEF Injection, IsInjective, OneSpelling
  <2>3. g \in Surjection(DOMAIN members, Fold(members))
    BY <1>10 DEF Surjection
  <2> HIDE DEF f, g
  <2>4. IsFiniteSet(Fold(branches)) /\ Cardinality(Fold(branches)) = Len(branches)
    BY <1>3, <2>1, <2>2, FS_Surjection
  <2>5. IsFiniteSet(Fold(members)) /\ Cardinality(Fold(members)) <= n
    BY <1>3, <2>3, FS_Surjection
  <2>6. Cardinality(Fold(branches)) <= Cardinality(Fold(members))
    BY <1>11, <2>5, FS_Subset
  <2>7. Cardinality(Fold(members)) \in Nat /\ Cardinality(Fold(branches)) \in Nat
    BY <2>4, <2>5, FS_CardinalityType
  <2>8. Cardinality(Fold(members)) = Cardinality(Fold(branches))
    BY <1>2, <1>7, <2>4, <2>5, <2>6, <2>7
  <2> QED BY <1>11, <2>5, <2>8, FS_Subset
<1> QED BY <1>8, <1>11, <1>12

\* What a comparison calls matched, the scan holds.
LEMMA MatchedHolds ==
  ASSUME NEW d, d.type \in Compared, IsSequence(d.members), IsSequence(d.arms),
         NEW scan, IsScan(scan), Compare(d, scan).status = "matched"
  PROVE  Holds(d, scan)
<1>1. NotFound(d).status # "matched"
  BY DEF NotFound, Entry
<1>2. CASE d.type = "xi"
  <2> DEFINE T == Named(d, Range(scan.consts))
             j == Picked(scan.consts, T)
             c == scan.consts[j]
  <2>1. Compare(d, scan) = CompareXiConst(d, scan)
    BY <1>2, Zenon DEF Compare
  <2>2. CompareXiConst(d, scan) = Answer(scan.consts, T, NotFound(d), [x \in T |-> ValueEntry(d, x)])
    BY XiAnswer
  <2>3. j # 0 => c \in T
    BY Picks DEF IsFirst, IsScan
  <2>4. CompareXiConst(d, scan) = IF j = 0 THEN NotFound(d) ELSE ValueEntry(d, c)
    <3> HIDE DEF T
    <3> QED BY <2>2, <2>3 DEF Answer
  <2>5. j # 0 /\ ValueEntry(d, c).status = "matched" /\ c \in T
    <3> HIDE DEF j, c, T
    <3> QED BY <1>1, <2>1, <2>3, <2>4
  <2> HIDE DEF j, c
  <2>6. c \in ToSet(scan.consts) /\ Called(d, c.name)
    BY <2>5 DEF Named, Range, ToSet
  <2>7. None \in {c.value, d.value} \/ c.value = d.value
    BY <2>5 DEF ValueEntry, Entry
  <2>8. \E x \in ToSet(scan.consts) :
           Called(d, x.name) /\ (None \in {x.value, d.value} \/ x.value = d.value)
    BY <2>6, <2>7
  <2> QED BY <1>2, <2>8, Zenon DEF Holds
<1>3. CASE d.type = "zeta"
  <2>1. Compare(d, scan) = CompareZeta(d, scan)
    BY <1>3, Zenon DEF Compare
  <2>2. TraversalFound(d, scan)
    <3>1. /\ Entry(d, "diverged", Fraction(7, 10)).status # "matched"
          /\ Entry(d, "diverged", Fraction(8, 10)).status # "matched"
      BY DEF Entry
    <3> QED BY <1>1, <2>1, <3>1, ZetaAnswer
  <2>3. \E f \in ToSet(scan.functions) : MatchesTarget(d, f.name)
    BY <2>2 DEF TraversalFound, ToSet, Range
  <2> QED BY <1>3, <2>3, Zenon DEF Holds
<1>4. CASE d.type = "projection"
  <2> DEFINE T == Sharing(d, Range(scan.switches))
             j == Picked(scan.switches, T)
             w == scan.switches[j]
  <2>1. Compare(d, scan) = CompareProjection(d, scan)
    BY <1>4, Zenon DEF Compare
  <2>2. CompareProjection(d, scan) = Answer(scan.switches, T, NotFound(d), [x \in T |-> CasesEntry(d, x)])
    BY ProjectionAnswer
  <2>3. j # 0 => w \in T
    BY Picks DEF IsFirst, IsScan
  <2>4. CompareProjection(d, scan) = IF j = 0 THEN NotFound(d) ELSE CasesEntry(d, w)
    <3> HIDE DEF T
    <3> QED BY <2>2, <2>3 DEF Answer
  <2>5. j # 0 /\ CasesEntry(d, w).status = "matched" /\ w \in T
    <3> HIDE DEF j, w, T
    <3> QED BY <1>1, <2>1, <2>3, <2>4
  <2> HIDE DEF j, w
  <2>6. w \in ToSet(scan.switches) /\ IsSequence(w.branches)
    BY <2>5 DEF Sharing, Range, ToSet, IsScan
  <2>7. Fold(w.branches) \ {Wild} = Fold(Cases(d)) \ {Wild}
    BY <2>5, <2>6, CasesAgree
  <2>8. \E x \in ToSet(scan.switches) : Fold(x.branches) \ {Wild} = Fold(Cases(d)) \ {Wild}
    BY <2>6, <2>7
  <2> QED BY <1>4, <2>8, Zenon DEF Holds
<1>5. CASE d.type = "dimension"
  <2> DEFINE T == Best(d, Range(scan.switches))
             j == Picked(scan.switches, T)
             w == scan.switches[j]
  <2>1. Compare(d, scan) = CompareDimension(d, scan)
    BY <1>5, Zenon DEF Compare
  <2>2. CompareDimension(d, scan) = IF j = 0 THEN NotFound(d) ELSE MembersEntry(d, w)
    BY DimensionAnswer
  <2>3. j # 0 => w \in T
    BY Picks DEF IsFirst, IsScan
  <2>4. j # 0 /\ MembersEntry(d, w).status = "matched" /\ w \in T
    <3> HIDE DEF j, w, T
    <3> QED BY <1>1, <2>1, <2>2, <2>3
  <2> HIDE DEF j, w
  <2>5. w \in ToSet(scan.switches) /\ IsSequence(w.branches) /\ Share(d, w) > 0
    BY <2>4 DEF Best, Range, ToSet, IsScan
  <2>6. /\ Fold(w.branches) \subseteq Fold(d.members)
        /\ OneSpelling(w.branches) => Fold(w.branches) = Fold(d.members)
    BY <2>4, <2>5, MembersAgree
  <2>7. \E x \in ToSet(scan.switches) :
           /\ Fold(x.branches) \subseteq Fold(d.members)
           /\ OneSpelling(x.branches) => Fold(x.branches) = Fold(d.members)
    BY <2>5, <2>6
  <2> QED BY <1>5, <2>7, Zenon DEF Holds
<1>6. CASE d.type = "meihua"
  <2> DEFINE T == Named(d, Range(scan.functions))
             j == Picked(scan.functions, T)
             f == scan.functions[j]
  <2>1. Compare(d, scan) = CompareMeihua(d, scan)
    BY <1>6, Zenon DEF Compare
  <2>2. CompareMeihua(d, scan) = Answer(scan.functions, T, NotFound(d), [x \in T |-> CountEntry(d, x)])
    BY MeihuaAnswer
  <2>3. j # 0 => f \in T
    BY Picks DEF IsFirst, IsScan
  <2>4. CompareMeihua(d, scan) = IF j = 0 THEN NotFound(d) ELSE CountEntry(d, f)
    <3> HIDE DEF T
    <3> QED BY <2>2, <2>3 DEF Answer
  <2>5. j # 0 /\ CountEntry(d, f).status = "matched" /\ f \in T
    <3> HIDE DEF j, f, T
    <3> QED BY <1>1, <2>1, <2>3, <2>4
  <2> HIDE DEF j, f
  <2>6. f \in ToSet(scan.functions) /\ Called(d, f.name) /\ f.params = d.params
    BY <2>5 DEF Named, Range, ToSet, CountEntry, Entry
  <2>7. \E x \in ToSet(scan.functions) : Called(d, x.name) /\ x.params = d.params
    BY <2>6
  <2> QED BY <1>6, <2>7, Zenon DEF Holds
<1>7. CASE d.type = "traversal"
  <2>1. Compare(d, scan) = CompareTraversal(d, scan)
    BY <1>7, Zenon DEF Compare
  <2>2. TraversalFound(d, scan)
    <3>1. Entry(d, "ordbok_only", Fraction(1, 2)).status # "matched"
      BY DEF Entry
    <3> QED BY <2>1, <3>1, TraversalAnswer
  <2>3. \E f \in ToSet(scan.functions) : MatchesTarget(d, f.name)
    BY <2>2 DEF TraversalFound, ToSet, Range
  <2> QED BY <1>7, <2>3, Zenon DEF Holds
<1> QED BY <1>2, <1>3, <1>4, <1>5, <1>6, <1>7 DEF Compared

LEMMA StatusType ==
  ASSUME NEW d, d.type \in Compared, NEW scan, IsScan(scan)
  PROVE  Compare(d, scan).status \in {"matched", "diverged", "ordbok_only"}
<1> DEFINE statuses == {"matched", "diverged", "ordbok_only"}
<1>1. NotFound(d).status \in statuses
  BY DEF NotFound, Entry
<1>2. \A s, x : s \in statuses => Entry(d, s, x).status \in statuses
  BY DEF Entry
<1>3. CASE d.type = "xi"
  <2>1. Compare(d, scan) = CompareXiConst(d, scan)
    BY <1>3, Zenon DEF Compare
  <2> QED BY <2>1 DEF CompareXiConst, Entry
<1>4. CASE d.type = "zeta"
  <2>1. Compare(d, scan) = CompareZeta(d, scan)
    BY <1>4, Zenon DEF Compare
  <2> QED BY <2>1 DEF CompareZeta, Entry
<1>5. CASE d.type = "projection"
  <2>1. Compare(d, scan) = CompareProjection(d, scan)
    BY <1>5, Zenon DEF Compare
  <2> QED BY <2>1 DEF CompareProjection, Entry
<1>6. CASE d.type = "meihua"
  <2>1. Compare(d, scan) = CompareMeihua(d, scan)
    BY <1>6, Zenon DEF Compare
  <2> QED BY <2>1 DEF CompareMeihua, Entry
<1>7. CASE d.type = "dimension"
  <2>1. Compare(d, scan) = CompareDimension(d, scan)
    BY <1>7, Zenon DEF Compare
  <2> QED BY <2>1 DEF CompareDimension, Entry
<1>8. CASE d.type = "traversal"
  <2>1. Compare(d, scan) = CompareTraversal(d, scan)
    BY <1>8, Zenon DEF Compare
  <2> QED BY <2>1 DEF CompareTraversal, Entry
<1> QED BY <1>3, <1>4, <1>5, <1>6, <1>7, <1>8 DEF Compared

LEMMA NoneCounted ==
  ASSUME NEW report, IsSequence(report), NEW status, ~(Count(report, status) > 0),
         NEW i \in DOMAIN report
  PROVE  report[i].status # status
<1> DEFINE those == {j \in DOMAIN report : report[j].status = status}
<1>1. IsFiniteSet(those)
  BY DomainFinite, FS_Subset
<1>2. Cardinality(those) \in Nat /\ ~(Cardinality(those) > 0)
  BY <1>1, FS_CardinalityType DEF Count
<1>3. those = {}
  <2> HIDE DEF those
  <2>1. Cardinality(those) = 0
    BY <1>2
  <2> QED BY <1>1, <2>1, FS_EmptySet
<1> QED BY <1>3

LEMMA AllGoverned ==
  ASSUME NEW prog, IsProgram(prog), ~(Analyze(prog.decls).ungoverned > 0)
  PROVE  GovernedCasts(prog.decls) = Casts(prog.decls)
<1> DEFINE total == Cardinality(Casts(prog.decls))
           governed == Cardinality(GovernedCasts(prog.decls))
<1>1. IsFiniteSet(Casts(prog.decls)) /\ GovernedCasts(prog.decls) \subseteq Casts(prog.decls)
  BY CastsFinite DEF GovernedCasts
<1>2. total \in Nat /\ governed \in Nat /\ governed <= total
  BY <1>1, FS_Subset, FS_CardinalityType
<1>3. ~(total - governed > 0)
  BY DEF Analyze
<1>4. governed = total
  <2> HIDE DEF total, governed
  <2> QED BY <1>2, <1>3
<1> QED BY <1>1, <1>4, FS_Subset

LEMMA LintClean ==
  ASSUME NEW progs, NEW report, LintExit(progs, report) = 0
  PROVE  /\ \A i \in DOMAIN progs : ~progs[i].errors /\ ~progs[i].warnings
         /\ \A i \in DOMAIN progs : ~(Analyze(progs[i].decls).ungoverned > 0)
         /\ ~(Count(report, "diverged") > 0) /\ ~(Count(report, "ordbok_only") > 0)
BY DEF LintExit, Some

\* The status 0 of --lint: what was read is without errors, warnings and casts
\* that nothing governs, and the target holds what was declared.
THEOREM CleanAgrees == Spec => []CleanMeansAgreement
<1>1. ASSUME SurveyInv
      PROVE  CleanMeansAgreement
  <2> SUFFICES ASSUME NEW p \in Procs, runs[p].mode = "lint", runs[p].pc = "done", runs[p].exit = 0,
                      NEW i \in DOMAIN runs[p].progs
               PROVE  LET g == runs[p].progs[i] IN
                      /\ ~g.errors /\ ~g.warnings
                      /\ GovernedCasts(g.decls) = Casts(g.decls)
                      /\ \A j \in DOMAIN g.decls : g.decls[j].type \in Compared =>
                            \E k \in DOMAIN runs[p].scans : Holds(g.decls[j], runs[p].scans[k])
    BY DEF CleanMeansAgreement
  <2> DEFINE progs == runs[p].progs
             scans == runs[p].scans
             merged == MergeScans(scans)
             report == TotalDrift(progs, scans)
             g == progs[i]
  <2>1. ArePrograms(progs) /\ AreScans(scans) /\ IsProgram(g)
    BY <1>1, RunFacts, SurveyFacts DEF SurveyInv, RunMeasures, RunSurveys, ArePrograms
  <2>2. LintExit(progs, report) = 0
    BY <1>1, SurveyFacts DEF RunSurveys
  <2>3. /\ ~g.errors /\ ~g.warnings /\ ~(Analyze(g.decls).ungoverned > 0)
        /\ ~(Count(report, "diverged") > 0) /\ ~(Count(report, "ordbok_only") > 0)
    BY <2>2, LintClean
  <2>4. GovernedCasts(g.decls) = Casts(g.decls)
    BY <2>1, <2>3, AllGoverned
  <2>5. ASSUME NEW j \in DOMAIN g.decls, g.decls[j].type \in Compared
        PROVE  \E k \in DOMAIN scans : Holds(g.decls[j], scans[k])
    <3> DEFINE d == g.decls[j]
               said == [k \in DOMAIN scans |-> Compare(d, scans[k])]
    <3>1. d \in Range(AllComparable(progs)) /\ IsSequence(d.members) /\ IsSequence(d.arms)
      BY <2>1, <2>5, AllComparableFacts DEF IsProgram
    <3>2. PICK m \in DOMAIN AllComparable(progs) : AllComparable(progs)[m] = d
      BY <3>1 DEF Range
    <3>3. m \in DOMAIN report /\ report[m] = Compare(d, merged) /\ IsSequence(report)
      BY <2>1, <3>2, ReportEntries
    <3>4. Compare(d, merged).status \in {"matched", "diverged", "ordbok_only"}
      BY <2>1, <2>5, MergedIsScan, StatusType
    <3>5. report[m].status # "diverged" /\ report[m].status # "ordbok_only"
      BY <2>3, <3>3, NoneCounted
    <3>6. Compare(d, merged).status = "matched"
      BY <3>3, <3>4, <3>5
    <3>7. Witnessed(Compare(d, merged), said)
      BY <2>1, <2>5, <3>1, CompareWitnessed
    <3>8. PICK k \in DOMAIN scans : Compare(d, scans[k]) = Compare(d, merged)
      BY <3>6, <3>7 DEF Witnessed
    <3>9. IsScan(scans[k])
      BY <2>1 DEF AreScans
    <3>10. Holds(d, scans[k])
      BY <2>5, <3>1, <3>6, <3>8, <3>9, MatchedHolds
    <3> QED BY <3>10
  <2> QED BY <2>3, <2>4, <2>5
<1> QED BY <1>1, SurveyInvHolds, PTL

=============================================================================
