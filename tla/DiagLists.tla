------------------------------ MODULE DiagLists ------------------------------
(****************************************************************************)
(* The diagnostic lists of the compiler (diagnostic.c) and how they nest.   *)
(*                                                                          *)
(* The driver owns one DiagList.  While a module is imported, resolve_one   *)
(* (resolve.c) opens a list of its own for the module, lets the parser, the *)
(* nested imports and the checker passes report into it, and then re-emits  *)
(* the items that list kept, one by one, into the list of the importer.     *)
(* Both lists suppress cascades of errors, so an error may be hidden twice: *)
(* once in the list of the module and once when the survivors are merged.   *)
(*                                                                          *)
(* Messages, file names and positions are left out: an item is its severity *)
(* and its category.                                                        *)
(****************************************************************************)
EXTENDS Integers, Sequences, FiniteSets

CONSTANTS
  Category,               \* DiagCategory
  MaxErrorsPerCategory,   \* DIAG_MAX_ERRORS_PER_CATEGORY
  MaxTotalErrors,         \* DIAG_MAX_TOTAL_ERRORS
  MaxNesting,             \* bound of the model: lists open at once
  MaxReports              \* bound of the model: diagnostics the phases report

ASSUME LimitsAssumption ==
  /\ MaxErrorsPerCategory \in Nat \ {0}
  /\ MaxTotalErrors \in Nat \ {0}
  /\ MaxNesting \in Nat \ {0}
  /\ MaxReports \in Nat

Severity == {"error", "warning", "note"}
Diagnostic == [severity : Severity, category : Category]

DiagList ==
  [items         : Seq(Diagnostic),
   errorCount    : Nat,
   warningCount  : Nat,
   categoryCount : [Category -> Nat],   \* category_error_count
   suppressed    : Nat,                 \* suppressed_count
   limitReached  : BOOLEAN]             \* total_limit_reached

NewList ==
  [items         |-> << >>,
   errorCount    |-> 0,
   warningCount  |-> 0,
   categoryCount |-> [c \in Category |-> 0],
   suppressed    |-> 0,
   limitReached  |-> FALSE]

------------------------------------------------------------------------------
(* diag_emit, one assignment at a time *)

Store(dl, d)         == [dl EXCEPT !.items = Append(@, d)]
CountError(dl)       == [dl EXCEPT !.errorCount = @ + 1]
CountWarning(dl)     == [dl EXCEPT !.warningCount = @ + 1]
CountCategory(dl, c) == [dl EXCEPT !.categoryCount[c] = @ + 1]
CountSuppressed(dl)  == [dl EXCEPT !.suppressed = @ + 1]
ReachLimit(dl)       == [dl EXCEPT !.limitReached = TRUE]

\* The item is stored and counted by its severity.
Keep(dl, d) ==
  CASE d.severity = "error"   -> CountError(Store(dl, d))
    [] d.severity = "warning" -> CountWarning(Store(dl, d))
    [] OTHER                  -> Store(dl, d)

\* Mutant of Hide: the hidden error is not counted as suppressed.
HideUncounted(dl) == CountError(dl)

\* The error is counted and not stored.
Hide(dl) == CountError(CountSuppressed(dl))

CategoryFull(dl, c) == dl.categoryCount[c] >= MaxErrorsPerCategory
\* Mutant of TotalFull: warnings count towards the limit too.
TotalFullOfWarnings(dl) == dl.errorCount + dl.warningCount >= MaxTotalErrors

TotalFull(dl) == dl.errorCount >= MaxTotalErrors

\* Mutant of Emit: the total limit is tested before the severity.
EmitLimitingWarnings(dl, d) ==
  LET counted == CountCategory(dl, d.category)
  IN  IF TotalFull(dl)                      THEN ReachLimit(Hide(counted))
      ELSE IF d.severity # "error"          THEN Keep(dl, d)
      ELSE IF CategoryFull(dl, d.category)  THEN Hide(counted)
      ELSE Keep(counted, d)

\* Only errors are subject to the limits; an error that its category hides
\* counts towards the total all the same.
Emit(dl, d) ==
  LET counted == CountCategory(dl, d.category)
  IN  IF d.severity # "error"               THEN Keep(dl, d)
      ELSE IF CategoryFull(dl, d.category)  THEN Hide(counted)
      ELSE IF TotalFull(dl)                 THEN ReachLimit(Hide(counted))
      ELSE Keep(counted, d)

HasErrors(dl) == dl.errorCount > 0

\* What diag_print_all tells of the errors of category c it does not show.
AndMore(dl, c) ==
  IF dl.categoryCount[c] > MaxErrorsPerCategory
  THEN dl.categoryCount[c] - MaxErrorsPerCategory
  ELSE 0

------------------------------------------------------------------------------
VARIABLES
  lists,     \* the open lists: the driver's first, the innermost import's last
  merging,   \* the innermost list is being re-emitted into the one below
  merged,    \* how many of its items already were
  reports,   \* history: the diagnostics the phases reported, per severity
  raised     \* history: the categories in which an error was reported

vars == <<lists, merging, merged, reports, raised>>

Top == Len(lists)

Init ==
  /\ lists = <<NewList>>
  /\ merging = FALSE
  /\ merged = 0
  /\ reports = [s \in Severity |-> 0]
  /\ raised = {}

TotalReports == reports["error"] + reports["warning"] + reports["note"]

\* The parser or a checker pass reports into the innermost list.
Report(d) ==
  /\ ~merging
  /\ TotalReports < MaxReports
  /\ lists' = [lists EXCEPT ![Top] = Emit(@, d)]
  /\ reports' = [reports EXCEPT ![d.severity] = @ + 1]
  /\ raised' = IF d.severity = "error" THEN raised \cup {d.category} ELSE raised
  /\ UNCHANGED <<merging, merged>>

\* resolve_one starts on an imported module.
OpenImport ==
  /\ ~merging
  /\ Top < MaxNesting
  /\ lists' = Append(lists, NewList)
  /\ UNCHANGED <<merging, merged, reports, raised>>

\* The passes on the imported module are over; the merge loop is entered.
StartMerge ==
  /\ ~merging
  /\ Top > 1
  /\ merging' = TRUE
  /\ merged' = 0
  /\ UNCHANGED <<lists, reports, raised>>

\* One turn of the merge loop.
MergeItem ==
  /\ merging
  /\ merged < Len(lists[Top].items)
  /\ lists' = [lists EXCEPT ![Top - 1] = Emit(@, lists[Top].items[merged + 1])]
  /\ merged' = merged + 1
  /\ UNCHANGED <<merging, reports, raised>>

\* Mutant of CloseImport: the loop stops one item early.
CloseImportEarly ==
  /\ merging
  /\ merged + 1 >= Len(lists[Top].items)
  /\ lists' = SubSeq(lists, 1, Top - 1)
  /\ merging' = FALSE
  /\ merged' = 0
  /\ UNCHANGED <<reports, raised>>

\* diag_list_free(import_diags): what the list counted but did not keep is gone.
CloseImport ==
  /\ merging
  /\ merged = Len(lists[Top].items)
  /\ lists' = SubSeq(lists, 1, Top - 1)
  /\ merging' = FALSE
  /\ merged' = 0
  /\ UNCHANGED <<reports, raised>>

Next ==
  \/ \E d \in Diagnostic : Report(d)
  \/ OpenImport
  \/ StartMerge
  \/ MergeItem
  \/ CloseImport

Spec == Init /\ [][Next]_vars

------------------------------------------------------------------------------
(* Properties *)

TypeOK ==
  /\ lists \in Seq(DiagList)
  /\ Len(lists) >= 1
  /\ merging \in BOOLEAN
  /\ merged \in Nat
  /\ merging => /\ Len(lists) > 1
                /\ merged <= Len(lists[Len(lists)].items)
  /\ reports \in [Severity -> Nat]
  /\ raised \subseteq Category

ShowsError(dl) == \E i \in 1..Len(dl.items) : dl.items[i].severity = "error"

\* A list that counts errors shows at least one of them, and only then fails the
\* compilation: the limits of diag_emit never hide the first error of a list.
FailureIsShown == \A n \in 1..Len(lists) : HasErrors(lists[n]) <=> ShowsError(lists[n])

\* An error reported anywhere, in the file or in a module imported at any depth,
\* is still on some open list; once every import is closed it is on the driver's
\* list, so the driver's test of diag_has_errors refuses to generate code.
ErrorsReachTheDriver ==
  /\ raised # {} <=> \E n \in 1..Len(lists) : HasErrors(lists[n])
  /\ Len(lists) = 1 => (HasErrors(lists[1]) <=> raised # {})

Shown(dl, severity) ==
  Cardinality({i \in 1..Len(dl.items) : dl.items[i].severity = severity})

\* The sum of the numbers f[c]: a pair for each of the f[c] of every category.
SumOverCategories(f) == Cardinality(UNION {{c} \X (1..f[c]) : c \in Category})

\* Every error is either shown or announced: the errors of a list are the ones it
\* shows and the ones it suppressed, and diag_print_all announces the suppressed
\* ones with "and N more" lines of exactly that total, or else with the limit
\* message, which is printed only by a list that counts more errors than the limit.
Announced(dl) ==
  /\ dl.errorCount = Shown(dl, "error") + dl.suppressed
  /\ dl.errorCount = SumOverCategories(dl.categoryCount)
  /\ IF dl.limitReached
     THEN dl.errorCount > MaxTotalErrors
     ELSE dl.suppressed = SumOverCategories([c \in Category |-> AndMore(dl, c)])

HiddenIsAnnounced == \A n \in 1..Len(lists) : Announced(lists[n])

\* The items of a severity on the open lists, each at its place, without those that
\* were re-emitted into the list below.
Surviving(severity) ==
  UNION {{n} \X {i \in 1..Len(lists[n].items) :
                   /\ lists[n].items[i].severity = severity
                   /\ n = Top => i > merged} : n \in 1..Len(lists)}

\* "warnings are never suppressed" (comment in diag_emit): every warning and note
\* reported so far is on exactly one open list, whatever was hidden around it.
WarningsSurvive ==
  \A s \in {"warning", "note"} : reports[s] = Cardinality(Surviving(s))

==============================================================================
