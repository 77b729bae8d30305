--------------------------- MODULE DiagListsProofs ---------------------------
(****************************************************************************)
(* That cascade suppression never swallows a failure, for every number of   *)
(* categories, every limit of at least one and every nesting of imports.    *)
(*                                                                          *)
(* FailureIsShown is not inductive: that diag_emit hides an error of a full *)
(* category is harmless only because a full category means a counted error, *)
(* and that closing an import is harmless only because the merge has        *)
(* re-emitted an error item if there was one.  Inv adds both.               *)
(****************************************************************************)
EXTENDS DiagLists, FiniteSetTheorems, SequenceTheorems, TLAPS

\* A list is consistent when it fails exactly if it shows an error, and no
\* category counts more errors than the list.
Consistent(dl) ==
  /\ HasErrors(dl) <=> ShowsError(dl)
  /\ \A c \in Category : dl.categoryCount[c] <= dl.errorCount

\* During a merge, the error items already re-emitted are accounted for in the
\* list below, which is what makes closing the import safe.
MergedErrorsCounted ==
  merging =>
    ((\E i \in 1..merged : lists[Top].items[i].severity = "error")
        => HasErrors(lists[Top - 1]))

Inv ==
  /\ TypeOK
  /\ \A n \in 1..Len(lists) : Consistent(lists[n])
  /\ raised # {} <=> \E n \in 1..Len(lists) : HasErrors(lists[n])
  /\ MergedErrorsCounted

------------------------------------------------------------------------------
(* diag_emit *)

\* diag_list_new gives a well-typed list that counts no error.
LEMMA NewListFacts == NewList \in DiagList /\ Consistent(NewList) /\ ~HasErrors(NewList)
  BY LimitsAssumption DEF NewList, DiagList, Consistent, HasErrors, ShowsError

\* Each assignment of diag_emit, and what it leaves alone.
LEMMA CounterFacts ==
  ASSUME NEW dl \in DiagList
  PROVE  /\ /\ CountError(dl) \in DiagList
            /\ CountError(dl).items = dl.items
            /\ CountError(dl).errorCount = dl.errorCount + 1
            /\ CountError(dl).categoryCount = dl.categoryCount
         /\ /\ CountWarning(dl) \in DiagList
            /\ CountWarning(dl).items = dl.items
            /\ CountWarning(dl).errorCount = dl.errorCount
            /\ CountWarning(dl).categoryCount = dl.categoryCount
         /\ /\ CountSuppressed(dl) \in DiagList
            /\ CountSuppressed(dl).items = dl.items
            /\ CountSuppressed(dl).errorCount = dl.errorCount
            /\ CountSuppressed(dl).categoryCount = dl.categoryCount
         /\ /\ ReachLimit(dl) \in DiagList
            /\ ReachLimit(dl).items = dl.items
            /\ ReachLimit(dl).errorCount = dl.errorCount
            /\ ReachLimit(dl).categoryCount = dl.categoryCount
<1>1. /\ CountError(dl) \in DiagList
      /\ CountError(dl).items = dl.items
      /\ CountError(dl).errorCount = dl.errorCount + 1
      /\ CountError(dl).categoryCount = dl.categoryCount
  <2>1. CountError(dl) \in DiagList
    <3> DEFINE more == dl.errorCount + 1
    <3>1. more \in Nat
      BY DEF DiagList
    <3>2. CountError(dl) = [dl EXCEPT !.errorCount = more]
      BY DEF CountError
    <3> HIDE DEF more
    <3> QED BY <3>1, <3>2 DEF DiagList
  <2>2. /\ CountError(dl).items = dl.items
        /\ CountError(dl).categoryCount = dl.categoryCount
    BY DEF CountError, DiagList
  <2>3. CountError(dl).errorCount = dl.errorCount + 1
    BY DEF CountError, DiagList
  <2> QED BY <2>1, <2>2, <2>3
<1>2. /\ CountWarning(dl) \in DiagList
      /\ CountWarning(dl).items = dl.items
      /\ CountWarning(dl).errorCount = dl.errorCount
      /\ CountWarning(dl).categoryCount = dl.categoryCount
  <2>1. CountWarning(dl) \in DiagList
    BY DEF CountWarning, DiagList
  <2>2. /\ CountWarning(dl).items = dl.items
        /\ CountWarning(dl).categoryCount = dl.categoryCount
    BY DEF CountWarning, DiagList
  <2>3. CountWarning(dl).errorCount = dl.errorCount
    BY DEF CountWarning, DiagList
  <2> QED BY <2>1, <2>2, <2>3
<1>3. /\ CountSuppressed(dl) \in DiagList
      /\ CountSuppressed(dl).items = dl.items
      /\ CountSuppressed(dl).errorCount = dl.errorCount
      /\ CountSuppressed(dl).categoryCount = dl.categoryCount
  <2>1. CountSuppressed(dl) \in DiagList
    BY DEF CountSuppressed, DiagList
  <2>2. /\ CountSuppressed(dl).items = dl.items
        /\ CountSuppressed(dl).categoryCount = dl.categoryCount
    BY DEF CountSuppressed, DiagList
  <2>3. CountSuppressed(dl).errorCount = dl.errorCount
    BY DEF CountSuppressed, DiagList
  <2> QED BY <2>1, <2>2, <2>3
<1>4. /\ ReachLimit(dl) \in DiagList
      /\ ReachLimit(dl).items = dl.items
      /\ ReachLimit(dl).errorCount = dl.errorCount
      /\ ReachLimit(dl).categoryCount = dl.categoryCount
  <2>1. ReachLimit(dl) \in DiagList
    BY DEF ReachLimit, DiagList
  <2>2. /\ ReachLimit(dl).items = dl.items
        /\ ReachLimit(dl).categoryCount = dl.categoryCount
    BY DEF ReachLimit, DiagList
  <2>3. ReachLimit(dl).errorCount = dl.errorCount
    BY DEF ReachLimit, DiagList
  <2> QED BY <2>1, <2>2, <2>3
<1> QED BY <1>1, <1>2, <1>3, <1>4

\* Counting a category changes no other count and no item.
LEMMA CountCategoryFacts ==
  ASSUME NEW dl \in DiagList, NEW c \in Category
  PROVE  /\ CountCategory(dl, c) \in DiagList
         /\ CountCategory(dl, c).items = dl.items
         /\ CountCategory(dl, c).errorCount = dl.errorCount
         /\ CountCategory(dl, c).categoryCount =
              [dl.categoryCount EXCEPT ![c] = @ + 1]
<1> DEFINE new == [dl.categoryCount EXCEPT ![c] = @ + 1]
<1>1. new \in [Category -> Nat]
  BY DEF DiagList
<1>2. CountCategory(dl, c) = [dl EXCEPT !.categoryCount = new]
  BY DEF CountCategory
<1> HIDE DEF new
<1>3. CountCategory(dl, c) \in DiagList
  BY <1>1, <1>2 DEF DiagList
<1>4. /\ CountCategory(dl, c).items = dl.items
      /\ CountCategory(dl, c).errorCount = dl.errorCount
      /\ CountCategory(dl, c).categoryCount = new
  BY <1>2 DEF DiagList
<1> QED BY <1>3, <1>4 DEF new

\* Storing an item keeps the counts, and shows an error if the item is one.
LEMMA StoreFacts ==
  ASSUME NEW dl \in DiagList, NEW d \in Diagnostic
  PROVE  /\ Store(dl, d) \in DiagList
         /\ Store(dl, d).items = Append(dl.items, d)
         /\ Store(dl, d).errorCount = dl.errorCount
         /\ Store(dl, d).categoryCount = dl.categoryCount
<1>1. Append(dl.items, d) \in Seq(Diagnostic)
  BY DEF DiagList
<1> QED BY <1>1 DEF Store, DiagList

\* Hiding an error counts it and stores nothing.
LEMMA HideFacts ==
  ASSUME NEW dl \in DiagList
  PROVE  /\ Hide(dl) \in DiagList
         /\ Hide(dl).items = dl.items
         /\ Hide(dl).errorCount = dl.errorCount + 1
         /\ Hide(dl).categoryCount = dl.categoryCount
<1>1. CountSuppressed(dl) \in DiagList
  BY CounterFacts
<1> QED BY <1>1, CounterFacts DEF Hide

\* Keeping an item shows it if it is an error.
LEMMA KeepFacts ==
  ASSUME NEW dl \in DiagList, NEW d \in Diagnostic
  PROVE  /\ Keep(dl, d) \in DiagList
         /\ Keep(dl, d).categoryCount = dl.categoryCount
         /\ Keep(dl, d).errorCount =
              IF d.severity = "error" THEN dl.errorCount + 1 ELSE dl.errorCount
         /\ ShowsError(Keep(dl, d)) <=> ShowsError(dl) \/ d.severity = "error"
<1>1. /\ Keep(dl, d) \in DiagList
      /\ Keep(dl, d).items = Append(dl.items, d)
      /\ Keep(dl, d).categoryCount = dl.categoryCount
      /\ Keep(dl, d).errorCount =
           IF d.severity = "error" THEN dl.errorCount + 1 ELSE dl.errorCount
  BY StoreFacts, CounterFacts DEF Keep
<1>2. /\ Len(Append(dl.items, d)) = Len(dl.items) + 1
      /\ \A i \in 1..Len(dl.items) : Append(dl.items, d)[i] = dl.items[i]
      /\ Append(dl.items, d)[Len(dl.items) + 1] = d
      /\ Len(dl.items) \in Nat
  BY DEF DiagList
<1> QED BY <1>1, <1>2 DEF ShowsError

\* diag_emit keeps a list consistent; the list fails afterwards if it failed
\* before or if the diagnostic is an error, whether or not the error is shown.
LEMMA EmitFacts ==
  ASSUME NEW dl \in DiagList, NEW d \in Diagnostic, Consistent(dl)
  PROVE  /\ Emit(dl, d) \in DiagList
         /\ Consistent(Emit(dl, d))
         /\ HasErrors(Emit(dl, d)) <=> HasErrors(dl) \/ d.severity = "error"
<1> DEFINE counted == CountCategory(dl, d.category)
<1>0. d.category \in Category /\ dl.errorCount \in Nat
  BY DEF Diagnostic, DiagList
<1>4. /\ counted \in DiagList
      /\ counted.items = dl.items
      /\ counted.errorCount = dl.errorCount
      /\ \A c \in Category : counted.categoryCount[c] <= dl.errorCount + 1
  <2>1. /\ counted \in DiagList
        /\ counted.items = dl.items
        /\ counted.errorCount = dl.errorCount
        /\ counted.categoryCount = [dl.categoryCount EXCEPT ![d.category] = @ + 1]
    BY <1>0, CountCategoryFacts
  <2> QED BY <1>0, <2>1 DEF Consistent, DiagList
<1> HIDE DEF counted
<1>1. CASE d.severity # "error"
  <2>1. Emit(dl, d) = Keep(dl, d)
    BY <1>1 DEF Emit
  <2> QED BY <1>0, <1>1, <2>1, KeepFacts DEF Consistent, HasErrors
<1>2. CASE d.severity = "error" /\ (CategoryFull(dl, d.category) \/ TotalFull(dl))
  <2>1. Emit(dl, d) = Hide(counted) \/ Emit(dl, d) = ReachLimit(Hide(counted))
    BY <1>2 DEF Emit, counted
  <2>2. Hide(counted) \in DiagList
    BY <1>4, HideFacts
  <2>3. /\ Emit(dl, d) \in DiagList
        /\ Emit(dl, d).items = dl.items
        /\ Emit(dl, d).errorCount = dl.errorCount + 1
        /\ Emit(dl, d).categoryCount = counted.categoryCount
    BY <1>4, <2>1, <2>2, HideFacts, CounterFacts
  <2>4. HasErrors(dl)
    BY <1>0, <1>2, LimitsAssumption
    DEF CategoryFull, TotalFull, HasErrors, Consistent, DiagList
  <2>5. ShowsError(Emit(dl, d)) /\ HasErrors(Emit(dl, d))
    BY <1>0, <2>3, <2>4 DEF Consistent, ShowsError, HasErrors
  <2>6. \A c \in Category : Emit(dl, d).categoryCount[c] <= Emit(dl, d).errorCount
    BY <1>0, <1>4, <2>3
  <2> QED BY <2>3, <2>4, <2>5, <2>6 DEF Consistent
<1>3. CASE d.severity = "error" /\ ~CategoryFull(dl, d.category) /\ ~TotalFull(dl)
  <2>1. Emit(dl, d) = Keep(counted, d)
    BY <1>3 DEF Emit, counted
  <2>3. /\ Emit(dl, d) \in DiagList
        /\ Emit(dl, d).errorCount = dl.errorCount + 1
        /\ Emit(dl, d).categoryCount = counted.categoryCount
        /\ ShowsError(Emit(dl, d))
    BY <1>3, <1>4, <2>1, KeepFacts
  <2>4. HasErrors(Emit(dl, d))
    BY <1>0, <2>3 DEF HasErrors
  <2>5. \A c \in Category : Emit(dl, d).categoryCount[c] <= Emit(dl, d).errorCount
    BY <1>0, <1>4, <2>3
  <2> QED BY <1>3, <2>3, <2>4, <2>5 DEF Consistent
<1> QED BY <1>1, <1>2, <1>3

------------------------------------------------------------------------------
(* The inductive invariant *)

\* The strengthened invariant holds when the driver has opened its list.
LEMMA InvInit == Init => Inv
<1> SUFFICES ASSUME Init PROVE Inv
  OBVIOUS
<1>1. TypeOK
  <2>1. /\ lists \in Seq(DiagList) /\ Len(lists) = 1
    BY NewListFacts DEF Init
  <2>2. [s \in Severity |-> 0] \in [Severity -> Nat]
    OBVIOUS
  <2>3. /\ merging = FALSE /\ merged = 0
        /\ reports = [s \in Severity |-> 0] /\ raised = {}
    BY DEF Init
  <2>4. 0 \in Nat /\ Len(lists) >= 1
    BY <2>1
  <2> QED BY <2>1, <2>2, <2>3, <2>4, Zenon DEF TypeOK
<1>2. /\ \A n \in 1..Len(lists) : Consistent(lists[n])
      /\ ~ \E n \in 1..Len(lists) : HasErrors(lists[n])
  BY NewListFacts DEF Init
<1>3. MergedErrorsCounted
  BY DEF Init, MergedErrorsCounted
<1> QED BY <1>1, <1>2, <1>3 DEF Inv, Init

\* A report changes the innermost list only (diag_emit).
LEMMA InvReport ==
  ASSUME Inv, NEW d \in Diagnostic, Report(d)
  PROVE  Inv'
<1> USE DEF Top
<1>0. /\ lists \in Seq(DiagList) /\ Len(lists) \in Nat \ {0}
      /\ lists[Len(lists)] \in DiagList /\ Consistent(lists[Len(lists)])
      /\ d.severity \in Severity /\ d.category \in Category
  BY DEF Inv, TypeOK, Diagnostic
<1> DEFINE new == Emit(lists[Len(lists)], d)
<1>1. /\ new \in DiagList /\ Consistent(new)
      /\ HasErrors(new) <=> HasErrors(lists[Len(lists)]) \/ d.severity = "error"
  BY <1>0, EmitFacts
<1>2. /\ lists' \in Seq(DiagList) /\ Len(lists') = Len(lists)
      /\ \A n \in 1..Len(lists) : lists'[n] = IF n = Len(lists) THEN new ELSE lists[n]
  BY <1>0, <1>1 DEF Report
<1>3. TypeOK'
  <2>1. reports' \in [Severity -> Nat]
    BY <1>0 DEF Inv, TypeOK, Report
  <2>2. raised' \subseteq Category
    BY <1>0 DEF Inv, TypeOK, Report
  <2> QED BY <1>0, <1>2, <2>1, <2>2 DEF Inv, TypeOK, Report
<1>4. \A n \in 1..Len(lists') : Consistent(lists'[n])
  BY <1>1, <1>2 DEF Inv
<1>5. raised' # {} <=> \E n \in 1..Len(lists') : HasErrors(lists'[n])
  <2>1. raised' # {} <=> raised # {} \/ d.severity = "error"
    BY <1>0 DEF Report
  <2>2. (\E n \in 1..Len(lists) : HasErrors(lists'[n]))
          <=> (\E n \in 1..Len(lists) : HasErrors(lists[n])) \/ d.severity = "error"
    <3>1. Len(lists) \in 1..Len(lists)
      BY <1>0
    <3> QED BY <1>1, <1>2, <3>1
  <2> QED BY <1>2, <2>1, <2>2 DEF Inv
<1>6. MergedErrorsCounted'
  BY DEF Report, MergedErrorsCounted
<1> QED BY <1>3, <1>4, <1>5, <1>6 DEF Inv

\* A list that was just opened counts no error (resolve_one).
LEMMA InvOpenImport ==
  ASSUME Inv, OpenImport
  PROVE  Inv'
<1>1. /\ lists' \in Seq(DiagList) /\ Len(lists') = Len(lists) + 1
      /\ Len(lists) \in Nat \ {0}
      /\ \A n \in 1..Len(lists) : lists'[n] = lists[n]
      /\ lists'[Len(lists) + 1] = NewList
  BY NewListFacts DEF Inv, TypeOK, OpenImport
<1>2. TypeOK'
  BY <1>1 DEF Inv, TypeOK, OpenImport
<1>3. /\ \A n \in 1..Len(lists') : Consistent(lists'[n])
      /\ raised' # {} <=> \E n \in 1..Len(lists') : HasErrors(lists'[n])
  BY <1>1, NewListFacts DEF Inv, OpenImport
<1>4. MergedErrorsCounted'
  BY DEF OpenImport, MergedErrorsCounted
<1> QED BY <1>2, <1>3, <1>4 DEF Inv

\* When a merge starts no item was merged yet (resolve_one).
LEMMA InvStartMerge ==
  ASSUME Inv, StartMerge
  PROVE  Inv'
<1>1. /\ merging' = TRUE /\ merged' = 0 /\ lists' = lists /\ reports' = reports /\ raised' = raised
      /\ Len(lists) > 1
  BY DEF StartMerge, Top
<1>2. /\ lists \in Seq(DiagList) /\ Len(lists) \in Nat
      /\ reports \in [Severity -> Nat] /\ raised \subseteq Category
  BY DEF Inv, TypeOK
<1>3. Len(lists[Len(lists)].items) \in Nat
  <2>1. lists[Len(lists)] \in DiagList
    BY <1>1, <1>2
  <2> QED BY <2>1 DEF DiagList
<1>4. TypeOK'
  BY <1>1, <1>2, <1>3 DEF TypeOK
<1>5. MergedErrorsCounted'
  BY <1>1 DEF MergedErrorsCounted
<1> QED BY <1>1, <1>4, <1>5 DEF Inv

\* Merging an item makes the list below count an error if the item is one.
LEMMA InvMergeItem ==
  ASSUME Inv, MergeItem
  PROVE  Inv'
<1> DEFINE below == Len(lists) - 1
           item  == lists[Len(lists)].items[merged + 1]
           new   == Emit(lists[below], item)
<1>0. /\ lists \in Seq(DiagList) /\ below \in 1..Len(lists) /\ below # Len(lists)
      /\ Len(lists) \in Nat
      /\ lists[Len(lists)].items \in Seq(Diagnostic)
      /\ merged \in Nat /\ merged < Len(lists[Len(lists)].items)
      /\ merging
  <2>1. /\ lists \in Seq(DiagList) /\ Len(lists) > 1 /\ merged \in Nat
        /\ merging /\ merged < Len(lists[Len(lists)].items)
    BY DEF Inv, TypeOK, MergeItem, Top
  <2>2. lists[Len(lists)] \in DiagList
    BY <2>1
  <2> QED BY <2>1, <2>2 DEF DiagList
<1>1. /\ item \in Diagnostic
      /\ lists[below] \in DiagList /\ Consistent(lists[below])
  BY <1>0 DEF Inv
<1>2. /\ new \in DiagList /\ Consistent(new)
      /\ HasErrors(new) <=> HasErrors(lists[below]) \/ item.severity = "error"
  BY <1>1, EmitFacts
<1> HIDE DEF new
<1>3. /\ lists' \in Seq(DiagList) /\ Len(lists') = Len(lists)
      /\ \A n \in 1..Len(lists) : lists'[n] = IF n = below THEN new ELSE lists[n]
  BY <1>0, <1>2 DEF MergeItem, Top, new
<1>4. TypeOK'
  <2>1. lists'[Len(lists)] = lists[Len(lists)]
    BY <1>0, <1>3
  <2>2. merging' = merging /\ merged' = merged + 1 /\ reports' = reports /\ raised' = raised
    BY DEF MergeItem
  <2>3. merged' \in Nat /\ Len(lists) > 1 /\ merged' <= Len(lists[Len(lists)].items)
    BY <1>0, <2>2
  <2> QED BY <1>0, <1>3, <2>1, <2>2, <2>3 DEF Inv, TypeOK
<1>5. \A n \in 1..Len(lists') : Consistent(lists'[n])
  BY <1>2, <1>3 DEF Inv
<1>6. item.severity = "error" => HasErrors(lists[Len(lists)])
  <2>1. item.severity = "error" => ShowsError(lists[Len(lists)])
    BY <1>0 DEF ShowsError
  <2> QED BY <1>0, <2>1 DEF Inv, Consistent
<1>7. raised' # {} <=> \E n \in 1..Len(lists') : HasErrors(lists'[n])
  <2>1. ASSUME NEW n \in 1..Len(lists), HasErrors(lists[n])
        PROVE  \E k \in 1..Len(lists) : HasErrors(lists'[k])
    <3>1. CASE n = below
      <4>1. HasErrors(lists'[below])
        BY <1>0, <1>2, <1>3, <2>1, <3>1
      <4> QED BY <1>0, <4>1
    <3>2. CASE n # below
      <4>1. lists'[n] = lists[n]
        BY <1>3, <3>2
      <4> QED BY <2>1, <4>1
    <3> QED BY <3>1, <3>2
  <2>2. ASSUME NEW n \in 1..Len(lists), HasErrors(lists'[n])
        PROVE  \E k \in 1..Len(lists) : HasErrors(lists[k])
    <3>1. CASE n = below
      <4>1. HasErrors(lists[below]) \/ HasErrors(lists[Len(lists)])
        BY <1>2, <1>3, <1>6, <2>2, <3>1
      <4>2. Len(lists) \in 1..Len(lists)
        BY <1>0
      <4> QED BY <1>0, <4>1, <4>2
    <3>2. CASE n # below
      <4>1. lists'[n] = lists[n]
        BY <1>3, <3>2
      <4> QED BY <2>2, <4>1
    <3> QED BY <3>1, <3>2
  <2>3. (\E n \in 1..Len(lists) : HasErrors(lists[n]))
          <=> \E n \in 1..Len(lists) : HasErrors(lists'[n])
    BY <2>1, <2>2
  <2> QED BY <1>3, <2>3 DEF Inv, MergeItem
<1>8. MergedErrorsCounted'
  <2>0. /\ lists'[Len(lists')].items = lists[Len(lists)].items
        /\ lists'[Len(lists') - 1] = new
        /\ merged' = merged + 1
    <3>1. lists'[Len(lists)] = lists[Len(lists)] /\ lists'[below] = new
      BY <1>0, <1>3
    <3>2. Len(lists') = Len(lists) /\ merged' = merged + 1
      BY <1>3 DEF MergeItem
    <3> QED BY <3>1, <3>2
  <2> SUFFICES ASSUME NEW i \in 1..(merged + 1),
                      lists[Len(lists)].items[i].severity = "error"
               PROVE  HasErrors(new)
    BY <2>0 DEF MergedErrorsCounted, Top
  <2>1. CASE i = merged + 1
    BY <1>2, <2>1
  <2>2. CASE i \in 1..merged
    BY <1>0, <1>2, <2>2 DEF Inv, MergedErrorsCounted, Top
  <2> QED BY <1>0, <2>1, <2>2
<1> QED BY <1>4, <1>5, <1>7, <1>8 DEF Inv

\* Closing an import forgets its list: if it failed it showed an error, every item
\* was merged, so the list below fails too.
LEMMA InvCloseImport ==
  ASSUME Inv, CloseImport
  PROVE  Inv'
<1>0. /\ lists \in Seq(DiagList) /\ Len(lists) \in Nat /\ Len(lists) > 1
      /\ merging /\ merged = Len(lists[Len(lists)].items)
  BY DEF Inv, TypeOK, CloseImport, Top
<1>1. /\ lists' \in Seq(DiagList) /\ Len(lists') = Len(lists) - 1
      /\ \A n \in 1..(Len(lists) - 1) : lists'[n] = lists[n]
  BY <1>0 DEF CloseImport, Top
<1>2. HasErrors(lists[Len(lists)]) => HasErrors(lists[Len(lists) - 1])
  <2>1. HasErrors(lists[Len(lists)]) => ShowsError(lists[Len(lists)])
    BY <1>0 DEF Inv, Consistent
  <2> QED BY <1>0, <2>1 DEF Inv, MergedErrorsCounted, ShowsError, Top
<1>3. TypeOK'
  <2>1. merging' = FALSE /\ merged' = 0 /\ reports' = reports /\ raised' = raised
    BY DEF CloseImport
  <2>2. Len(lists') >= 1 /\ 0 \in Nat
    BY <1>0, <1>1
  <2> QED BY <1>1, <2>1, <2>2, Zenon DEF Inv, TypeOK
<1>4. \A n \in 1..Len(lists') : Consistent(lists'[n])
  BY <1>0, <1>1 DEF Inv
<1>5. raised' # {} <=> \E n \in 1..Len(lists') : HasErrors(lists'[n])
  <2>1. (\E n \in 1..Len(lists) : HasErrors(lists[n]))
          <=> \E n \in 1..(Len(lists) - 1) : HasErrors(lists[n])
    BY <1>0, <1>2
  <2> QED BY <1>0, <1>1, <2>1 DEF Inv, CloseImport
<1>6. MergedErrorsCounted'
  BY DEF CloseImport, MergedErrorsCounted
<1> QED BY <1>3, <1>4, <1>5, <1>6 DEF Inv

------------------------------------------------------------------------------
(* Theorems *)

\* The strengthened invariant of the nested lists holds in every reachable state.
THEOREM InvHolds == Spec => []Inv
<1>1. ASSUME Inv, [Next]_vars PROVE Inv'
  <2>1. CASE \E d \in Diagnostic : Report(d)
    BY <1>1, <2>1, InvReport
  <2>2. CASE OpenImport
    BY <1>1, <2>2, InvOpenImport
  <2>3. CASE StartMerge
    BY <1>1, <2>3, InvStartMerge
  <2>4. CASE MergeItem
    BY <1>1, <2>4, InvMergeItem
  <2>5. CASE CloseImport
    BY <1>1, <2>5, InvCloseImport
  <2>6. CASE UNCHANGED vars
    BY <1>1, <2>6 DEF vars, Inv, TypeOK, MergedErrorsCounted, Top
  <2> QED BY <1>1, <2>1, <2>2, <2>3, <2>4, <2>5, <2>6 DEF Next
<1> QED BY <1>1, InvInit, PTL DEF Spec

\* Every variable keeps its type: the lists stay well formed, and a merge is
\* always inside the items of the innermost list.
THEOREM TypeCorrect == Spec => []TypeOK
<1>1. Inv => TypeOK
  BY DEF Inv
<1> QED BY <1>1, InvHolds, PTL

\* Whatever the limits, a list fails exactly when it shows at least one error: a
\* failing compilation always names an error (diag_emit, diag_has_errors).
THEOREM FailuresAreShown == Spec => []FailureIsShown
<1>1. Inv => FailureIsShown
  BY DEF Inv, Consistent, FailureIsShown
<1> QED BY <1>1, InvHolds, PTL

\* An error reported in a module imported at any depth makes the driver's list
\* fail once the imports are closed (the merge of resolve_one).
THEOREM ErrorsReach == Spec => []ErrorsReachTheDriver
<1>1. Inv => ErrorsReachTheDriver
  BY DEF Inv, ErrorsReachTheDriver
<1> QED BY <1>1, InvHolds, PTL

------------------------------------------------------------------------------
(****************************************************************************)
(* That nothing is lost without a word: the counts of every list agree with *)
(* what it shows and announces, and every warning is on one open list.      *)
(*                                                                          *)
(* Sums are sizes of sets of pairs.  The counts of a list are related by    *)
(* diag_emit alone.  The warnings need one more fact: outside a merge no    *)
(* item counts as merged, so that a list that becomes the innermost again   *)
(* has all of its items.                                                    *)
(****************************************************************************)

\* A pair for every error counted in a category, and one for every error that its
\* category hides.
Pairs(f) == UNION {{c} \X (1..f[c]) : c \in Category}
More(dl) == [c \in Category |-> AndMore(dl, c)]

\* The errors that were counted are finitely many, and they are announced.
Accounted(dl) ==
  /\ IsFiniteSet(Pairs(dl.categoryCount))
  /\ IsFiniteSet(Pairs(More(dl)))
  /\ Announced(dl)

NothingMerged == ~merging => merged = 0

CountInv ==
  /\ Inv
  /\ \A n \in 1..Len(lists) : Accounted(lists[n])
  /\ NothingMerged
  /\ \A s \in {"warning", "note"} :
        IsFiniteSet(Surviving(s)) /\ reports[s] = Cardinality(Surviving(s))

------------------------------------------------------------------------------
(* Sums and items *)

\* Counting one more in a category adds one to the sum over the categories.
LEMMA SumIncrement ==
  ASSUME NEW f \in [Category -> Nat], NEW c \in Category, IsFiniteSet(Pairs(f))
  PROVE  /\ IsFiniteSet(Pairs([f EXCEPT ![c] = @ + 1]))
         /\ SumOverCategories([f EXCEPT ![c] = @ + 1]) = SumOverCategories(f) + 1
         /\ SumOverCategories(f) \in Nat
<1> DEFINE g == [f EXCEPT ![c] = @ + 1]
           new == <<c, f[c] + 1>>
<1>1. Pairs(g) = Pairs(f) \cup {new}
  <2>1. ASSUME NEW x \in Category, NEW k
        PROVE  <<x, k>> \in Pairs(g) <=> <<x, k>> \in Pairs(f) \/ <<x, k>> = new
    <3>1. \A h : <<x, k>> \in Pairs(h) <=> k \in 1..h[x]
      BY DEF Pairs
    <3>2. CASE x = c
      <4>1. g[x] = f[c] + 1 /\ f[c] \in Nat
        BY <3>2
      <4>2. k \in 1..(f[c] + 1) <=> k \in 1..f[c] \/ k = f[c] + 1
        BY <4>1
      <4>3. <<x, k>> = new <=> k = f[c] + 1
        BY <3>2
      <4> QED BY <3>1, <3>2, <4>1, <4>2, <4>3
    <3>3. CASE x # c
      <4>1. g[x] = f[x] /\ <<x, k>> # new
        BY <3>3
      <4> QED BY <3>1, <4>1
    <3> QED BY <3>2, <3>3
  <2>2. \A h : \A e \in Pairs(h) : \E x \in Category, k \in Int : e = <<x, k>>
    BY DEF Pairs
  <2>3. new \in Pairs(g)
    <3>1. f[c] + 1 \in 1..g[c]
      OBVIOUS
    <3> QED BY <3>1 DEF Pairs
  <2>4. Pairs(g) \subseteq Pairs(f) \cup {new}
    <3> SUFFICES ASSUME NEW e \in Pairs(g) PROVE e \in Pairs(f) \cup {new}
      OBVIOUS
    <3>1. PICK x \in Category, k \in Int : e = <<x, k>>
      BY <2>2
    <3> HIDE DEF g, new
    <3> QED BY <2>1, <3>1
  <2>5. Pairs(f) \subseteq Pairs(g)
    <3> SUFFICES ASSUME NEW e \in Pairs(f) PROVE e \in Pairs(g)
      OBVIOUS
    <3>1. PICK x \in Category, k \in Int : e = <<x, k>>
      BY <2>2
    <3> HIDE DEF g, new
    <3> QED BY <2>1, <3>1
  <2> QED BY <2>3, <2>4, <2>5
<1>2. new \notin Pairs(f)
  <2>1. f[c] \in Nat /\ f[c] + 1 \notin 1..f[c]
    OBVIOUS
  <2>2. new \in Pairs(f) => f[c] + 1 \in 1..f[c]
    BY DEF Pairs
  <2> QED BY <2>1, <2>2
<1> HIDE DEF new, g
<1>3. IsFiniteSet(Pairs(g)) /\ Cardinality(Pairs(g)) = Cardinality(Pairs(f)) + 1
  BY <1>1, <1>2, FS_AddElement
<1>4. Cardinality(Pairs(f)) \in Nat
  BY FS_CardinalityType
<1>5. \A h : SumOverCategories(h) = Cardinality(Pairs(h))
  BY DEF SumOverCategories, Pairs
<1> QED BY <1>3, <1>4, <1>5 DEF g

\* The number of items of a severity after one more item is stored.
LEMMA ShownAppend ==
  ASSUME NEW dl \in DiagList, NEW new, NEW d \in Diagnostic, new.items = Append(dl.items, d),
         NEW s
  PROVE  /\ Shown(new, s) = IF d.severity = s THEN Shown(dl, s) + 1 ELSE Shown(dl, s)
         /\ Shown(dl, s) \in Nat
<1> DEFINE l == Len(dl.items)
           A == {i \in 1..l : dl.items[i].severity = s}
           B == {i \in 1..Len(new.items) : new.items[i].severity = s}
<1>1. /\ l \in Nat /\ Len(new.items) = l + 1 /\ new.items[l + 1] = d
      /\ \A i \in 1..l : new.items[i] = dl.items[i]
  BY DEF DiagList
<1>2. Shown(dl, s) = Cardinality(A) /\ Shown(new, s) = Cardinality(B)
  BY DEF Shown
<1>3. B = IF d.severity = s THEN A \cup {l + 1} ELSE A
  <2> HIDE DEF l
  <2>1. \A i : i \in 1..(l + 1) <=> i \in 1..l \/ i = l + 1
    BY <1>1
  <2> QED BY <1>1, <2>1
<1>4. IsFiniteSet(A) /\ l + 1 \notin A
  <2>1. IsFiniteSet(1..l)
    BY <1>1, FS_Interval
  <2>2. A \subseteq 1..l
    OBVIOUS
  <2>3. l + 1 \notin 1..l
    BY <1>1
  <2> HIDE DEF A
  <2> QED BY <2>1, <2>2, <2>3, FS_Subset
<1> HIDE DEF A, B
<1>5. Cardinality(A) \in Nat
  BY <1>4, FS_CardinalityType
<1>6. Cardinality(A \cup {l + 1}) = Cardinality(A) + 1
  BY <1>4, FS_AddElement
<1> QED BY <1>2, <1>3, <1>5, <1>6

\* diag_emit stores a warning or note, and changes no count of errors.
StoresOther(new, dl, d) ==
  /\ new.items = Append(dl.items, d)
  /\ new.errorCount = dl.errorCount
  /\ new.suppressed = dl.suppressed
  /\ new.limitReached = dl.limitReached
  /\ new.categoryCount = dl.categoryCount

\* It counts an error, and stores it if no limit is reached.
CountsOneError(new, dl, d) ==
  /\ new.errorCount = dl.errorCount + 1
  /\ new.categoryCount = [dl.categoryCount EXCEPT ![d.category] = @ + 1]
  /\ IF CategoryFull(dl, d.category) \/ TotalFull(dl)
     THEN new.items = dl.items /\ new.suppressed = dl.suppressed + 1
     ELSE new.items = Append(dl.items, d) /\ new.suppressed = dl.suppressed
  /\ new.limitReached =
       IF ~CategoryFull(dl, d.category) /\ TotalFull(dl) THEN TRUE ELSE dl.limitReached

\* What diag_emit does to every counter of a list.
LEMMA EmitCounts ==
  ASSUME NEW dl \in DiagList, NEW d \in Diagnostic, NEW new, new = Emit(dl, d)
  PROVE  /\ d.severity # "error" => StoresOther(new, dl, d)
         /\ d.severity = "error" => CountsOneError(new, dl, d)
<1> DEFINE counted == CountCategory(dl, d.category)
<1>1. d.category \in Category
  BY DEF Diagnostic
<1>2. /\ counted.items = dl.items
      /\ counted.errorCount = dl.errorCount
      /\ counted.suppressed = dl.suppressed
      /\ counted.limitReached = dl.limitReached
      /\ counted.categoryCount = [dl.categoryCount EXCEPT ![d.category] = @ + 1]
      /\ counted \in DiagList
  <2>1. counted.suppressed = dl.suppressed /\ counted.limitReached = dl.limitReached
    BY DEF CountCategory, DiagList
  <2> QED BY <1>1, <2>1, CountCategoryFacts
<1> HIDE DEF counted
<1>3. ASSUME NEW l \in DiagList
      PROVE  /\ Hide(l).items = l.items
             /\ Hide(l).errorCount = l.errorCount + 1
             /\ Hide(l).suppressed = l.suppressed + 1
             /\ Hide(l).limitReached = l.limitReached
             /\ Hide(l).categoryCount = l.categoryCount
             /\ Hide(l) \in DiagList
  <2> DEFINE k == CountSuppressed(l)
  <2>1. /\ k \in DiagList /\ k.items = l.items /\ k.errorCount = l.errorCount
        /\ k.limitReached = l.limitReached /\ k.categoryCount = l.categoryCount
        /\ k.suppressed = l.suppressed + 1
    <3>1. k.limitReached = l.limitReached /\ k.suppressed = l.suppressed + 1
      BY DEF CountSuppressed, DiagList
    <3> QED BY <3>1, CounterFacts
  <2>2. Hide(l) = CountError(k)
    BY DEF Hide
  <2> HIDE DEF k
  <2>3. /\ CountError(k).suppressed = k.suppressed
        /\ CountError(k).limitReached = k.limitReached
    BY <2>1 DEF CountError, DiagList
  <2> QED BY <2>1, <2>2, <2>3, CounterFacts
<1>4. ASSUME NEW l \in DiagList
      PROVE  /\ ReachLimit(l).items = l.items
             /\ ReachLimit(l).errorCount = l.errorCount
             /\ ReachLimit(l).suppressed = l.suppressed
             /\ ReachLimit(l).limitReached = TRUE
             /\ ReachLimit(l).categoryCount = l.categoryCount
  BY DEF ReachLimit, DiagList
<1>5. ASSUME NEW l \in DiagList
      PROVE  /\ Keep(l, d).items = Append(l.items, d)
             /\ Keep(l, d).suppressed = l.suppressed
             /\ Keep(l, d).limitReached = l.limitReached
             /\ Keep(l, d).categoryCount = l.categoryCount
             /\ Keep(l, d).errorCount =
                  IF d.severity = "error" THEN l.errorCount + 1 ELSE l.errorCount
  <2>1. Append(l.items, d) \in Seq(Diagnostic)
    BY DEF DiagList
  <2>2. /\ Store(l, d) \in DiagList
        /\ Store(l, d).items = Append(l.items, d)
        /\ Store(l, d).errorCount = l.errorCount
        /\ Store(l, d).suppressed = l.suppressed
        /\ Store(l, d).limitReached = l.limitReached
        /\ Store(l, d).categoryCount = l.categoryCount
    BY <2>1 DEF Store, DiagList
  <2>3. ASSUME NEW k \in DiagList
        PROVE  /\ CountError(k).items = k.items /\ CountWarning(k).items = k.items
               /\ CountError(k).errorCount = k.errorCount + 1
               /\ CountWarning(k).errorCount = k.errorCount
               /\ CountError(k).suppressed = k.suppressed
               /\ CountWarning(k).suppressed = k.suppressed
               /\ CountError(k).limitReached = k.limitReached
               /\ CountWarning(k).limitReached = k.limitReached
               /\ CountError(k).categoryCount = k.categoryCount
               /\ CountWarning(k).categoryCount = k.categoryCount
    BY DEF CountError, CountWarning, DiagList
  <2>4. Keep(l, d) = IF d.severity = "error" THEN CountError(Store(l, d))
                     ELSE IF d.severity = "warning" THEN CountWarning(Store(l, d))
                     ELSE Store(l, d)
    BY DEF Keep
  <2> QED BY <2>2, <2>3, <2>4
<1>6. CASE d.severity # "error"
  <2>1. new = Keep(dl, d)
    BY <1>6 DEF Emit
  <2> QED BY <1>5, <1>6, <2>1 DEF StoresOther
<1>7. CASE d.severity = "error"
  <2>1. new = IF CategoryFull(dl, d.category) THEN Hide(counted)
              ELSE IF TotalFull(dl) THEN ReachLimit(Hide(counted))
              ELSE Keep(counted, d)
    BY <1>7 DEF Emit, counted
  <2>2. CASE CategoryFull(dl, d.category)
    BY <1>2, <1>3, <1>7, <2>1, <2>2 DEF CountsOneError
  <2>3. CASE ~CategoryFull(dl, d.category) /\ TotalFull(dl)
    <3> DEFINE h == Hide(counted)
    <3>1. new = ReachLimit(h)
      BY <2>1, <2>3
    <3>2. /\ h \in DiagList /\ h.items = dl.items /\ h.errorCount = dl.errorCount + 1
          /\ h.suppressed = dl.suppressed + 1 /\ h.categoryCount = counted.categoryCount
      BY <1>2, <1>3
    <3> HIDE DEF h
    <3>3. /\ new.items = dl.items /\ new.errorCount = dl.errorCount + 1
          /\ new.suppressed = dl.suppressed + 1 /\ new.categoryCount = counted.categoryCount
          /\ new.limitReached = TRUE
      BY <1>4, <3>1, <3>2
    <3> QED BY <1>2, <1>7, <2>3, <3>3 DEF CountsOneError
  <2>4. CASE ~CategoryFull(dl, d.category) /\ ~TotalFull(dl)
    BY <1>2, <1>5, <1>7, <2>1, <2>4 DEF CountsOneError
  <2> QED BY <2>2, <2>3, <2>4
<1> QED BY <1>6, <1>7

\* A list that was just opened has counted, shown and hidden nothing.
LEMMA NewListAccounted == Accounted(NewList)
<1>1. /\ NewList.items = << >> /\ NewList.errorCount = 0 /\ NewList.suppressed = 0
      /\ NewList.limitReached = FALSE
      /\ NewList.categoryCount = [c \in Category |-> 0]
  BY DEF NewList
<1>2. Pairs([c \in Category |-> 0]) = {}
  BY DEF Pairs
<1>3. More(NewList) = [c \in Category |-> 0]
  BY <1>1, LimitsAssumption DEF More, AndMore
<1>4. IsFiniteSet({}) /\ Cardinality({}) = 0
  BY FS_EmptySet
<1>5. SumOverCategories([c \in Category |-> 0]) = 0
  BY <1>2, <1>4 DEF SumOverCategories, Pairs
<1>6. Shown(NewList, "error") = 0
  <2>1. {i \in 1..Len(NewList.items) : NewList.items[i].severity = "error"} = {}
    BY <1>1
  <2> QED BY <1>4, <2>1 DEF Shown
<1>7. IsFiniteSet(Pairs(NewList.categoryCount)) /\ IsFiniteSet(Pairs(More(NewList)))
  BY <1>1, <1>2, <1>3, <1>4
<1>8. /\ SumOverCategories(NewList.categoryCount) = 0
      /\ SumOverCategories([c \in Category |-> AndMore(NewList, c)]) = 0
  BY <1>1, <1>3, <1>5 DEF More
<1>9. Announced(NewList)
  BY <1>1, <1>6, <1>8 DEF Announced
<1> QED BY <1>7, <1>9 DEF Accounted

\* diag_emit keeps a list accounted for: what it does not show it announces.
LEMMA EmitAccounted ==
  ASSUME NEW dl \in DiagList, NEW d \in Diagnostic, Accounted(dl)
  PROVE  Accounted(Emit(dl, d))
<1> DEFINE new == Emit(dl, d)
           c   == d.category
<1>1. /\ c \in Category /\ dl.errorCount \in Nat /\ dl.suppressed \in Nat
      /\ dl.categoryCount \in [Category -> Nat] /\ MaxErrorsPerCategory \in Nat
      /\ MaxTotalErrors \in Nat
  BY LimitsAssumption DEF Diagnostic, DiagList
<1>2. More(dl) \in [Category -> Nat]
  BY <1>1 DEF More, AndMore
<1>3. /\ dl.errorCount = Shown(dl, "error") + dl.suppressed
      /\ dl.errorCount = SumOverCategories(dl.categoryCount)
      /\ IF dl.limitReached
         THEN dl.errorCount > MaxTotalErrors
         ELSE dl.suppressed = SumOverCategories(More(dl))
      /\ IsFiniteSet(Pairs(dl.categoryCount)) /\ IsFiniteSet(Pairs(More(dl)))
  BY DEF Accounted, Announced, More
<1>4. CASE d.severity # "error"
  <2>1. /\ new.items = Append(dl.items, d) /\ new.errorCount = dl.errorCount
        /\ new.suppressed = dl.suppressed /\ new.limitReached = dl.limitReached
        /\ new.categoryCount = dl.categoryCount
    <3>1. new = Emit(dl, d)
      OBVIOUS
    <3> HIDE DEF new, c
    <3>2. StoresOther(new, dl, d)
      BY <1>4, <3>1, EmitCounts
    <3> QED BY <3>2 DEF StoresOther
  <2> HIDE DEF new
  <2>2. Shown(new, "error") = Shown(dl, "error")
    BY <1>4, <2>1, ShownAppend
  <2>3. More(new) = More(dl)
    BY <2>1 DEF More, AndMore
  <2>4. Accounted(new)
    BY <1>3, <2>1, <2>2, <2>3 DEF Accounted, Announced, More
  <2> QED BY <2>4 DEF new
<1>5. CASE d.severity = "error"
  <2>1. /\ new.errorCount = dl.errorCount + 1
        /\ new.categoryCount = [dl.categoryCount EXCEPT ![c] = @ + 1]
        /\ IF CategoryFull(dl, c) \/ TotalFull(dl)
           THEN new.items = dl.items /\ new.suppressed = dl.suppressed + 1
           ELSE new.items = Append(dl.items, d) /\ new.suppressed = dl.suppressed
        /\ new.limitReached = IF ~CategoryFull(dl, c) /\ TotalFull(dl)
                              THEN TRUE ELSE dl.limitReached
    <3>1. new = Emit(dl, d)
      OBVIOUS
    <3> HIDE DEF new
    <3>2. CountsOneError(new, dl, d)
      BY <1>5, <3>1, EmitCounts
    <3> QED BY <3>2 DEF CountsOneError
  <2> HIDE DEF new
  <2>2. /\ IsFiniteSet(Pairs(new.categoryCount))
        /\ SumOverCategories(new.categoryCount) = dl.errorCount + 1
    BY <1>1, <1>3, <2>1, SumIncrement
  <2>3. /\ Shown(new, "error") = IF CategoryFull(dl, c) \/ TotalFull(dl)
                                 THEN Shown(dl, "error") ELSE Shown(dl, "error") + 1
        /\ Shown(dl, "error") \in Nat
    <3>1. CASE CategoryFull(dl, c) \/ TotalFull(dl)
      <4>1. new.items = dl.items
        BY <2>1, <3>1
      <4>2. Shown(new, "error") = Shown(dl, "error")
        BY <4>1 DEF Shown
      <4>3. Shown(dl, "error") \in Nat
        <5> DEFINE l == Append(dl.items, d)
        <5>1. [items |-> l].items = l
          OBVIOUS
        <5> QED BY <5>1, ShownAppend
      <4> QED BY <3>1, <4>2, <4>3
    <3>2. CASE ~(CategoryFull(dl, c) \/ TotalFull(dl))
      <4>1. new.items = Append(dl.items, d)
        BY <2>1, <3>2
      <4> QED BY <1>5, <3>2, <4>1, ShownAppend
    <3> QED BY <3>1, <3>2
  <2>4. new.errorCount = Shown(new, "error") + new.suppressed
    <3>1. CASE CategoryFull(dl, c) \/ TotalFull(dl)
      <4>1. Shown(new, "error") = Shown(dl, "error") /\ new.suppressed = dl.suppressed + 1
        BY <2>1, <2>3, <3>1
      <4>2. /\ new.errorCount = dl.errorCount + 1
            /\ dl.errorCount = Shown(dl, "error") + dl.suppressed
            /\ Shown(dl, "error") \in Nat
        BY <1>3, <2>1, <2>3
      <4> QED BY <1>1, <4>1, <4>2
    <3>2. CASE ~(CategoryFull(dl, c) \/ TotalFull(dl))
      <4>1. Shown(new, "error") = Shown(dl, "error") + 1 /\ new.suppressed = dl.suppressed
        BY <2>1, <2>3, <3>2
      <4>2. /\ new.errorCount = dl.errorCount + 1
            /\ dl.errorCount = Shown(dl, "error") + dl.suppressed
            /\ Shown(dl, "error") \in Nat
        BY <1>3, <2>1, <2>3
      <4> QED BY <1>1, <4>1, <4>2
    <3> QED BY <3>1, <3>2
  <2>5. More(new) = IF CategoryFull(dl, c) THEN [More(dl) EXCEPT ![c] = @ + 1] ELSE More(dl)
    <3>1. ASSUME NEW x \in Category
          PROVE  AndMore(new, x) =
                   IF x = c /\ CategoryFull(dl, c) THEN AndMore(dl, x) + 1 ELSE AndMore(dl, x)
      <4>1. /\ dl.categoryCount[x] \in Nat
            /\ new.categoryCount[x] = IF x = c THEN dl.categoryCount[x] + 1
                                      ELSE dl.categoryCount[x]
        BY <1>1, <2>1
      <4> QED BY <1>1, <4>1 DEF AndMore, CategoryFull
    <3>2. \A x \in Category : More(new)[x] = AndMore(new, x) /\ More(dl)[x] = AndMore(dl, x)
      BY DEF More
    <3>3. More(new) = [x \in Category |-> More(new)[x]] /\ More(dl) = [x \in Category |-> More(dl)[x]]
      BY DEF More
    <3> QED BY <1>1, <3>1, <3>2, <3>3
  <2>6. IsFiniteSet(Pairs(More(new)))
    BY <1>1, <1>2, <1>3, <2>5, SumIncrement
  <2>7. IF new.limitReached
        THEN new.errorCount > MaxTotalErrors
        ELSE new.suppressed = SumOverCategories(More(new))
    <3>1. CASE new.limitReached
      <4>1. dl.limitReached \/ TotalFull(dl)
        BY <2>1, <3>1
      <4>2. dl.errorCount + 1 > MaxTotalErrors
        BY <1>1, <1>3, <4>1 DEF TotalFull
      <4> QED BY <2>1, <3>1, <4>2
    <3>2. CASE ~new.limitReached
      <4>1. ~dl.limitReached /\ (CategoryFull(dl, c) \/ ~TotalFull(dl))
        BY <2>1, <3>2
      <4>2. dl.suppressed = SumOverCategories(More(dl))
        BY <1>3, <4>1
      <4>3. CASE CategoryFull(dl, c)
        <5>1. SumOverCategories(More(new)) = SumOverCategories(More(dl)) + 1
          BY <1>1, <1>2, <1>3, <2>5, <4>3, SumIncrement
        <5> QED BY <2>1, <3>2, <4>2, <4>3, <5>1
      <4>4. CASE ~CategoryFull(dl, c)
        BY <2>1, <2>5, <3>2, <4>1, <4>2, <4>4
      <4> QED BY <4>3, <4>4
    <3> QED BY <3>1, <3>2
  <2>8. Accounted(new)
    BY <2>1, <2>2, <2>4, <2>6, <2>7 DEF Accounted, Announced, More
  <2> QED BY <2>8 DEF new
<1> QED BY <1>4, <1>5

------------------------------------------------------------------------------
(* The warnings on the open lists *)

\* The places of the items of severity s in the lists ls when m items of the last
\* list are in the list below it too.
Placed(ls, m, s) ==
  {e \in Nat \X Nat : /\ e[1] \in 1..Len(ls)
                      /\ e[2] \in 1..Len(ls[e[1]].items)
                      /\ ls[e[1]].items[e[2]].severity = s
                      /\ e[1] = Len(ls) => e[2] > m}

\* Those are the ones that Surviving counts, before and after a step.
LEMMA SurvivingIsPlaced ==
  ASSUME lists \in Seq(DiagList), lists' \in Seq(DiagList), NEW s
  PROVE  /\ Surviving(s) = Placed(lists, merged, s)
         /\ Surviving(s)' = Placed(lists', merged', s)
<1> DEFINE Union(ls, m) ==
         UNION {{n} \X {i \in 1..Len(ls[n].items) :
                          /\ ls[n].items[i].severity = s
                          /\ n = Len(ls) => i > m} : n \in 1..Len(ls)}
<1>1. ASSUME NEW ls \in Seq(DiagList), NEW m
      PROVE  Union(ls, m) = Placed(ls, m, s)
  <2>1. Len(ls) \in Nat /\ \A n \in 1..Len(ls) : Len(ls[n].items) \in Nat
    <3>1. \A n \in 1..Len(ls) : ls[n] \in DiagList
      OBVIOUS
    <3>2. \A dl \in DiagList : Len(dl.items) \in Nat
      BY DEF DiagList
    <3> QED BY <3>1, <3>2
  <2>2. Union(ls, m) \subseteq Placed(ls, m, s)
    <3> SUFFICES ASSUME NEW n \in 1..Len(ls), NEW i \in 1..Len(ls[n].items),
                        ls[n].items[i].severity = s, n = Len(ls) => i > m
                 PROVE  <<n, i>> \in Placed(ls, m, s)
      OBVIOUS
    <3>1. n \in Nat /\ i \in Nat
      BY <2>1
    <3> QED BY <3>1 DEF Placed
  <2>3. Placed(ls, m, s) \subseteq Union(ls, m)
    <3> SUFFICES ASSUME NEW e \in Placed(ls, m, s) PROVE e \in Union(ls, m)
      OBVIOUS
    <3>1. PICK n \in Nat, i \in Nat : e = <<n, i>>
      BY DEF Placed
    <3>2. /\ n \in 1..Len(ls) /\ i \in 1..Len(ls[n].items)
          /\ ls[n].items[i].severity = s /\ (n = Len(ls) => i > m)
      BY <3>1 DEF Placed
    <3> QED BY <3>1, <3>2
  <2> QED BY <2>2, <2>3
<1>2. Surviving(s) = Union(lists, merged) /\ Surviving(s)' = Union(lists', merged')
  BY DEF Surviving, Top
<1> HIDE DEF Union
<1> QED BY <1>1, <1>2

\* When diag_emit puts a diagnostic into one of the lists, it adds a warning or a note
\* to the places of its severity and moves none.
LEMMA PlacedEmit ==
  ASSUME NEW ls \in Seq(DiagList), NEW new \in Seq(DiagList), Len(new) = Len(ls),
         NEW k \in 1..Len(ls), NEW d \in Diagnostic, new[k] = Emit(ls[k], d),
         \A n \in 1..Len(ls) : n # k => new[n] = ls[n],
         NEW m \in Nat, k = Len(ls) => m <= Len(ls[k].items),
         NEW s \in {"warning", "note"}, IsFiniteSet(Placed(ls, m, s))
  PROVE  /\ IsFiniteSet(Placed(new, m, s))
         /\ Cardinality(Placed(new, m, s)) =
              IF d.severity = s THEN Cardinality(Placed(ls, m, s)) + 1
              ELSE Cardinality(Placed(ls, m, s))
<1> DEFINE l    == Len(ls[k].items)
           last == <<k, l + 1>>
<1>1. Len(ls) \in Nat /\ ls[k] \in DiagList /\ ls[k].items \in Seq(Diagnostic) /\ l \in Nat
  <2>1. Len(ls) \in Nat /\ ls[k] \in DiagList
    OBVIOUS
  <2>2. ls[k].items \in Seq(Diagnostic)
    BY <2>1 DEF DiagList
  <2> QED BY <2>1, <2>2
<1>2. \/ new[k].items = Append(ls[k].items, d)
      \/ new[k].items = ls[k].items /\ d.severity = "error"
  BY <1>1, EmitCounts DEF StoresOther, CountsOneError
<1>3. CASE new[k].items = Append(ls[k].items, d)
  <2>1. /\ Len(new[k].items) = l + 1 /\ new[k].items[l + 1] = d
        /\ \A i \in 1..l : new[k].items[i] = ls[k].items[i]
    BY <1>1, <1>3
  <2>2. last \notin Placed(ls, m, s)
    BY <1>1 DEF Placed
  <2>3. ASSUME NEW n \in Nat, NEW i \in Nat
        PROVE  <<n, i>> \in Placed(new, m, s) <=>
                 \/ <<n, i>> \in Placed(ls, m, s)
                 \/ d.severity = s /\ <<n, i>> = last
    <3> DEFINE Holds(ls2) ==
                 /\ n \in 1..Len(ls2) /\ i \in 1..Len(ls2[n].items)
                 /\ ls2[n].items[i].severity = s /\ (n = Len(ls2) => i > m)
    <3>1. \A ls2 : <<n, i>> \in Placed(ls2, m, s) <=> Holds(ls2)
      BY DEF Placed
    <3>2. CASE n # k
      <4>1. <<n, i>> # last
        BY <3>2
      <4>2. Holds(new) <=> Holds(ls)
        BY <3>2
      <4> QED BY <3>1, <4>1, <4>2
    <3>3. CASE n = k /\ i = l + 1
      <4>1. <<n, i>> = last
        BY <3>3
      <4>2. i \in 1..Len(new[n].items) /\ new[n].items[i] = d /\ ~(i \in 1..Len(ls[n].items))
        BY <1>1, <2>1, <3>3
      <4>3. n = Len(new) => i > m
        BY <1>1, <3>3
      <4>4. Holds(new) <=> d.severity = s
        BY <3>3, <4>2, <4>3
      <4>5. ~Holds(ls)
        BY <4>2
      <4> QED BY <3>1, <4>1, <4>4, <4>5
    <3>4. CASE n = k /\ i # l + 1
      <4>1. <<n, i>> # last
        BY <3>4
      <4>2. i \in 1..Len(new[n].items) <=> i \in 1..Len(ls[n].items)
        <5>1. i \in 1..(l + 1) <=> i \in 1..l
          BY <1>1, <3>4
        <5> QED BY <2>1, <3>4, <5>1
      <4>3. Holds(new) <=> Holds(ls)
        BY <2>1, <3>4, <4>2
      <4> QED BY <3>1, <4>1, <4>3
    <3> QED BY <3>2, <3>3, <3>4
  <2>4. \A ls2 : Placed(ls2, m, s) \subseteq Nat \X Nat
    BY DEF Placed
  <2>5. last \in Nat \X Nat
    BY <1>1
  <2> HIDE DEF last
  <2>6. Placed(new, m, s) =
          IF d.severity = s THEN Placed(ls, m, s) \cup {last} ELSE Placed(ls, m, s)
    <3>1. ASSUME NEW e \in Nat \X Nat
          PROVE  e \in Placed(new, m, s) <=>
                   e \in Placed(ls, m, s) \/ (d.severity = s /\ e = last)
      <4>1. PICK n \in Nat, i \in Nat : e = <<n, i>>
        OBVIOUS
      <4> QED BY <2>3, <4>1
    <3> QED BY <2>4, <2>5, <3>1
  <2>7. /\ IsFiniteSet(Placed(ls, m, s) \cup {last})
        /\ Cardinality(Placed(ls, m, s) \cup {last}) = Cardinality(Placed(ls, m, s)) + 1
    BY <2>2, FS_AddElement
  <2> QED BY <2>6, <2>7
<1>4. CASE new[k].items = ls[k].items /\ d.severity = "error"
  <2>1. \A n \in 1..Len(ls) : new[n].items = ls[n].items
    BY <1>4
  <2>2. Placed(new, m, s) = Placed(ls, m, s)
    BY <2>1 DEF Placed
  <2> QED BY <1>4, <2>2
<1> QED BY <1>2, <1>3, <1>4

\* Merging one more item takes its place in the innermost list from those counted.
LEMMA PlacedMerge ==
  ASSUME NEW ls \in Seq(DiagList), ls # << >>, NEW m \in Nat, NEW d,
         m < Len(ls[Len(ls)].items), d = ls[Len(ls)].items[m + 1],
         NEW s, IsFiniteSet(Placed(ls, m, s))
  PROVE  /\ IsFiniteSet(Placed(ls, m + 1, s))
         /\ Cardinality(Placed(ls, m + 1, s)) =
              IF d.severity = s THEN Cardinality(Placed(ls, m, s)) - 1
              ELSE Cardinality(Placed(ls, m, s))
<1> DEFINE t     == Len(ls)
           l     == Len(ls[t].items)
           first == <<t, m + 1>>
<1>1. t \in Nat \ {0} /\ t \in 1..t /\ l \in Nat /\ m + 1 \in 1..l
  <2>1. t \in Nat \ {0}
    OBVIOUS
  <2>2. ls[t] \in DiagList
    BY <2>1
  <2>3. l \in Nat
    BY <2>2 DEF DiagList
  <2> QED BY <2>1, <2>3
<1>2. ASSUME NEW n \in Nat, NEW i \in Nat
      PROVE  <<n, i>> \in Placed(ls, m + 1, s) <=>
               <<n, i>> \in Placed(ls, m, s) /\ <<n, i>> # first
  <2>1. \A x \in Nat : <<n, i>> \in Placed(ls, x, s) <=>
           /\ n \in 1..t /\ i \in 1..Len(ls[n].items)
           /\ ls[n].items[i].severity = s /\ (n = t => i > x)
    BY DEF Placed
  <2>2. i > m + 1 <=> i > m /\ i # m + 1
    OBVIOUS
  <2>3. <<n, i>> = first <=> n = t /\ i = m + 1
    OBVIOUS
  <2> HIDE DEF t, first
  <2> QED BY <2>1, <2>2, <2>3
<1>3. first \in Placed(ls, m, s) <=> d.severity = s
  BY <1>1 DEF Placed
<1>4. \A x : Placed(ls, x, s) \subseteq Nat \X Nat
  BY DEF Placed
<1>5. Placed(ls, m + 1, s) = Placed(ls, m, s) \ {first}
  <2> HIDE DEF first
  <2>1. ASSUME NEW e \in Nat \X Nat
        PROVE  e \in Placed(ls, m + 1, s) <=> e \in Placed(ls, m, s) /\ e # first
    <3>1. PICK n \in Nat, i \in Nat : e = <<n, i>>
      OBVIOUS
    <3> QED BY <1>2, <3>1
  <2> QED BY <1>4, <2>1
<1> HIDE DEF first
<1>6. CASE d.severity = s
  BY <1>3, <1>5, <1>6, FS_RemoveElement
<1>7. CASE d.severity # s
  <2>1. Placed(ls, m + 1, s) = Placed(ls, m, s)
    BY <1>3, <1>5, <1>7
  <2> QED BY <1>7, <2>1
<1> QED BY <1>6, <1>7

\* Opening a list and closing one that was merged move no item that is counted.
LEMMA PlacedKept ==
  ASSUME NEW ls \in Seq(DiagList), NEW new \in Seq(DiagList), NEW m \in Nat, NEW s,
         \/ /\ Len(new) = Len(ls) + 1 /\ Len(new[Len(ls) + 1].items) = 0 /\ m = 0
            /\ \A n \in 1..Len(ls) : new[n] = ls[n]
         \/ /\ Len(ls) = Len(new) + 1 /\ m = Len(ls[Len(ls)].items)
            /\ \A n \in 1..Len(new) : new[n] = ls[n]
  PROVE  Placed(new, 0, s) = Placed(ls, m, s)
<1>1. Len(ls) \in Nat /\ Len(new) \in Nat
  OBVIOUS
<1>2. ASSUME NEW e \in Nat \X Nat
      PROVE  e \in Placed(new, 0, s) <=> e \in Placed(ls, m, s)
  <2>1. PICK n \in Nat, i \in Nat : e = <<n, i>>
    OBVIOUS
  <2> DEFINE Holds(ls2, x) ==
               /\ n \in 1..Len(ls2) /\ i \in 1..Len(ls2[n].items)
               /\ ls2[n].items[i].severity = s /\ (n = Len(ls2) => i > x)
  <2>2. \A ls2, x : <<n, i>> \in Placed(ls2, x, s) <=> Holds(ls2, x)
    BY DEF Placed
  <2>3. Holds(new, 0) <=> Holds(ls, m)
    <3>1. i \in 1..Len(ls[n].items) => i > 0
      OBVIOUS
    <3>2. CASE /\ Len(new) = Len(ls) + 1 /\ Len(new[Len(ls) + 1].items) = 0 /\ m = 0
               /\ \A j \in 1..Len(ls) : new[j] = ls[j]
      <4>1. CASE n \in 1..Len(ls)
        <5>1. n \in 1..Len(new) /\ new[n] = ls[n]
          BY <1>1, <3>2, <4>1
        <5> QED BY <3>1, <3>2, <4>1, <5>1
      <4>2. CASE n = Len(ls) + 1
        <5>1. n \notin 1..Len(ls) /\ ~(i \in 1..Len(new[n].items))
          BY <1>1, <3>2, <4>2
        <5> QED BY <5>1
      <4>3. CASE n \notin 1..Len(ls) /\ n # Len(ls) + 1
        BY <1>1, <3>2, <4>3
      <4> QED BY <4>1, <4>2, <4>3
    <3>3. CASE /\ Len(ls) = Len(new) + 1 /\ m = Len(ls[Len(ls)].items)
               /\ \A j \in 1..Len(new) : new[j] = ls[j]
      <4>1. CASE n \in 1..Len(new)
        <5>1. n \in 1..Len(ls) /\ new[n] = ls[n] /\ n # Len(ls)
          BY <1>1, <3>3, <4>1
        <5> QED BY <3>1, <4>1, <5>1
      <4>2. CASE n = Len(ls)
        <5>1. Len(ls) \in 1..Len(ls)
          BY <1>1, <3>3
        <5>2. Len(ls[n].items) \in Nat
          <6>1. ls[n] \in DiagList
            BY <4>2, <5>1
          <6>2. ls[n].items \in Seq(Diagnostic)
            BY <6>1 DEF DiagList
          <6> QED BY <6>2
        <5>3. n \notin 1..Len(new) /\ ~(i \in 1..Len(ls[n].items) /\ i > m)
          BY <1>1, <3>3, <4>2, <5>2
        <5> QED BY <4>2, <5>3
      <4>3. CASE n \notin 1..Len(new) /\ n # Len(ls)
        BY <1>1, <3>3, <4>3
      <4> QED BY <4>1, <4>2, <4>3
    <3> QED BY <3>2, <3>3
  <2> HIDE DEF Holds
  <2> QED BY <2>1, <2>2, <2>3
<1>3. \A ls2, x : Placed(ls2, x, s) \subseteq Nat \X Nat
  BY DEF Placed
<1> QED BY <1>2, <1>3

------------------------------------------------------------------------------
(* The invariant of the counts, step by step *)

\* At the start nothing was reported and nothing is shown.
LEMMA CountInit == Init => CountInv
<1> SUFFICES ASSUME Init PROVE CountInv
  OBVIOUS
<1>1. /\ Inv /\ Len(lists) = 1 /\ lists[1] = NewList /\ merging = FALSE /\ merged = 0
      /\ reports = [s \in Severity |-> 0]
  BY InvInit DEF Init
<1>2. \A n \in 1..Len(lists) : Accounted(lists[n])
  BY <1>1, NewListAccounted
<1>3. ASSUME NEW s \in {"warning", "note"}
      PROVE  IsFiniteSet(Surviving(s)) /\ reports[s] = Cardinality(Surviving(s))
  <2>1. Len(NewList.items) = 0
    BY DEF NewList
  <2>2. Surviving(s) = {}
    BY <1>1, <2>1 DEF Surviving
  <2>3. s \in Severity
    BY DEF Severity
  <2> QED BY <1>1, <2>2, <2>3, FS_EmptySet
<1>4. NothingMerged
  BY <1>1 DEF NothingMerged
<1> QED BY <1>1, <1>2, <1>3, <1>4 DEF CountInv

\* A report adds one warning or note to the innermost list, or counts an error there
\* (diag_emit).
LEMMA CountReport ==
  ASSUME CountInv, NEW d \in Diagnostic, Report(d)
  PROVE  CountInv'
<1> DEFINE t == Len(lists)
<1>1. Inv' /\ Inv
  BY InvReport DEF CountInv
<1>2. /\ lists \in Seq(DiagList) /\ t \in Nat \ {0} /\ lists' \in Seq(DiagList)
      /\ reports \in [Severity -> Nat] /\ t \in 1..t
  BY <1>1 DEF Inv, TypeOK
<1>3. /\ lists' = [lists EXCEPT ![t] = Emit(lists[t], d)]
      /\ ~merging /\ merging' = merging /\ merged' = merged
      /\ reports' = [reports EXCEPT ![d.severity] = @ + 1]
  BY DEF Report, Top
<1>4. /\ Len(lists') = t /\ lists'[t] = Emit(lists[t], d)
      /\ \A n \in 1..t : n # t => lists'[n] = lists[n]
  BY <1>2, <1>3
<1>5. \A n \in 1..t : Accounted(lists'[n])
  <2>1. lists[t] \in DiagList
    BY <1>2
  <2> QED BY <1>2, <1>4, <2>1, EmitAccounted DEF CountInv
<1>6. merged = 0 /\ merged' = 0
  BY <1>3 DEF CountInv, NothingMerged
<1>7. NothingMerged'
  BY <1>6 DEF NothingMerged
<1>8. ASSUME NEW s \in {"warning", "note"}
      PROVE  IsFiniteSet(Surviving(s)') /\ reports'[s] = Cardinality(Surviving(s)')
  <2>1. Surviving(s) = Placed(lists, 0, s) /\ Surviving(s)' = Placed(lists', 0, s)
    BY <1>2, <1>6, SurvivingIsPlaced
  <2>2. IsFiniteSet(Placed(lists, 0, s)) /\ reports[s] = Cardinality(Placed(lists, 0, s))
    BY <2>1 DEF CountInv
  <2>3. 0 <= Len(lists[t].items)
    <3>1. lists[t] \in DiagList
      BY <1>2
    <3> QED BY <3>1 DEF DiagList
  <2>4. /\ IsFiniteSet(Placed(lists', 0, s))
        /\ Cardinality(Placed(lists', 0, s)) =
             IF d.severity = s THEN Cardinality(Placed(lists, 0, s)) + 1
             ELSE Cardinality(Placed(lists, 0, s))
    BY <1>2, <1>4, <2>2, <2>3, PlacedEmit
  <2>5. s \in Severity /\ d.severity \in Severity
    BY DEF Severity, Diagnostic
  <2>6. reports'[s] = IF d.severity = s THEN reports[s] + 1 ELSE reports[s]
    BY <1>2, <1>3, <2>5
  <2> QED BY <2>1, <2>2, <2>4, <2>6
<1> QED BY <1>1, <1>4, <1>5, <1>7, <1>8 DEF CountInv

\* The list of an import starts empty (resolve_one).
LEMMA CountOpenImport ==
  ASSUME CountInv, OpenImport
  PROVE  CountInv'
<1> DEFINE t == Len(lists)
<1>1. Inv' /\ Inv
  BY InvOpenImport DEF CountInv
<1>2. lists \in Seq(DiagList) /\ t \in Nat \ {0} /\ lists' \in Seq(DiagList)
  BY <1>1 DEF Inv, TypeOK
<1>3. /\ lists' = Append(lists, NewList)
      /\ ~merging /\ merging' = merging /\ merged' = merged /\ reports' = reports
  BY DEF OpenImport
<1>4. /\ Len(lists') = t + 1 /\ lists'[t + 1] = NewList
      /\ \A n \in 1..t : lists'[n] = lists[n]
  BY <1>2, <1>3
<1>5. \A n \in 1..(t + 1) : Accounted(lists'[n])
  <2>1. \A n \in 1..(t + 1) : n \in 1..t \/ n = t + 1
    BY <1>2
  <2> QED BY <1>4, <2>1, NewListAccounted DEF CountInv
<1>6. merged = 0 /\ merged' = 0
  BY <1>3 DEF CountInv, NothingMerged
<1>7. NothingMerged'
  BY <1>6 DEF NothingMerged
<1>8. ASSUME NEW s \in {"warning", "note"}
      PROVE  IsFiniteSet(Surviving(s)') /\ reports'[s] = Cardinality(Surviving(s)')
  <2>1. Surviving(s) = Placed(lists, 0, s) /\ Surviving(s)' = Placed(lists', 0, s)
    BY <1>2, <1>6, SurvivingIsPlaced
  <2>2. Len(lists'[t + 1].items) = 0
    BY <1>4 DEF NewList
  <2>3. Placed(lists', 0, s) = Placed(lists, 0, s)
    BY <1>2, <1>4, <2>2, PlacedKept
  <2> QED BY <1>3, <2>1, <2>3 DEF CountInv
<1> QED BY <1>1, <1>4, <1>5, <1>7, <1>8 DEF CountInv

\* Entering the merge loop moves nothing (resolve_one).
LEMMA CountStartMerge ==
  ASSUME CountInv, StartMerge
  PROVE  CountInv'
<1>1. Inv'
  BY InvStartMerge DEF CountInv
<1>2. /\ lists' = lists /\ merged' = 0 /\ merged = 0 /\ merging' = TRUE /\ reports' = reports
  BY DEF StartMerge, CountInv, NothingMerged
<1> QED BY <1>1, <1>2 DEF CountInv, NothingMerged, Surviving, Top

\* A turn of the merge loop puts an item into the list below as it takes it from the
\* innermost list (resolve_one).
LEMMA CountMergeItem ==
  ASSUME CountInv, MergeItem
  PROVE  CountInv'
<1> DEFINE t     == Len(lists)
           items == lists[t].items
           d     == items[merged + 1]
<1>1. Inv' /\ Inv
  BY InvMergeItem DEF CountInv
<1>2. /\ lists \in Seq(DiagList) /\ t \in Nat /\ t > 1 /\ lists' \in Seq(DiagList)
      /\ merged \in Nat /\ merging /\ merged < Len(items)
  BY <1>1 DEF Inv, TypeOK, MergeItem, Top
<1>3. /\ t - 1 \in 1..t /\ t - 1 # t /\ t \in 1..t
      /\ lists[t] \in DiagList /\ lists[t - 1] \in DiagList
  <2>1. t - 1 \in 1..t /\ t - 1 # t /\ t \in 1..t
    BY <1>2
  <2> QED BY <1>2, <2>1
<1>4. items \in Seq(Diagnostic) /\ Len(items) \in Nat
  BY <1>3 DEF DiagList
<1>5. d \in Diagnostic
  BY <1>2, <1>4
<1>6. /\ lists' = [lists EXCEPT ![t - 1] = Emit(lists[t - 1], d)]
      /\ merging' = merging /\ merged' = merged + 1 /\ reports' = reports
  BY DEF MergeItem, Top
<1> HIDE DEF d
<1>7. /\ Len(lists') = t /\ lists'[t - 1] = Emit(lists[t - 1], d)
      /\ \A n \in 1..t : n # t - 1 => lists'[n] = lists[n]
  BY <1>2, <1>3, <1>6
<1>8. \A n \in 1..t : Accounted(lists'[n])
  BY <1>3, <1>5, <1>7, EmitAccounted DEF CountInv
<1>9. NothingMerged'
  BY <1>2, <1>6 DEF NothingMerged
<1>10. ASSUME NEW s \in {"warning", "note"}
       PROVE  IsFiniteSet(Surviving(s)') /\ reports'[s] = Cardinality(Surviving(s)')
  <2> DEFINE before == Placed(lists, merged, s)
             middle == Placed(lists', merged, s)
             after  == Placed(lists', merged + 1, s)
  <2>1. Surviving(s) = before /\ Surviving(s)' = after
    BY <1>2, <1>6, SurvivingIsPlaced
  <2>2. IsFiniteSet(before) /\ reports[s] = Cardinality(before)
    BY <2>1 DEF CountInv
  <2>3. /\ IsFiniteSet(middle)
        /\ Cardinality(middle) =
             IF d.severity = s THEN Cardinality(before) + 1 ELSE Cardinality(before)
    <3> DEFINE k == t - 1
    <3>1. /\ k \in 1..Len(lists) /\ Len(lists') = Len(lists)
          /\ lists'[k] = Emit(lists[k], d)
          /\ \A n \in 1..Len(lists) : n # k => lists'[n] = lists[n]
          /\ k = Len(lists) => merged <= Len(lists[k].items)
      BY <1>3, <1>7
    <3> HIDE DEF k
    <3> QED BY <1>2, <1>5, <2>2, <3>1, PlacedEmit
  <2>4. /\ IsFiniteSet(after)
        /\ Cardinality(after) =
             IF d.severity = s THEN Cardinality(middle) - 1 ELSE Cardinality(middle)
    <3>1. lists'[t] = lists[t] /\ lists' # << >>
      BY <1>2, <1>3, <1>7
    <3>2. merged < Len(lists'[Len(lists')].items) /\ d = lists'[Len(lists')].items[merged + 1]
      BY <1>2, <1>7, <3>1 DEF d
    <3> QED BY <1>2, <2>3, <3>1, <3>2, PlacedMerge
  <2>5. Cardinality(before) \in Nat
    BY <2>2, FS_CardinalityType
  <2> HIDE DEF before, middle, after
  <2>6. Cardinality(after) = Cardinality(before)
    BY <2>3, <2>4, <2>5
  <2> QED BY <1>6, <2>1, <2>2, <2>4, <2>6
<1> QED BY <1>1, <1>7, <1>8, <1>9, <1>10 DEF CountInv

\* A list that is closed has no item left that is not in the list below
\* (diag_list_free in resolve_one).
LEMMA CountCloseImport ==
  ASSUME CountInv, CloseImport
  PROVE  CountInv'
<1> DEFINE t == Len(lists)
<1>1. Inv' /\ Inv
  BY InvCloseImport DEF CountInv
<1>2. /\ lists \in Seq(DiagList) /\ t \in Nat /\ t > 1 /\ lists' \in Seq(DiagList)
      /\ merged \in Nat
  BY <1>1 DEF Inv, TypeOK, CloseImport
<1>3. /\ lists' = SubSeq(lists, 1, t - 1) /\ merged = Len(lists[t].items)
      /\ merged' = 0 /\ reports' = reports
  BY DEF CloseImport, Top
<1>4. Len(lists') = t - 1 /\ \A n \in 1..(t - 1) : n \in 1..t /\ lists'[n] = lists[n]
  BY <1>2, <1>3
<1>5. \A n \in 1..(t - 1) : Accounted(lists'[n])
  BY <1>4 DEF CountInv
<1>6. NothingMerged'
  BY <1>3 DEF NothingMerged
<1>7. ASSUME NEW s \in {"warning", "note"}
      PROVE  IsFiniteSet(Surviving(s)') /\ reports'[s] = Cardinality(Surviving(s)')
  <2>1. Surviving(s) = Placed(lists, merged, s) /\ Surviving(s)' = Placed(lists', 0, s)
    BY <1>2, <1>3, SurvivingIsPlaced
  <2>2. t = Len(lists') + 1 /\ \A n \in 1..Len(lists') : lists'[n] = lists[n]
    BY <1>2, <1>4
  <2>3. Placed(lists', 0, s) = Placed(lists, merged, s)
    <3>1. Len(lists) = Len(lists') + 1 /\ merged = Len(lists[Len(lists)].items)
      BY <1>3, <2>2
    <3> QED BY <1>2, <2>2, <3>1, PlacedKept
  <2> QED BY <1>3, <2>1, <2>3 DEF CountInv
<1> QED BY <1>1, <1>4, <1>5, <1>6, <1>7 DEF CountInv

\* The counts agree in every reachable state.
LEMMA CountInvHolds == Spec => []CountInv
<1>1. ASSUME CountInv, UNCHANGED vars
      PROVE  CountInv'
  <2>1. /\ lists' = lists /\ merging' = merging /\ merged' = merged
        /\ reports' = reports /\ raised' = raised
    BY <1>1 DEF vars
  <2>2. Inv'
    BY <1>1, <2>1 DEF CountInv, Inv, TypeOK, MergedErrorsCounted, Top
  <2> QED BY <1>1, <2>1, <2>2 DEF CountInv, NothingMerged, Surviving, Top
<1>2. CountInv /\ [Next]_vars => CountInv'
  BY <1>1, CountReport, CountOpenImport, CountStartMerge, CountMergeItem, CountCloseImport
  DEF Next
<1> QED BY <1>2, CountInit, PTL DEF Spec

------------------------------------------------------------------------------
(* The theorems on the counts *)

\* For all limits and any categories, the errors that a list counts are those it shows
\* and those it announces, category by category or with the message of the total limit
\* (diag_emit, diag_print_all).
THEOREM HiddenAnnounced == Spec => []HiddenIsAnnounced
<1>1. CountInv => HiddenIsAnnounced
  BY DEF CountInv, Accounted, HiddenIsAnnounced
<1> QED BY <1>1, CountInvHolds, PTL

\* Warnings and notes are never suppressed, lost or doubled by the merge of an import's
\* list into its importer's (diag_emit, resolve_one), at any depth of nesting.
THEOREM WarningsStay == Spec => []WarningsSurvive
<1>1. CountInv => WarningsSurvive
  BY DEF CountInv, WarningsSurvive
<1> QED BY <1>1, CountInvHolds, PTL

==============================================================================
