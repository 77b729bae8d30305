---------------------------- MODULE WatcherProofs ----------------------------
(****************************************************************************)
(* What the two watchers guarantee for any number of files, an event or     *)
(* file table of any size and any number of writes.                         *)
(*                                                                          *)
(* That an output never goes back rests on an order: what was emitted is    *)
(* not newer than what is being compiled, and that is not newer than the    *)
(* file.  That no write is lost needs the same order, for a compilation     *)
(* that was started early must not undo a later one.                        *)
(*                                                                          *)
(* The two watchers are never run together: the theorems about Spec are of  *)
(* the inotify watcher, those about PollSpec of the polling one.            *)
(****************************************************************************)
EXTENDS WatcherInotify, WatcherPoll, TLAPS

------------------------------------------------------------------------------
(* The inotify watcher *)

\* A compilation that is under way, of a text between the emitted one and the one
\* on disk.
CompilesInOrder ==
  /\ compiling.file \in File
  /\ emitted[compiling.file] <= compiling.text.number
  /\ compiling.text.number <= disk[compiling.file].number

TextsInOrder ==
  /\ \A f \in File : emitted[f] <= disk[f].number /\ disk[f].number <= writes
  /\ compiling = Idle \/ CompilesInOrder

OrderInv == TypeOK /\ TextsInOrder

\* The events that happen to files, those that are not in the mask included.
Happening == [mask : {"modify", "close_write", "moved_to"}, file : File, output : BOOLEAN]

\* The event of a source file that is waiting in q.
Announces(q, f) == \E i \in 1..Len(q) : q[i].file = f /\ ~q[i].output

PendingInv == OrderInv /\ PendingHasEvent

------------------------------------------------------------------------------
(* The queue of events *)

\* Raising an event keeps the events that are in the queue (inotify).
LEMMA RaiseKeeps ==
  ASSUME NEW q \in Seq(Event), NEW e \in Happening
  PROVE  /\ Raise(q, e) \in Seq(Event)
         /\ \A f : Announces(q, f) => Announces(Raise(q, e), f)
<1>1. CASE Raise(q, e) = q
  BY <1>1
<1>2. CASE Raise(q, e) = Append(q, e) /\ e.mask \in Mask
  <2>1. e \in Event
    BY <1>2 DEF Event, Happening
  <2> DEFINE l == Len(q)
             app == Append(q, e)
  <2>2. app \in Seq(Event) /\ l \in Nat /\ Len(app) = l + 1 /\ \A i \in 1..l : app[i] = q[i]
    BY <2>1
  <2> HIDE DEF l, app
  <2>3. \A i \in 1..l : i \in 1..(l + 1)
    BY <2>2
  <2>4. \A f : Announces(q, f) => Announces(app, f)
    BY <2>2, <2>3 DEF Announces, l
  <2> QED BY <1>2, <2>2, <2>4 DEF app
<1> QED BY <1>1, <1>2 DEF Raise

\* An event of a source file in a watched directory is in the queue after it was
\* raised, new or merged with the last one.
LEMMA RaiseAnnounces ==
  ASSUME NEW q \in Seq(Event), NEW f \in File, NEW kind \in Mask, WatchedFile = NoFile
  PROVE  Announces(Raise(q, SourceEvent(kind, f)), f)
<1> DEFINE e == SourceEvent(kind, f)
           l == Len(q)
<1>1. e.mask \in Mask /\ e.file = f /\ ~e.output /\ e \in Event
  BY DEF SourceEvent, Event
<1>2. l \in Nat
  OBVIOUS
<1>3. CASE q # << >> /\ q[l] = e
  <2>1. l \in 1..l
    BY <1>2, <1>3
  <2>2. Raise(q, e) = q
    BY <1>3 DEF Raise
  <2> QED BY <1>1, <1>3, <2>1, <2>2 DEF Announces
<1>4. CASE ~(q # << >> /\ q[l] = e)
  <2>1. Raise(q, e) = Append(q, e)
    BY <1>1, <1>4 DEF Raise
  <2> HIDE DEF e
  <2>2. Len(Append(q, e)) = l + 1 /\ Append(q, e)[l + 1] = e /\ l + 1 \in 1..(l + 1)
    BY <1>1, <1>2
  <2> QED BY <1>1, <2>1, <2>2 DEF Announces, e
<1> QED BY <1>3, <1>4

\* What the two events of an output leave in the queue.
LEMMA OutputRaised ==
  ASSUME NEW q \in Seq(Event), NEW f \in File
  PROVE  LET raised == Raise(Raise(q, OutputEvent("modify", f)), OutputEvent("close_write", f))
         IN  /\ raised \in Seq(Event)
             /\ \A g : Announces(q, g) => Announces(raised, g)
<1>1. OutputEvent("modify", f) \in Happening /\ OutputEvent("close_write", f) \in Happening
  BY DEF OutputEvent, Happening
<1>2. /\ Raise(q, OutputEvent("modify", f)) \in Seq(Event)
      /\ \A g : Announces(q, g) => Announces(Raise(q, OutputEvent("modify", f)), g)
  BY <1>1, RaiseKeeps
<1> QED BY <1>1, <1>2, RaiseKeeps

\* read takes a prefix of the queue: each event is in the batch or still queued.
LEMMA ReadSplits ==
  ASSUME TypeOK, ReadEvents
  PROVE  /\ batch' \in Seq(Event) /\ queue' \in Seq(Event)
         /\ \A f : Announces(queue, f) => Announces(batch', f) \/ Announces(queue', f)
<1> DEFINE l == Len(queue)
           n == IF l < BatchSize THEN l ELSE BatchSize
<1>1. queue \in Seq(Event) /\ l \in Nat /\ n \in Nat /\ n <= l
  BY WatcherAssumption DEF TypeOK
<1>2. batch' = SubSeq(queue, 1, n) /\ queue' = SubSeq(queue, n + 1, l)
  BY DEF ReadEvents
<1>3. \A i \in 1..l : queue[i] \in Event
  BY <1>1
<1> HIDE DEF n
<1>4. batch' = [i \in 1..n |-> queue[i]] /\ Len(batch') = n /\ batch' \in Seq(Event)
  <2>1. SubSeq(queue, 1, n) = [i \in 1..n |-> queue[i]]
    BY <1>1
  <2>2. \A i \in 1..n : queue[i] \in Event
    BY <1>1, <1>3
  <2> QED BY <1>1, <1>2, <2>1, <2>2
<1>5. /\ queue' = [i \in 1..(l - n) |-> queue[i + n]] /\ Len(queue') = l - n
      /\ queue' \in Seq(Event)
  <2>1. l - n \in Nat
    BY <1>1
  <2>2. SubSeq(queue, n + 1, l) = [i \in 1..(l - n) |-> queue[i + n]]
    BY <1>1, <2>1
  <2>3. \A i \in 1..(l - n) : queue[i + n] \in Event
    BY <1>1, <1>3
  <2> DEFINE k    == l - n
             rest == [i \in 1..k |-> queue[i + n]]
  <2>4. k \in Nat /\ \A i \in 1..k : queue[i + n] \in Event
    BY <2>1, <2>3
  <2> HIDE DEF k
  <2>5. rest \in Seq(Event) /\ Len(rest) = k
    BY <2>4
  <2> QED BY <1>2, <2>2, <2>5 DEF k
<1>6. \A f, i : i \in 1..l /\ queue[i].file = f /\ ~queue[i].output
                  => Announces(batch', f) \/ Announces(queue', f)
  <2> SUFFICES ASSUME NEW f, NEW i \in 1..l, queue[i].file = f, ~queue[i].output
               PROVE  Announces(batch', f) \/ Announces(queue', f)
    OBVIOUS
  <2>1. CASE i <= n
    BY <1>1, <1>4, <2>1 DEF Announces
  <2>2. CASE i > n
    <3>1. i - n \in 1..(l - n) /\ (i - n) + n = i
      BY <1>1, <2>2
    <3>2. queue'[i - n] = queue[i]
      BY <1>5, <3>1
    <3> QED BY <1>5, <3>1, <3>2 DEF Announces
  <2> QED BY <1>1, <2>1, <2>2
<1>7. \A f : Announces(queue, f) => Announces(batch', f) \/ Announces(queue', f)
  <2> SUFFICES ASSUME NEW f, NEW i \in 1..l, queue[i].file = f, ~queue[i].output
               PROVE  Announces(batch', f) \/ Announces(queue', f)
    BY DEF Announces
  <2> QED BY <1>6
<1> QED BY <1>4, <1>5, <1>7

\* Advancing over the first event of the batch loses that event only.
LEMMA TailKeeps ==
  ASSUME NEW q \in Seq(Event), q # << >>
  PROVE  /\ Head(q) \in Event /\ Tail(q) \in Seq(Event)
         /\ \A f : Announces(q, f)
                     => Announces(Tail(q), f) \/ (Head(q).file = f /\ ~Head(q).output)
<1> DEFINE l == Len(q)
<1>1. l \in Nat /\ l > 0 /\ Head(q) = q[1] /\ Head(q) \in Event
  OBVIOUS
<1>2. Tail(q) \in Seq(Event) /\ Len(Tail(q)) = l - 1
      /\ \A i \in 1..(l - 1) : Tail(q)[i] = q[i + 1]
  OBVIOUS
<1> SUFFICES ASSUME NEW f, NEW i \in 1..l, q[i].file = f, ~q[i].output
             PROVE  Announces(Tail(q), f) \/ (Head(q).file = f /\ ~Head(q).output)
  BY <1>1, <1>2 DEF Announces
<1>3. CASE i = 1
  BY <1>1, <1>3
<1>4. CASE i # 1
  <2>1. i - 1 \in 1..(l - 1) /\ (i - 1) + 1 = i
    BY <1>1, <1>4
  <2> QED BY <1>2, <2>1 DEF Announces
<1> QED BY <1>3, <1>4

------------------------------------------------------------------------------
(* The order of the texts *)

\* The outputs are those of the files before the watcher starts.
LEMMA OrderInit == Init => OrderInv
<1> SUFFICES ASSUME Init PROVE OrderInv
  OBVIOUS
<1>1. OldText \in Text /\ OldText.number = 0
  BY FileAssumption DEF OldText, Text
<1>2. << >> \in Seq(Event)
  OBVIOUS
<1>3. compiling \in [file : File \cup {NoFile}, text : Text] /\ compiling = Idle
  BY <1>1 DEF Init, Idle
<1>4. 0 \in 0..MaxWrites /\ emitted \in [File -> 0..MaxWrites] /\ disk \in [File -> Text]
  BY <1>1, FileAssumption DEF Init
<1>5. TypeOK
  BY <1>2, <1>3, <1>4 DEF Init, TypeOK
<1>6. TextsInOrder
  BY <1>1, <1>3 DEF Init, TextsInOrder
<1> QED BY <1>5, <1>6 DEF OrderInv

\* A write makes the text of one file newer than all others (the editor).
LEMMA OrderOverwrite ==
  ASSUME OrderInv, NEW f \in File, Overwrite(f), queue' \in Seq(Event),
         editing' \subseteq File, UNCHANGED <<batch, compiling, emitted>>
  PROVE  OrderInv' /\ \A g \in File : g # f => disk'[g] = disk[g]
<1>1. /\ writes \in Nat /\ writes' = writes + 1 /\ writes' \in 0..MaxWrites
      /\ writes <= writes'
  BY FileAssumption DEF OrderInv, TypeOK, Overwrite
<1>2. PICK ok \in BOOLEAN : disk' = [disk EXCEPT ![f] = [number |-> writes + 1, ok |-> ok]]
  BY DEF Overwrite
<1> DEFINE text == [number |-> writes + 1, ok |-> ok]
<1>3. text \in Text /\ text.number = writes'
  BY <1>1 DEF Text
<1> HIDE DEF text
<1>4. /\ disk \in [File -> Text] /\ disk' \in [File -> Text]
      /\ disk'[f] = text /\ \A g \in File : g # f => disk'[g] = disk[g]
  BY <1>2, <1>3 DEF OrderInv, TypeOK, text
<1>6. TypeOK'
  BY <1>1, <1>4 DEF OrderInv, TypeOK
<1>7. \A g \in File : disk[g].number \in Nat /\ emitted[g] \in Nat /\ disk[g] \in Text
  BY DEF OrderInv, TypeOK, Text
<1>8. \A g \in File : disk[g].number <= disk'[g].number /\ disk'[g].number <= writes'
  BY <1>1, <1>3, <1>4, <1>7 DEF OrderInv, TextsInOrder
<1>9. compiling.text.number \in Nat /\ \A g \in File : disk'[g].number \in Nat
  BY <1>4 DEF OrderInv, TypeOK, Text
<1>10. \A g \in File : emitted[g] <= disk'[g].number
  BY <1>7, <1>8, <1>9 DEF OrderInv, TextsInOrder
<1>11. CompilesInOrder => CompilesInOrder'
  <2> SUFFICES ASSUME CompilesInOrder PROVE CompilesInOrder'
    OBVIOUS
  <2>1. compiling.text.number <= disk'[compiling.file].number
    BY <1>7, <1>8, <1>9 DEF CompilesInOrder
  <2> QED BY <2>1 DEF CompilesInOrder
<1>12. TextsInOrder'
  BY <1>8, <1>10, <1>11 DEF OrderInv, TextsInOrder
<1> QED BY <1>4, <1>6, <1>12 DEF OrderInv

\* The steps that touch neither the texts nor the outputs.
LEMMA OrderKept ==
  ASSUME OrderInv, editing' \subseteq File, queue' \in Seq(Event), batch' \in Seq(Event),
         UNCHANGED <<disk, writes, compiling, emitted>>
  PROVE  OrderInv'
BY DEF OrderInv, TypeOK, TextsInOrder, CompilesInOrder

\* compile_file reads a text that is not older than the output.
LEMMA OrderStart ==
  ASSUME OrderInv, StartCompile
  PROVE  /\ OrderInv'
         /\ Head(batch).file \in File
         /\ compiling' = [file |-> Head(batch).file, text |-> disk[Head(batch).file]]
<1> DEFINE f == Head(batch).file
<1>1. batch \in Seq(Event) /\ batch # << >>
  BY DEF OrderInv, TypeOK, StartCompile
<1>2. f \in File /\ batch' \in Seq(Event)
  BY <1>1, TailKeeps DEF Event, StartCompile
<1>3. compiling' = [file |-> f, text |-> disk[f]]
  BY DEF StartCompile
<1> HIDE DEF f
<1>4. disk[f] \in Text /\ disk[f].number \in Nat
  BY <1>2 DEF OrderInv, TypeOK, Text
<1>5. compiling' \in [file : File \cup {NoFile}, text : Text]
  BY <1>2, <1>3, <1>4
<1>6. /\ disk' = disk /\ editing' = editing /\ writes' = writes /\ queue' = queue
      /\ emitted' = emitted
  BY DEF StartCompile
<1>7. TypeOK'
  BY <1>2, <1>5, <1>6 DEF OrderInv, TypeOK
<1>8. compiling'.file = f /\ compiling'.text.number = disk[f].number
  BY <1>3
<1>9. CompilesInOrder'
  BY <1>2, <1>4, <1>6, <1>8 DEF OrderInv, TextsInOrder, CompilesInOrder
<1>10. TextsInOrder'
  BY <1>6, <1>9 DEF OrderInv, TextsInOrder
<1> QED BY <1>2, <1>3, <1>7, <1>10 DEF OrderInv, f

\* compile_file replaces the output by that of a text that is not older.
LEMMA OrderFinish ==
  ASSUME OrderInv, FinishCompile
  PROVE  /\ OrderInv'
         /\ \A g \in File : emitted'[g] >= emitted[g]
         /\ \A g : Announces(queue, g) => Announces(queue', g)
<1> DEFINE f == compiling.file
<1>1. /\ f \in File /\ emitted[f] <= compiling.text.number
      /\ compiling.text.number <= disk[f].number
  BY DEF FinishCompile, OrderInv, TextsInOrder, CompilesInOrder
<1>2. /\ compiling.text.number \in 0..MaxWrites
      /\ emitted \in [File -> 0..MaxWrites] /\ \A g \in File : emitted[g] \in Nat
  BY FileAssumption DEF OrderInv, TypeOK, Text
<1>3. /\ disk' = disk /\ editing' = editing /\ writes' = writes /\ batch' = batch
      /\ compiling' = Idle
  BY DEF FinishCompile, WriteOutput
<1>4. queue' \in Seq(Event) /\ \A g : Announces(queue, g) => Announces(queue', g)
  <2>1. queue \in Seq(Event)
    BY DEF OrderInv, TypeOK
  <2>2. \/ queue' = queue
        \/ queue' = Raise(Raise(queue, OutputEvent("modify", f)), OutputEvent("close_write", f))
    BY DEF FinishCompile, WriteOutput
  <2> HIDE DEF f
  <2> QED BY <1>1, <2>1, <2>2, OutputRaised
<1>5. \/ emitted' = emitted
      \/ emitted' = [emitted EXCEPT ![f] = compiling.text.number]
  BY DEF FinishCompile, WriteOutput
<1> HIDE DEF f
<1>6. emitted' \in [File -> 0..MaxWrites]
  BY <1>1, <1>2, <1>5
<1>7. \A g \in File : emitted'[g] >= emitted[g] /\ emitted'[g] <= disk[g].number
  BY <1>1, <1>2, <1>5 DEF OrderInv, TextsInOrder
<1>8. Idle \in [file : File \cup {NoFile}, text : Text]
  BY FileAssumption DEF Idle, OldText, Text
<1>9. TypeOK'
  BY <1>3, <1>4, <1>6, <1>8 DEF OrderInv, TypeOK
<1>10. TextsInOrder'
  BY <1>3, <1>7 DEF OrderInv, TextsInOrder, Idle
<1> QED BY <1>4, <1>7, <1>9, <1>10 DEF OrderInv

\* Every step keeps the order.
LEMMA OrderNext ==
  ASSUME OrderInv, [Next]_vars
  PROVE  OrderInv'
<1>0. /\ queue \in Seq(Event) /\ batch \in Seq(Event) /\ editing \subseteq File
  BY DEF OrderInv, TypeOK
<1>1. CASE \E f \in File : Write(f) \/ Rename(f)
  <2>1. PICK f \in File : Write(f) \/ Rename(f)
    BY <1>1
  <2>2. /\ Overwrite(f) /\ editing' \subseteq File /\ UNCHANGED <<batch, compiling, emitted>>
        /\ \E kind \in {"modify", "moved_to"} : queue' = Raise(queue, SourceEvent(kind, f))
    BY <1>0, <2>1 DEF Write, Rename
  <2>3. \A kind \in {"modify", "moved_to"} : SourceEvent(kind, f) \in Happening
    BY DEF SourceEvent, Happening
  <2>4. queue' \in Seq(Event)
    BY <1>0, <2>2, <2>3, RaiseKeeps
  <2> QED BY <2>2, <2>4, OrderOverwrite
<1>2. CASE \E f \in File : Close(f)
  <2>1. PICK f \in File : Close(f)
    BY <1>2
  <2>2. SourceEvent("close_write", f) \in Happening
    BY DEF SourceEvent, Happening
  <2>3. queue' \in Seq(Event)
    BY <1>0, <2>1, <2>2, RaiseKeeps DEF Close
  <2> QED BY <1>0, <2>1, <2>3, OrderKept DEF Close
<1>3. CASE ReadEvents
  BY <1>0, <1>3, ReadSplits, OrderKept DEF OrderInv, ReadEvents
<1>4. CASE SkipEvent
  BY <1>0, <1>4, TailKeeps, OrderKept DEF SkipEvent
<1>5. CASE StartCompile
  BY <1>5, OrderStart DEF StartCompile
<1>6. CASE FinishCompile
  BY <1>6, OrderFinish
<1>7. CASE UNCHANGED vars
  BY <1>0, <1>7, OrderKept DEF vars
<1> QED BY <1>1, <1>2, <1>3, <1>4, <1>5, <1>6, <1>7 DEF Next, Watcher

------------------------------------------------------------------------------
(* What the outputs may be *)

\* The abstraction of the texts and outputs, in the initial state and in each kind of
\* step.
LEMMA PromiseInit ==
  ASSUME disk = [f \in File |-> OldText], emitted = [f \in File |-> 0]
  PROVE  Promise!Init
BY DEF Promise!Init, OldText

LEMMA PromiseSave ==
  ASSUME disk \in [File -> Text], NEW f \in File, NEW text \in Text,
         text.number > disk[f].number, disk' = [disk EXCEPT ![f] = text], UNCHANGED emitted
  PROVE  Promise!Next
<1> DEFINE n == text.number
           written == [g \in File |-> disk[g].number]
<1>1. n \in 0..MaxWrites
  BY DEF Text
<1>2. [g \in File |-> disk[g].number]' = [written EXCEPT ![f] = n]
  OBVIOUS
<1> HIDE DEF n
<1>3. written[f] = disk[f].number
  OBVIOUS
<1> QED BY <1>1, <1>2, <1>3 DEF Promise!Next, Promise!Save, n

LEMMA PromiseRecompile ==
  ASSUME NEW f \in File, NEW n \in 0..MaxWrites, emitted[f] <= n, n <= disk[f].number,
         emitted' = [emitted EXCEPT ![f] = n], UNCHANGED disk
  PROVE  Promise!Next
<1>1. [g \in File |-> disk[g].number][f] = disk[f].number
  OBVIOUS
<1> QED BY <1>1 DEF Promise!Next, Promise!Recompile

LEMMA PromiseKept ==
  ASSUME UNCHANGED <<disk, emitted>>
  PROVE  UNCHANGED Promise!vars
BY DEF Promise!vars

\* Every step of the watcher and the editor is one of Recompiler.
LEMMA PromiseNext ==
  ASSUME OrderInv, [Next]_vars
  PROVE  [Promise!Next]_(Promise!vars)
<1>1. CASE \E f \in File : Write(f) \/ Rename(f)
  <2>1. PICK f \in File : Write(f) \/ Rename(f)
    BY <1>1
  <2>2. Overwrite(f) /\ UNCHANGED emitted
    BY <2>1 DEF Write, Rename
  <2>3. PICK ok \in BOOLEAN : disk' = [disk EXCEPT ![f] = [number |-> writes + 1, ok |-> ok]]
    BY <2>2 DEF Overwrite
  <2> DEFINE text == [number |-> writes + 1, ok |-> ok]
  <2>4. writes \in Nat /\ writes' = writes + 1 /\ writes + 1 \in 0..MaxWrites
    BY <2>2, FileAssumption DEF Overwrite, OrderInv, TypeOK
  <2>5. text \in Text /\ text.number = writes + 1
    BY <2>4 DEF Text
  <2>6. disk \in [File -> Text] /\ disk[f].number \in Nat /\ disk[f].number <= writes
    BY DEF OrderInv, TypeOK, TextsInOrder, Text
  <2>7. disk' = [disk EXCEPT ![f] = text]
    BY <2>3
  <2> HIDE DEF text
  <2>8. text.number > disk[f].number
    BY <2>4, <2>5, <2>6
  <2> QED BY <2>2, <2>5, <2>6, <2>7, <2>8, PromiseSave
<1>2. CASE FinishCompile
  <2> DEFINE f == compiling.file
             n == compiling.text.number
  <2>1. f \in File /\ emitted[f] <= n /\ n <= disk[f].number
    BY <1>2 DEF FinishCompile, OrderInv, TextsInOrder, CompilesInOrder
  <2>2. n \in 0..MaxWrites
    BY DEF OrderInv, TypeOK, Text
  <2>3. UNCHANGED disk /\ (emitted' = [emitted EXCEPT ![f] = n] \/ UNCHANGED emitted)
    BY <1>2 DEF FinishCompile, WriteOutput
  <2> HIDE DEF f, n
  <2> QED BY <2>1, <2>2, <2>3, PromiseRecompile, PromiseKept
<1>3. CASE (\E f \in File : Close(f)) \/ ReadEvents \/ SkipEvent \/ StartCompile \/ UNCHANGED vars
  <2>1. UNCHANGED <<disk, emitted>>
    BY <1>3 DEF Close, ReadEvents, SkipEvent, StartCompile, vars
  <2> QED BY <2>1, PromiseKept
<1> QED BY <1>1, <1>2, <1>3 DEF Next, Watcher

------------------------------------------------------------------------------
(* No write is lost *)

\* One file's part of PendingHasEvent.
Covered(f) ==
  \/ emitted[f] = disk[f].number
  \/ ~disk[f].ok
  \/ compiling.file = f /\ compiling.text = disk[f]
  \/ Announces(queue, f)
  \/ Announces(batch, f)

\* PendingHasEvent, file by file.
LEMMA PendingIsCovered == PendingHasEvent <=> \A f \in WrittenInPlace : Covered(f)
BY DEF PendingHasEvent, Covered, Announces

\* A file that was written in place raises an event; one saved by renaming does not,
\* and no other file's events are disturbed.
LEMMA CoveredWrite ==
  ASSUME PendingInv, WatchedFile = NoFile, NEW f \in File, Write(f) \/ Rename(f),
         NEW g \in WrittenInPlace, Covered(g)
  PROVE  Covered(g)'
<1>1. g \in File /\ g \notin RenameSaves
  BY DEF WrittenInPlace, Watched
<1>2. queue \in Seq(Event) /\ editing \subseteq File
  BY DEF PendingInv, OrderInv, TypeOK
<1>3. CASE g = f
  <2>1. Write(f)
    BY <1>1, <1>3 DEF Rename
  <2>2. queue' = Raise(queue, SourceEvent("modify", f)) /\ "modify" \in Mask
    BY <2>1 DEF Write, Mask
  <2>3. Announces(queue', f)
    BY <1>2, <2>2, RaiseAnnounces
  <2> QED BY <1>3, <2>3 DEF Covered
<1>4. CASE g # f
  <2>1. PICK kind \in {"modify", "moved_to"} : queue' = Raise(queue, SourceEvent(kind, f))
    BY DEF Write, Rename
  <2>2. Overwrite(f) /\ editing' \subseteq File /\ UNCHANGED <<batch, compiling, emitted>>
    BY <1>2 DEF Write, Rename
  <2>4. SourceEvent(kind, f) \in Happening
    BY DEF SourceEvent, Happening
  <2>5. queue' \in Seq(Event) /\ (Announces(queue, g) => Announces(queue', g))
    BY <1>2, <2>1, <2>4, RaiseKeeps
  <2>3. disk'[g] = disk[g]
    BY <1>1, <1>4, <2>2, <2>5, OrderOverwrite DEF PendingInv
  <2>6. Announces(batch, g) => Announces(batch', g)
    BY <2>2 DEF Announces
  <2> QED BY <2>2, <2>3, <2>5, <2>6 DEF Covered
<1> QED BY <1>3, <1>4

\* The events that are read, and the ones that are skipped.
LEMMA CoveredEvents ==
  ASSUME PendingInv, WatchedFile = NoFile, (\E f \in File : Close(f)) \/ ReadEvents \/ SkipEvent,
         NEW g \in WrittenInPlace, Covered(g)
  PROVE  Covered(g)'
<1>1. queue \in Seq(Event) /\ batch \in Seq(Event) /\ TypeOK
  BY DEF PendingInv, OrderInv, TypeOK
<1>2. UNCHANGED <<disk, compiling, emitted>>
  BY DEF Close, ReadEvents, SkipEvent
<1>3. Announces(queue, g) \/ Announces(batch, g) => Announces(queue', g) \/ Announces(batch', g)
  <2>1. CASE \E f \in File : Close(f)
    <3>1. PICK f \in File : Close(f)
      BY <2>1
    <3>2. SourceEvent("close_write", f) \in Happening
      BY DEF SourceEvent, Happening
    <3>3. batch' = batch /\ queue' = Raise(queue, SourceEvent("close_write", f))
      BY <3>1 DEF Close
    <3> QED BY <1>1, <3>2, <3>3, RaiseKeeps
  <2>2. CASE ReadEvents
    <3>1. ~Announces(batch, g)
      <4>1. Len(batch) = 0
        BY <2>2 DEF ReadEvents
      <4> QED BY <4>1 DEF Announces
    <3> QED BY <1>1, <2>2, <3>1, ReadSplits
  <2>3. CASE SkipEvent
    <3>1. /\ batch # << >> /\ batch' = Tail(batch) /\ queue' = queue
          /\ ~Relevant(Head(batch))
      BY <2>3 DEF SkipEvent
    <3>2. Head(batch).output
      BY <1>1, <3>1, TailKeeps DEF Relevant, Named, Event
    <3> QED BY <1>1, <3>1, <3>2, TailKeeps
  <2> QED BY <2>1, <2>2, <2>3
<1> QED BY <1>2, <1>3 DEF Covered

\* The file of the event is read; the other events stay in the batch.
LEMMA CoveredStart ==
  ASSUME PendingInv, StartCompile, NEW g \in WrittenInPlace, Covered(g)
  PROVE  Covered(g)'
<1>1. g \in File /\ batch \in Seq(Event) /\ batch # << >> /\ batch' = Tail(batch)
  BY WatcherAssumption DEF WrittenInPlace, Watched, PendingInv, OrderInv, TypeOK, StartCompile
<1>2. UNCHANGED <<disk, queue, emitted>> /\ compiling = Idle
  BY DEF StartCompile
<1>3. compiling' = [file |-> Head(batch).file, text |-> disk[Head(batch).file]]
  BY OrderStart DEF PendingInv
<1>4. CASE Head(batch).file = g
  BY <1>2, <1>3, <1>4 DEF Covered
<1>5. CASE Head(batch).file # g
  <2>1. compiling.file # g
    BY <1>1, <1>2, FileAssumption DEF Idle
  <2>2. Announces(batch, g) => Announces(batch', g)
    BY <1>1, <1>5, TailKeeps
  <2> QED BY <1>2, <2>1, <2>2 DEF Covered
<1> QED BY <1>4, <1>5

\* The output that is written is that of the text on disk, or the text on disk has an
\* event of its own; an output that was newer does not go back.
LEMMA CoveredFinish ==
  ASSUME PendingInv, FinishCompile, NEW g \in WrittenInPlace, Covered(g)
  PROVE  Covered(g)'
<1>1. g \in File
  BY WatcherAssumption DEF WrittenInPlace, Watched
<1>2. UNCHANGED <<disk, batch>>
  BY DEF FinishCompile, WriteOutput
<1>3. Announces(queue, g) => Announces(queue', g)
  BY OrderFinish DEF PendingInv
<1>4. OrderInv' /\ emitted'[g] >= emitted[g]
  BY <1>1, OrderFinish DEF PendingInv
<1>5. emitted[g] \in Nat /\ emitted'[g] \in Nat /\ disk[g].number \in Nat
  BY <1>1, <1>4, FileAssumption DEF PendingInv, OrderInv, TypeOK, Text
<1>6. emitted'[g] <= disk[g].number
  BY <1>1, <1>2, <1>4 DEF OrderInv, TextsInOrder
<1>7. CASE emitted[g] = disk[g].number
  BY <1>2, <1>4, <1>5, <1>6, <1>7 DEF Covered
<1>8. CASE compiling.file = g /\ compiling.text = disk[g] /\ disk[g].ok
  <2>1. emitted' = [emitted EXCEPT ![g] = disk[g].number]
    BY <1>8 DEF FinishCompile, WriteOutput
  <2>2. emitted'[g] = disk[g].number
    BY <1>1, <2>1 DEF PendingInv, OrderInv, TypeOK
  <2> QED BY <1>2, <2>2 DEF Covered
<1>9. CASE ~disk[g].ok \/ Announces(queue, g) \/ Announces(batch, g)
  <2>1. Announces(batch, g) => Announces(batch', g)
    BY <1>2 DEF Announces
  <2> QED BY <1>2, <1>3, <1>9, <2>1 DEF Covered
<1> QED BY <1>7, <1>8, <1>9 DEF Covered

\* Every step keeps every file covered.
LEMMA PendingNext ==
  ASSUME PendingInv, WatchedFile = NoFile, [Next]_vars
  PROVE  PendingInv'
<1>1. OrderInv'
  BY OrderNext DEF PendingInv
<1>2. \A g \in WrittenInPlace : Covered(g)
  BY PendingIsCovered DEF PendingInv
<1>3. ASSUME NEW g \in WrittenInPlace
      PROVE  Covered(g)'
  <2>1. Covered(g)
    BY <1>2
  <2>2. CASE \E f \in File : Write(f) \/ Rename(f)
    BY <2>1, <2>2, CoveredWrite
  <2>3. CASE (\E f \in File : Close(f)) \/ ReadEvents \/ SkipEvent
    BY <2>1, <2>3, CoveredEvents
  <2>4. CASE StartCompile
    BY <2>1, <2>4, CoveredStart
  <2>5. CASE FinishCompile
    BY <2>1, <2>5, CoveredFinish
  <2>6. CASE UNCHANGED vars
    BY <2>1, <2>6 DEF vars, Covered, Announces
  <2> QED BY <2>2, <2>3, <2>4, <2>5, <2>6 DEF Next, Watcher
<1>4. PendingHasEvent'
  BY <1>3 DEF PendingHasEvent, Covered, Announces
<1> QED BY <1>1, <1>4 DEF PendingInv

------------------------------------------------------------------------------
(* The theorems of the inotify watcher *)

\* The texts keep their order: emitted, being compiled, on disk.
THEOREM OrderHolds == Spec => []OrderInv
<1>1. OrderInv /\ [Next]_vars => OrderInv'
  BY OrderNext
<1> QED BY <1>1, OrderInit, PTL DEF Spec

\* Each output is only ever replaced by that of a text that is at least as new
\* (compile_file, watcher_run), however events queue up, in a directory or for a single
\* file: the watcher implements Recompiler.
THEOREM InotifyImplements == Spec => ImplementsRecompiler
<1>1. Init => Promise!Init
  BY PromiseInit DEF Init
<1>2. OrderInv /\ [Next]_vars => [Promise!Next]_(Promise!vars)
  BY PromiseNext
<1> QED BY <1>1, <1>2, OrderHolds, PTL DEF Spec, ImplementsRecompiler, Promise!Spec

\* No output of Recompiler goes back, and so none of a watcher that implements it.
THEOREM RecompilerNeverOlder == ImplementsRecompiler => Promise!NeverOlder
<1> DEFINE Typed == emitted \in [File -> 0..MaxWrites]
<1>1. Promise!Init => Typed
  BY FileAssumption DEF Promise!Init
<1>2. Typed /\ [Promise!Next]_(Promise!vars) =>
         Typed' /\ [\A f \in File : emitted'[f] >= emitted[f]]_(Promise!vars)
  <2> SUFFICES ASSUME Typed, [Promise!Next]_(Promise!vars)
               PROVE  Typed' /\ \A f \in File : emitted'[f] >= emitted[f]
    OBVIOUS
  <2>1. \A f \in File : emitted[f] \in Nat
    BY FileAssumption
  <2>2. CASE emitted' = emitted
    BY <2>1, <2>2
  <2>3. CASE \E f \in File : Promise!Recompile(f)
    <3>1. PICK f \in File, n \in 0..MaxWrites :
             emitted[f] <= n /\ emitted' = [emitted EXCEPT ![f] = n]
      BY <2>3 DEF Promise!Recompile
    <3> QED BY <2>1, <3>1
  <2> QED BY <2>2, <2>3 DEF Promise!Next, Promise!Save, Promise!vars
<1> QED BY <1>1, <1>2, PTL DEF ImplementsRecompiler, Promise!Spec, Promise!NeverOlder

\* In a watched directory no write is lost: each text of a file written in place is
\* emitted, does not compile, is being compiled, or has an event (watcher_run).
THEOREM NoWriteIsLost ==
  ASSUME WatchedFile = NoFile
  PROVE  Spec => []PendingHasEvent
<1>1. Init => PendingInv
  <2> SUFFICES ASSUME Init PROVE PendingInv
    OBVIOUS
  <2>1. \A f \in WrittenInPlace : emitted[f] = disk[f].number
    BY DEF Init, OldText, WrittenInPlace, Watched
  <2>2. PendingHasEvent
    BY <2>1 DEF PendingHasEvent
  <2> QED BY <2>2, OrderInit DEF PendingInv
<1>2. PendingInv /\ [Next]_vars => PendingInv'
  BY PendingNext
<1>3. PendingInv => PendingHasEvent
  BY DEF PendingInv
<1> QED BY <1>1, <1>2, <1>3, PTL DEF Spec

------------------------------------------------------------------------------
(* The polling watcher *)

\* The order of the texts; a file that is about to be read has none yet.
PollTextsInOrder ==
  /\ \A f \in File : emitted[f] <= disk[f].number /\ disk[f].number <= writes
  /\ compiling = Idle \/ compiling.text = Unread \/ CompilesInOrder

PollOrderInv == PollTypeOK /\ PollTextsInOrder

\* The time noted of a file is not later than its last write, nor that than now; a file
\* that exists was written.
TimesInOrder ==
  /\ \A f \in File : mtime[f] <= clock
  /\ \A f \in present : mtime[f] >= 0
  /\ \A i \in 1..Len(files) : files[i].mtime <= mtime[files[i].name]

NoticedInv == PollOrderInv /\ TimesInOrder /\ ChangesAreNoticed

\* One entry's part of ChangesAreNoticed.
Noticed(i) ==
  LET f == files[i].name
  IN  f \in present /\ disk[f].ok /\ files[i].mtime = mtime[f] =>
        \/ emitted[f] = disk[f].number
        \/ compiling.file = f /\ compiling.text \in {Unread, disk[f]}

LEMMA ChangesAreNoticedByEntry ==
  ChangesAreNoticed <=> (~QuickSaves => \A i \in 1..Len(files) : Noticed(i))
BY DEF ChangesAreNoticed, Noticed

Entry == [name : File, mtime : 0..MaxTime]

\* What is read is a text, and a text is not Unread.
LEMMA ReadOrNot ==
  /\ \A text \in Text : text # Unread /\ text.number \in Nat
  /\ Idle.file = NoFile /\ Idle.text = OldText /\ OldText # Unread
BY DEF Text, OldText, Unread, Idle, Never

\* The type invariant without the disk's part, for the steps of the loop.
LEMMA PollTyped ==
  ASSUME PollTypeOK
  PROVE  /\ disk \in [File -> Text] /\ mtime \in [File -> {Never} \cup 0..MaxTime]
         /\ \A f \in File : /\ disk[f] \in Text /\ disk[f].number \in Nat /\ emitted[f] \in Nat
                            /\ mtime[f] \in Int
         /\ files \in Seq(Entry) /\ Len(files) \in Nat /\ Len(files) <= MaxFiles
         /\ \A i \in 1..Len(files) : files[i].name \in File /\ files[i].mtime \in 0..MaxTime
         /\ todo.entry \in Nat /\ todo.entry >= 1 /\ todo.entry <= Len(files) + 2
         /\ todo.names \subseteq File
         /\ clock \in Nat /\ writes \in Nat
         /\ MaxTime \in Nat /\ MaxFiles \in Nat /\ MaxWrites \in Nat
<1>1. disk \in [File -> Text]
  BY DEF PollTypeOK
<1>2. \A text \in Text : text.number \in Nat
  BY ReadOrNot
<1>3. MaxTime \in Nat /\ MaxFiles \in Nat /\ MaxWrites \in Nat
  BY FileAssumption, PollAssumption
<1>4. mtime \in [File -> {Never} \cup 0..MaxTime] /\ emitted \in [File -> 0..MaxWrites]
  BY DEF PollTypeOK
<1>5. \A f \in File : /\ disk[f] \in Text /\ disk[f].number \in Nat /\ emitted[f] \in Nat
                      /\ mtime[f] \in Int
  BY <1>1, <1>2, <1>3, <1>4 DEF Never
<1>6. files \in Seq(Entry) /\ Len(files) \in Nat /\ Len(files) <= MaxFiles
  BY DEF PollTypeOK, Entry
<1>7. \A i \in 1..Len(files) : files[i].name \in File /\ files[i].mtime \in 0..MaxTime
  <2>1. \A i \in 1..Len(files) : files[i] \in Entry
    BY <1>6
  <2> QED BY <2>1 DEF Entry
<1>8. /\ todo.entry \in Nat /\ todo.entry >= 1 /\ todo.entry <= Len(files) + 2
      /\ todo.names \subseteq File
  BY <1>6 DEF PollTypeOK
<1>9. clock \in Nat /\ writes \in Nat
  BY <1>3 DEF PollTypeOK
<1> QED BY <1>1, <1>3, <1>4, <1>5, <1>6, <1>7, <1>8, <1>9

\* The initial scan has noted files of the first second.
LEMMA NoticedInit ==
  ASSUME PollInit
  PROVE  NoticedInv /\ Promise!Init
<1>1. MaxTime \in Nat /\ MaxFiles \in Nat /\ MaxWrites \in Nat
  BY FileAssumption, PollAssumption
<1>2. OldText \in Text /\ OldText.number = 0
  BY <1>1 DEF OldText, Text
<1>3. disk = [f \in File |-> OldText] /\ emitted = [f \in File |-> 0]
  BY DEF PollInit
<1>4. /\ clock = 0 /\ writes = 0 /\ compiling = Idle /\ present \subseteq File
      /\ mtime = [f \in File |-> IF f \in present THEN 0 ELSE Never]
      /\ todo = [entry |-> 1, names |-> {}]
  BY DEF PollInit
<1>5. PICK n \in 0..MaxFiles : \E order \in [1..n -> present] :
         files = [i \in 1..n |-> [name |-> order[i], mtime |-> 0]]
  BY DEF PollInit
<1>6. PICK order \in [1..n -> present] :
         files = [i \in 1..n |-> [name |-> order[i], mtime |-> 0]]
  BY <1>5
<1>7. \A i \in 1..n : [name |-> order[i], mtime |-> 0] \in Entry /\ order[i] \in present
  BY <1>1, <1>4, <1>6 DEF Entry
<1>8. n \in Nat /\ n <= MaxFiles
  BY <1>1, <1>5
<1>9. files \in Seq(Entry) /\ Len(files) = n
  BY <1>6, <1>7, <1>8
<1>10. PollTypeOK
  <2>1. disk \in [File -> Text] /\ emitted \in [File -> 0..MaxWrites]
    BY <1>1, <1>2, <1>3
  <2>2. mtime \in [File -> {Never} \cup 0..MaxTime]
    BY <1>1, <1>4
  <2>3. todo \in [entry : 1..(Len(files) + 2), names : SUBSET File]
    BY <1>4, <1>8, <1>9
  <2> QED BY <1>1, <1>4, <1>8, <1>9, <2>1, <2>2, <2>3 DEF PollTypeOK, Entry
<1>11. PollTextsInOrder
  BY <1>2, <1>3, <1>4, ReadOrNot DEF PollTextsInOrder
<1>12. \A i \in 1..Len(files) : files[i].mtime = 0 /\ files[i].name \in present
  BY <1>6, <1>7, <1>9
<1>13. TimesInOrder
  <2>1. \A f \in File : mtime[f] <= 0
    <3> SUFFICES ASSUME NEW f \in File PROVE mtime[f] <= 0
      OBVIOUS
    <3>1. mtime[f] = IF f \in present THEN 0 ELSE Never
      BY <1>4
    <3> QED BY <3>1 DEF Never
  <2>2. \A f \in present : mtime[f] >= 0
    <3>1. \A f \in present : mtime[f] = 0
      BY <1>4
    <3> QED BY <3>1
  <2>3. \A i \in 1..Len(files) : mtime[files[i].name] = 0
    BY <1>4, <1>12
  <2> QED BY <1>4, <1>12, <2>1, <2>2, <2>3 DEF TimesInOrder
<1>14. \A i \in 1..Len(files) : emitted[files[i].name] = disk[files[i].name].number
  BY <1>2, <1>3, <1>4, <1>12
<1>15. ChangesAreNoticed
  BY <1>14 DEF ChangesAreNoticed
<1> QED BY <1>3, <1>10, <1>11, <1>13, <1>15, PromiseInit DEF NoticedInv, PollOrderInv

\* A write makes the text and the time of one file newer than all others.
LEMMA NoticedSave ==
  ASSUME NoticedInv, NEW f \in File, Save(f)
  PROVE  NoticedInv' /\ Promise!Next
<1>1. PollTypeOK /\ PollTextsInOrder /\ TimesInOrder
  BY DEF NoticedInv, PollOrderInv
<1>2. /\ writes' = writes + 1 /\ writes < MaxWrites /\ present' = present \cup {f}
      /\ ~QuickSaves => mtime[f] # clock
      /\ mtime' = [mtime EXCEPT ![f] = clock]
      /\ clock' = clock /\ files' = files /\ todo' = todo /\ compiling' = compiling
      /\ emitted' = emitted
  BY DEF Save, Overwrite
<1>3. PICK ok \in BOOLEAN : disk' = [disk EXCEPT ![f] = [number |-> writes + 1, ok |-> ok]]
  BY DEF Save, Overwrite
<1> DEFINE text == [number |-> writes + 1, ok |-> ok]
<1>4. /\ disk \in [File -> Text] /\ mtime \in [File -> {Never} \cup 0..MaxTime]
      /\ \A g \in File : disk[g].number \in Nat /\ emitted[g] \in Nat /\ mtime[g] \in Int
      /\ writes \in Nat /\ MaxWrites \in Nat /\ clock \in 0..MaxTime /\ clock \in Nat
  <2>1. clock \in 0..MaxTime
    BY <1>1 DEF PollTypeOK
  <2> QED BY <1>1, <2>1, PollTyped
<1>5. text \in Text /\ text.number = writes + 1
  BY <1>2, <1>4 DEF Text
<1>6. disk' = [disk EXCEPT ![f] = text]
  BY <1>3
<1> HIDE DEF text
<1>7. /\ disk' \in [File -> Text] /\ disk'[f] = text
      /\ \A g \in File : g # f => disk'[g] = disk[g]
  BY <1>4, <1>5, <1>6
<1>8. /\ mtime' \in [File -> {Never} \cup 0..MaxTime] /\ mtime'[f] = clock
      /\ \A g \in File : g # f => mtime'[g] = mtime[g]
  BY <1>2, <1>4
<1>9. PollTypeOK'
  <2>1. writes' \in 0..MaxWrites
    BY <1>2, <1>4
  <2> QED BY <1>1, <1>2, <1>7, <1>8, <2>1 DEF PollTypeOK, Text
<1>10. \A g \in File : disk[g].number <= disk'[g].number /\ disk'[g].number <= writes'
                       /\ disk'[g].number \in Nat
  BY <1>1, <1>2, <1>4, <1>5, <1>7 DEF PollTextsInOrder
<1>11. \A g \in File : emitted[g] <= disk'[g].number
  BY <1>1, <1>4, <1>10 DEF PollTextsInOrder
<1>12. CompilesInOrder /\ compiling.text # Unread => CompilesInOrder'
  <2> SUFFICES ASSUME CompilesInOrder, compiling.text # Unread PROVE CompilesInOrder'
    OBVIOUS
  <2>1. compiling.text.number \in Nat
    BY <1>1, ReadOrNot, FileAssumption DEF PollTypeOK, CompilesInOrder
  <2>2. compiling.text.number <= disk'[compiling.file].number
    BY <1>4, <1>10, <2>1 DEF CompilesInOrder
  <2> QED BY <1>2, <2>2 DEF CompilesInOrder
<1>13. PollTextsInOrder'
  BY <1>1, <1>2, <1>10, <1>11, <1>12 DEF PollTextsInOrder, Unread
<1>14. /\ \A i \in 1..Len(files) : files[i].name \in File /\ files[i].mtime \in Nat
       /\ mtime[f] <= clock
  BY <1>1, PollTyped DEF TimesInOrder
<1>15. TimesInOrder'
  <2>1. \A g \in present' : mtime'[g] >= 0
    BY <1>1, <1>2, <1>4, <1>8 DEF TimesInOrder, PollTypeOK
  <2> QED BY <1>1, <1>2, <1>4, <1>8, <1>14, <2>1 DEF TimesInOrder
<1>16. ASSUME ~QuickSaves, NEW i \in 1..Len(files), Noticed(i)
       PROVE  Noticed(i)'
  <2>1. CASE files[i].name = f
    <3>1. mtime[f] < clock
      BY <1>2, <1>4, <1>14, <1>16
    <3>2. files[i].mtime < clock
      BY <1>1, <1>4, <1>14, <2>1, <3>1 DEF TimesInOrder
    <3> QED BY <1>2, <1>4, <1>8, <1>14, <2>1, <3>2 DEF Noticed
  <2>2. CASE files[i].name # f
    BY <1>2, <1>7, <1>8, <1>14, <1>16, <2>2 DEF Noticed, Unread
  <2> QED BY <2>1, <2>2
<1>17. ChangesAreNoticed'
  BY <1>2, <1>16, ChangesAreNoticedByEntry DEF NoticedInv, ChangesAreNoticed, Noticed
<1>18. text.number > disk[f].number
  BY <1>1, <1>4, <1>5 DEF PollTextsInOrder
<1> QED BY <1>2, <1>4, <1>5, <1>6, <1>9, <1>13, <1>15, <1>17, <1>18, PromiseSave
        DEF NoticedInv, PollOrderInv

\* The clock goes on, or a file is deleted.
LEMMA NoticedWorld ==
  ASSUME NoticedInv, Tick \/ \E f \in File : Delete(f)
  PROVE  NoticedInv' /\ UNCHANGED <<disk, emitted>>
<1>1. PollTypeOK /\ PollTextsInOrder /\ TimesInOrder
  BY DEF NoticedInv, PollOrderInv
<1>2. /\ disk' = disk /\ emitted' = emitted /\ mtime' = mtime /\ writes' = writes
      /\ files' = files /\ todo' = todo /\ compiling' = compiling
      /\ clock' \in 0..MaxTime /\ clock <= clock'
      /\ \A f : f \in present' => f \in present
  <2>1. CASE Tick
    <3>1. clock \in Nat /\ MaxTime \in Nat
      BY <1>1, PollTyped
    <3> QED BY <2>1, <3>1 DEF Tick
  <2>2. CASE \E f \in File : Delete(f)
    <3>1. clock \in 0..MaxTime /\ clock <= clock
      BY <1>1 DEF PollTypeOK
    <3> QED BY <2>2, <3>1 DEF Delete
  <2> QED BY <2>1, <2>2
<1>3. PollTypeOK'
  BY <1>1, <1>2 DEF PollTypeOK, Text, Idle, Unread, Never
<1>4. PollTextsInOrder'
  BY <1>1, <1>2 DEF PollTextsInOrder, CompilesInOrder, Unread
<1>5. clock \in Nat /\ clock' \in Nat /\ \A f \in File : mtime[f] \in Int
  BY <1>1, <1>2, PollTyped
<1>6. TimesInOrder'
  BY <1>1, <1>2, <1>5 DEF TimesInOrder
<1>7. ChangesAreNoticed'
  BY <1>2 DEF NoticedInv, ChangesAreNoticed, Unread
<1> QED BY <1>2, <1>3, <1>4, <1>6, <1>7 DEF NoticedInv, PollOrderInv

\* The loop goes on without having found a change.
LEMMA NoticedLoop ==
  ASSUME NoticedInv,
         \/ Unchanged \/ OpenDirectory \/ Restart
         \/ \E f \in File : SkipName(f)
  PROVE  NoticedInv' /\ UNCHANGED <<disk, emitted>>
<1>1. PollTypeOK /\ PollTextsInOrder /\ TimesInOrder
  BY DEF NoticedInv, PollOrderInv
<1>2. /\ disk' = disk /\ emitted' = emitted /\ mtime' = mtime /\ writes' = writes
      /\ files' = files /\ compiling' = compiling /\ clock' = clock /\ present' = present
  BY DEF Unchanged, OpenDirectory, Restart, SkipName, world
<1>3. todo' \in [entry : 1..(Len(files) + 2), names : SUBSET File]
  <2>1. /\ todo \in [entry : 1..(Len(files) + 2), names : SUBSET File] /\ present \subseteq File
        /\ Len(files) \in Nat
    BY <1>1, PollTyped DEF PollTypeOK
  <2>2. CASE Unchanged
    <3>1. todo' = [todo EXCEPT !.entry = @ + 1] /\ todo.entry <= Len(files)
      BY <2>2 DEF Unchanged, NextEntry
    <3> QED BY <2>1, <3>1
  <2>3. CASE OpenDirectory
    <3>1. todo' = [entry |-> Len(files) + 2, names |-> present]
      BY <2>3 DEF OpenDirectory
    <3>2. Len(files) + 2 \in 1..(Len(files) + 2)
      BY <2>1
    <3> QED BY <2>1, <3>1, <3>2
  <2>4. CASE Restart
    <3>1. todo' = [entry |-> 1, names |-> {}] /\ 1 \in 1..(Len(files) + 2)
      BY <2>1, <2>4 DEF Restart
    <3> QED BY <3>1
  <2>5. CASE \E f \in File : SkipName(f)
    <3>1. PICK f \in File : todo' = [todo EXCEPT !.names = @ \ {f}]
      BY <2>5 DEF SkipName
    <3> QED BY <2>1, <3>1
  <2> QED BY <2>2, <2>3, <2>4, <2>5
<1>4. PollTypeOK'
  BY <1>1, <1>2, <1>3 DEF PollTypeOK, Text, Idle, Unread, Never
<1>5. PollTextsInOrder'
  BY <1>1, <1>2 DEF PollTextsInOrder, CompilesInOrder, Unread
<1>6. TimesInOrder'
  BY <1>1, <1>2 DEF TimesInOrder
<1>7. ChangesAreNoticed'
  BY <1>2 DEF NoticedInv, ChangesAreNoticed, Unread
<1> QED BY <1>2, <1>4, <1>5, <1>6, <1>7 DEF NoticedInv, PollOrderInv

\* The time of a file is noted, in its entry or in a new one, and nothing else is being
\* compiled: the file is about to be read, the other entries are as they were.
LEMMA NoticedNote ==
  ASSUME NoticedInv, NEW f \in File, f \in present, Free,
         files' \in Seq(Entry), Len(files') <= MaxFiles,
         \A i \in 1..Len(files') : \/ i \in 1..Len(files) /\ files'[i] = files[i]
                                   \/ files'[i] = [name |-> f, mtime |-> mtime[f]],
         compiling' = [file |-> f, text |-> Unread],
         todo' \in [entry : 1..(Len(files') + 2), names : SUBSET File],
         UNCHANGED <<world, emitted>>
  PROVE  NoticedInv' /\ UNCHANGED <<disk, emitted>>
<1>1. PollTypeOK /\ PollTextsInOrder /\ TimesInOrder
  BY DEF NoticedInv, PollOrderInv
<1>2. /\ disk' = disk /\ emitted' = emitted /\ mtime' = mtime /\ writes' = writes
      /\ clock' = clock /\ present' = present
  BY DEF world
<1>3. compiling'.file = f /\ compiling'.text = Unread
  OBVIOUS
<1>4. PollTypeOK'
  <2>1. compiling' \in [file : File, text : Text \cup {Unread}]
    OBVIOUS
  <2> QED BY <1>1, <1>2, <2>1 DEF PollTypeOK, Text, Unread, Never, Entry
<1>5. PollTextsInOrder'
  BY <1>1, <1>2, <1>3 DEF PollTextsInOrder, Unread
<1>6. \A i \in 1..Len(files) : files[i].name \in File
  BY <1>1, PollTyped
<1>7. mtime[f] <= mtime[f]
  BY <1>1, PollTyped
<1>8. TimesInOrder'
  <2>1. \A i \in 1..Len(files') : files'[i].mtime <= mtime[files'[i].name]
    BY <1>1, <1>7 DEF TimesInOrder
  <2> QED BY <1>1, <1>2, <2>1 DEF TimesInOrder
<1>9. compiling.file \notin File
  BY ReadOrNot, FileAssumption DEF Free
<1>10. ASSUME ~QuickSaves, NEW i \in 1..Len(files')
       PROVE  Noticed(i)'
  <2>1. CASE i \in 1..Len(files) /\ files'[i] = files[i]
    <3>1. Noticed(i)
      BY <1>10, <2>1, ChangesAreNoticedByEntry DEF NoticedInv
    <3> QED BY <1>2, <1>6, <1>9, <2>1, <3>1 DEF Noticed
  <2>2. CASE files'[i] = [name |-> f, mtime |-> mtime[f]]
    BY <1>3, <2>2 DEF Noticed, Unread
  <2> QED BY <2>1, <2>2
<1>11. ChangesAreNoticed'
  BY <1>10 DEF ChangesAreNoticed, Noticed
<1> QED BY <1>2, <1>4, <1>5, <1>8, <1>11 DEF NoticedInv, PollOrderInv

\* The time of a file that exists can be noted.
LEMMA PollTimed ==
  ASSUME NoticedInv, NEW f \in File, f \in present
  PROVE  [name |-> f, mtime |-> mtime[f]] \in Entry
<1>1. PollTypeOK /\ TimesInOrder
  BY DEF NoticedInv, PollOrderInv
<1>2. mtime \in [File -> {Never} \cup 0..MaxTime] /\ MaxTime \in Nat
  BY <1>1, PollTyped
<1>3. mtime[f] \in 0..MaxTime
  BY <1>1, <1>2 DEF TimesInOrder, Never
<1> QED BY <1>3 DEF Entry

\* An entry whose time is not the one noted.
LEMMA NoticedChanged ==
  ASSUME NoticedInv, Changed
  PROVE  NoticedInv' /\ UNCHANGED <<disk, emitted>>
<1> DEFINE e == todo.entry
           f == files[e].name
           l == Len(files)
<1>1. PollTypeOK
  BY DEF NoticedInv, PollOrderInv
<1>2. /\ files \in Seq(Entry) /\ l \in Nat /\ l <= MaxFiles
      /\ e \in 1..l /\ f \in File /\ todo.names \subseteq File
  BY <1>1, PollTyped DEF Changed
<1>3. /\ Free /\ f \in present /\ files' = [files EXCEPT ![e].mtime = mtime[f]]
      /\ compiling' = [file |-> f, text |-> Unread]
      /\ todo' = [todo EXCEPT !.entry = @ + 1]
      /\ UNCHANGED <<world, emitted>>
  BY DEF Changed, NextEntry
<1>4. files[e] \in Entry
  BY <1>2
<1>5. [files[e] EXCEPT !.mtime = mtime[f]] = [name |-> f, mtime |-> mtime[f]]
  BY <1>4 DEF Entry
<1> DEFINE noted == [name |-> f, mtime |-> mtime[f]]
<1>6. noted \in Entry
  BY <1>2, <1>3, PollTimed
<1>7. files' = [files EXCEPT ![e] = noted]
  BY <1>3, <1>5
<1>8. todo' \in [entry : 1..(l + 2), names : SUBSET File]
  <2>1. todo \in [entry : 1..(l + 2), names : SUBSET File]
    BY <1>1 DEF PollTypeOK
  <2> QED BY <1>2, <1>3, <2>1
<1> HIDE DEF noted
<1>9. files' \in Seq(Entry) /\ Len(files') = l
  BY <1>2, <1>6, <1>7
<1>10. \A i \in 1..l : files'[i] = files[i] \/ files'[i] = noted
  BY <1>2, <1>7
<1> HIDE DEF f, e
<1> QED BY <1>2, <1>3, <1>8, <1>9, <1>10, NoticedNote DEF noted

\* A name that is not known.
LEMMA NoticedNewFile ==
  ASSUME NoticedInv, NEW f \in File, NewFile(f)
  PROVE  NoticedInv' /\ UNCHANGED <<disk, emitted>>
<1> DEFINE l == Len(files)
           noted == [name |-> f, mtime |-> mtime[f]]
<1>1. PollTypeOK
  BY DEF NoticedInv, PollOrderInv
<1>2. /\ files \in Seq(Entry) /\ l \in Nat /\ MaxFiles \in Nat
      /\ todo.entry \in Nat /\ todo.entry >= 1 /\ todo.entry <= l + 2 /\ todo.names \subseteq File
  BY <1>1, PollTyped
<1>3. /\ Free /\ f \in present /\ l < MaxFiles /\ files' = Append(files, noted)
      /\ compiling' = [file |-> f, text |-> Unread]
      /\ todo' = [entry |-> todo.entry + 1, names |-> todo.names \ {f}]
      /\ UNCHANGED <<world, emitted>>
  BY DEF NewFile, InDirectory
<1>4. noted \in Entry
  BY <1>3, PollTimed
<1> HIDE DEF noted
<1>5. /\ files' \in Seq(Entry) /\ Len(files') = l + 1
      /\ \A i \in 1..l : files'[i] = files[i]
      /\ files'[l + 1] = noted
  BY <1>2, <1>3, <1>4
<1>6. \A i \in 1..(l + 1) : (i \in 1..l /\ files'[i] = files[i]) \/ files'[i] = noted
  BY <1>2, <1>5
<1>7. todo' \in [entry : 1..((l + 1) + 2), names : SUBSET File]
  BY <1>2, <1>3
<1>8. l + 1 <= MaxFiles
  BY <1>2, <1>3
<1> QED BY <1>3, <1>5, <1>6, <1>7, <1>8, NoticedNote DEF noted

\* compile_file reads the text there is, which is not older than the output, or finds
\* that the file is gone.
LEMMA NoticedRead ==
  ASSUME NoticedInv, ReadSource
  PROVE  NoticedInv' /\ UNCHANGED <<disk, emitted>>
<1> DEFINE f == compiling.file
<1>1. PollTypeOK /\ PollTextsInOrder /\ TimesInOrder
  BY DEF NoticedInv, PollOrderInv
<1>2. /\ disk' = disk /\ emitted' = emitted /\ mtime' = mtime /\ writes' = writes
      /\ files' = files /\ clock' = clock /\ present' = present /\ todo' = todo
  BY DEF ReadSource, world
<1>3. compiling \in [file : File, text : Text \cup {Unread}] /\ f \in File
  BY <1>1, ReadOrNot DEF PollTypeOK, ReadSource
<1>4. IF f \in present
      THEN compiling' = [compiling EXCEPT !.text = disk[f]]
      ELSE compiling' = Idle
  BY DEF ReadSource
<1>5. disk[f] \in Text /\ \A g \in File : disk[g].number \in Nat
  BY <1>1, <1>3, PollTyped
<1>6. CASE f \in present
  <2>1. compiling' = [file |-> f, text |-> disk[f]]
    BY <1>3, <1>4, <1>6
  <2> HIDE DEF f
  <2>2. compiling'.file = f /\ compiling'.text = disk[f]
    BY <2>1
  <2>3. PollTypeOK'
    <3>1. compiling' \in [file : File, text : Text \cup {Unread}]
      BY <1>3, <1>5, <2>1
    <3> QED BY <1>1, <1>2, <3>1 DEF PollTypeOK, Text, Unread, Never
  <2>4. CompilesInOrder'
    BY <1>1, <1>2, <1>3, <1>5, <2>2 DEF CompilesInOrder, PollTextsInOrder
  <2>5. PollTextsInOrder'
    BY <1>1, <1>2, <2>4 DEF PollTextsInOrder
  <2>6. ASSUME NEW i \in 1..Len(files), Noticed(i) PROVE Noticed(i)'
    BY <1>2, <2>2, <2>6 DEF Noticed, f
  <2> QED BY <1>1, <1>2, <2>3, <2>5, <2>6, ChangesAreNoticedByEntry
          DEF NoticedInv, PollOrderInv, TimesInOrder, ChangesAreNoticed, Noticed
<1>7. CASE f \notin present
  <2>1. compiling' = Idle
    BY <1>4, <1>7
  <2>2. PollTypeOK'
    BY <1>1, <1>2, <2>1 DEF PollTypeOK, Text, Idle, Unread, Never
  <2>3. PollTextsInOrder'
    BY <1>1, <1>2, <2>1, ReadOrNot DEF PollTextsInOrder, Unread, Idle
  <2>4. ASSUME NEW i \in 1..Len(files), Noticed(i) PROVE Noticed(i)'
    BY <1>2, <1>7, <2>4 DEF Noticed
  <2> QED BY <1>1, <1>2, <2>2, <2>3, <2>4, ChangesAreNoticedByEntry
          DEF NoticedInv, PollOrderInv, TimesInOrder, ChangesAreNoticed, Noticed
<1> QED BY <1>6, <1>7

\* compile_file replaces the output by that of the text read, or leaves it, for the text
\* has errors.
LEMMA NoticedEnd ==
  ASSUME NoticedInv, EndCompile
  PROVE  NoticedInv' /\ [Promise!Next]_(Promise!vars)
<1> DEFINE f == compiling.file
           n == compiling.text.number
<1>1. PollTypeOK /\ PollTextsInOrder /\ TimesInOrder
  BY DEF NoticedInv, PollOrderInv
<1>2. /\ disk' = disk /\ mtime' = mtime /\ writes' = writes /\ compiling' = Idle
      /\ files' = files /\ clock' = clock /\ present' = present /\ todo' = todo
  BY DEF EndCompile, WriteOutput, world
<1>3. compiling \in [file : File, text : Text] /\ compiling.text # Unread
  BY <1>1, ReadOrNot DEF PollTypeOK, EndCompile, Free
<1>4. f \in File /\ emitted[f] <= n /\ n <= disk[f].number /\ n \in 0..MaxWrites
  <2>1. compiling # Idle
    BY DEF EndCompile, Free
  <2> QED BY <1>1, <1>3, <2>1 DEF PollTextsInOrder, CompilesInOrder, Text
<1>5. \A g \in File : disk[g].number \in Nat /\ emitted[g] \in Nat
  BY <1>1, PollTyped
<1>6. emitted \in [File -> 0..MaxWrites]
  BY <1>1 DEF PollTypeOK
<1>7. IF compiling.text.ok THEN emitted' = [emitted EXCEPT ![f] = n] ELSE emitted' = emitted
  BY DEF EndCompile, WriteOutput
<1> HIDE DEF n
<1>8. /\ emitted' \in [File -> 0..MaxWrites]
      /\ \A g \in File : emitted'[g] >= emitted[g] /\ emitted'[g] <= disk[g].number
      /\ compiling.text.ok => emitted'[f] = n
      /\ \A g \in File : g # f => emitted'[g] = emitted[g]
  <2>1. \A g \in File : emitted[g] <= disk[g].number
    BY <1>1 DEF PollTextsInOrder
  <2>2. CASE compiling.text.ok
    <3>1. emitted' = [emitted EXCEPT ![f] = n]
      BY <1>7, <2>2
    <3>2. emitted' \in [File -> 0..MaxWrites] /\ emitted'[f] = n
          /\ \A g \in File : g # f => emitted'[g] = emitted[g]
      BY <1>4, <1>6, <3>1
    <3> QED BY <1>4, <1>5, <2>1, <3>2
  <2>3. CASE ~compiling.text.ok
    <3>1. emitted' = emitted
      BY <1>7, <2>3
    <3> QED BY <1>5, <1>6, <2>1, <2>3, <3>1
  <2> QED BY <2>2, <2>3
<1>9. PollTypeOK'
  BY <1>1, <1>2, <1>8 DEF PollTypeOK, Text, Idle, Unread, Never
<1>10. PollTextsInOrder'
  BY <1>1, <1>2, <1>8 DEF PollTextsInOrder, Idle, Unread
<1>11. \A i \in 1..Len(files) : files[i].name \in File
  BY <1>1, PollTyped
<1>12. ASSUME NEW i \in 1..Len(files), Noticed(i) PROVE Noticed(i)'
  <2> DEFINE g == files[i].name
  <2> SUFFICES ASSUME g \in present, disk[g].ok, files[i].mtime = mtime[g]
               PROVE  emitted'[g] = disk[g].number
    BY <1>2 DEF Noticed
  <2>1. g \in File /\ emitted'[g] \in Nat /\ emitted[g] \in Nat /\ disk[g].number \in Nat
    BY <1>5, <1>8, <1>11
  <2>2. CASE emitted[g] = disk[g].number
    BY <1>8, <2>1, <2>2
  <2>3. CASE f = g /\ compiling.text = disk[g]
    BY <1>8, <2>3 DEF n
  <2> QED BY <1>3, <1>12, <2>2, <2>3 DEF Noticed
<1>13. [Promise!Next]_(Promise!vars)
  <2>1. CASE compiling.text.ok
    BY <1>2, <1>4, <1>7, <2>1, PromiseRecompile
  <2>2. CASE ~compiling.text.ok
    BY <1>2, <1>7, <2>2, PromiseKept
  <2> QED BY <2>1, <2>2
<1> QED BY <1>1, <1>2, <1>8, <1>9, <1>10, <1>12, <1>13, ChangesAreNoticedByEntry
        DEF NoticedInv, PollOrderInv, TimesInOrder, ChangesAreNoticed, Noticed

\* Every step of the world and of the loop.
LEMMA NoticedNext ==
  ASSUME NoticedInv, [PollNext]_pollVars
  PROVE  NoticedInv' /\ [Promise!Next]_(Promise!vars)
<1>1. CASE Tick \/ \E f \in File : Delete(f)
  BY <1>1, NoticedWorld, PromiseKept
<1>2. CASE \E f \in File : Save(f)
  BY <1>2, NoticedSave
<1>3. CASE \/ Unchanged \/ OpenDirectory \/ Restart
           \/ \E f \in File : SkipName(f)
  BY <1>3, NoticedLoop, PromiseKept
<1>4. CASE Changed
  BY <1>4, NoticedChanged, PromiseKept
<1>5. CASE \E f \in File : NewFile(f)
  BY <1>5, NoticedNewFile, PromiseKept
<1>6. CASE ReadSource
  BY <1>6, NoticedRead, PromiseKept
<1>7. CASE EndCompile
  BY <1>7, NoticedEnd
<1>8. CASE UNCHANGED pollVars
  <2>1. /\ disk' = disk /\ emitted' = emitted /\ mtime' = mtime /\ writes' = writes
        /\ files' = files /\ clock' = clock /\ present' = present /\ todo' = todo
        /\ compiling' = compiling
    BY <1>8 DEF pollVars
  <2>2. PollTypeOK'
    BY <2>1 DEF NoticedInv, PollOrderInv, PollTypeOK, Text, Idle, Unread, Never
  <2>3. PollTextsInOrder' /\ TimesInOrder'
    BY <2>1 DEF NoticedInv, PollOrderInv, PollTextsInOrder, CompilesInOrder, TimesInOrder,
                Unread
  <2>4. ChangesAreNoticed'
    BY <2>1 DEF NoticedInv, ChangesAreNoticed, Unread
  <2> QED BY <2>1, <2>2, <2>3, <2>4, PromiseKept DEF NoticedInv, PollOrderInv
<1> QED BY <1>1, <1>2, <1>3, <1>4, <1>5, <1>6, <1>7, <1>8 DEF PollNext, Poller

\* The types, the order of texts and times, and that changes are noticed.
THEOREM NoticedHolds == PollSpec => []NoticedInv
<1>1. PollInit => NoticedInv
  BY NoticedInit
<1>2. NoticedInv /\ [PollNext]_pollVars => NoticedInv'
  BY NoticedNext
<1> QED BY <1>1, <1>2, PTL DEF PollSpec

\* No change is missed by an editor that does not write a file twice in a second: when
\* the time noted of a file is that of its last write, its text was emitted, has errors,
\* is being compiled or is about to be read (watcher_run_poll).
THEOREM NoChangeIsMissed == PollSpec => []ChangesAreNoticed
<1>1. NoticedInv => ChangesAreNoticed
  BY DEF NoticedInv
<1> QED BY <1>1, NoticedHolds, PTL

\* Each output is only ever replaced by that of a text that is at least as new
\* (compile_file, watcher_run_poll), though files change and vanish meanwhile, and
\* whatever the times say: the polling watcher implements Recompiler too.
THEOREM PollImplements == PollSpec => ImplementsRecompiler
<1>1. PollInit => Promise!Init
  BY NoticedInit
<1>2. NoticedInv /\ [PollNext]_pollVars => [Promise!Next]_(Promise!vars)
  BY NoticedNext
<1> QED BY <1>1, <1>2, NoticedHolds, PTL DEF PollSpec, ImplementsRecompiler, Promise!Spec

\* No output of either watcher is ever replaced by that of an older text.
THEOREM OutputsNeverGoBack == Spec \/ PollSpec => Promise!NeverOlder
BY InotifyImplements, PollImplements, RecompilerNeverOlder, PTL

==============================================================================
