---------------------------- MODULE WatcherInotify ----------------------------
(****************************************************************************)
(* The file watcher on Linux (watcher.c, watcher_run): it waits for inotify *)
(* events of the watched path and compiles the file each event names.       *)
(*                                                                          *)
(* The editor and the kernel's event queue are modelled from how watcher.c  *)
(* uses them: an editor truncates, writes and closes a file, or writes a    *)
(* new file aside and renames it over the old one; the queue keeps events   *)
(* in order and drops one that repeats its last event.                      *)
(*                                                                          *)
(* Texts, outputs and compile_file are those of CompileFile.                *)
(****************************************************************************)
EXTENDS CompileFile, Sequences

CONSTANTS
  WatchedFile,  \* the watched path is this file, or NoFile for the directory
  RenameSaves,  \* the files the editor saves by renaming
  BatchSize     \* events that fit the 4096 bytes of buf

ASSUME WatcherAssumption ==
  /\ WatchedFile \in File \cup {NoFile}
  /\ RenameSaves \subseteq File
  /\ BatchSize \in Nat \ {0}

\* Mutant of Mask: without IN_MODIFY.
MaskOfCloses == {"create", "close_write"}

\* The mask of inotify_add_watch.
Mask == {"modify", "create", "close_write"}

Event == [mask : Mask, file : File, output : BOOLEAN]

VARIABLES
  editing,  \* the files an editor holds open for writing
  queue,    \* the inotify events not read yet
  batch     \* the events read and not processed

vars == <<disk, editing, writes, queue, batch, compiling, emitted>>
editor == <<disk, editing, writes>>

\* The outputs were generated before the watcher starts.
Init ==
  /\ disk = [f \in File |-> OldText]
  /\ editing = {}
  /\ writes = 0
  /\ queue = << >>
  /\ batch = << >>
  /\ compiling = Idle
  /\ emitted = [f \in File |-> 0]

------------------------------------------------------------------------------
(* inotify *)

\* Events whose kind is not in the mask are not delivered, nor, when a single file
\* is watched, events of other files; an event that repeats the last one unread is
\* merged with it.
Raise(q, e) ==
  IF \/ e.mask \notin Mask
     \/ WatchedFile # NoFile /\ (e.file # WatchedFile \/ e.output)
     \/ q # << >> /\ q[Len(q)] = e
  THEN q
  ELSE Append(q, e)

\* Events of a watched directory name the file, events of a watched file do not.
Named(e) == WatchedFile = NoFile

SourceEvent(kind, f) == [mask |-> kind, file |-> f, output |-> FALSE]
OutputEvent(kind, f) == [mask |-> kind, file |-> f, output |-> TRUE]

------------------------------------------------------------------------------
(* The editor *)

\* Open with truncation, and each further write.
Write(f) ==
  /\ f \notin RenameSaves
  /\ Overwrite(f)
  /\ queue' = Raise(queue, SourceEvent("modify", f))
  /\ editing' = editing \cup {f}
  /\ UNCHANGED <<batch, compiling, emitted>>

Close(f) ==
  /\ f \in editing
  /\ editing' = editing \ {f}
  /\ queue' = Raise(queue, SourceEvent("close_write", f))
  /\ UNCHANGED <<disk, writes, batch, compiling, emitted>>

Rename(f) ==
  /\ f \in RenameSaves
  /\ Overwrite(f)
  /\ queue' = Raise(queue, SourceEvent("moved_to", f))
  /\ UNCHANGED <<editing, batch, compiling, emitted>>

------------------------------------------------------------------------------
(* watcher_run *)

\* Mutant of ReadEvents: the events that do not fit the buffer are lost.
ReadEventsDropping ==
  /\ compiling = Idle
  /\ batch = << >>
  /\ queue # << >>
  /\ LET n == IF Len(queue) < BatchSize THEN Len(queue) ELSE BatchSize
     IN  /\ batch' = SubSeq(queue, 1, n)
         /\ queue' = << >>
  /\ UNCHANGED <<disk, editing, writes, compiling, emitted>>

\* poll says the descriptor is readable; read returns the events that fit buf.
ReadEvents ==
  /\ compiling = Idle
  /\ batch = << >>
  /\ queue # << >>
  /\ LET n == IF Len(queue) < BatchSize THEN Len(queue) ELSE BatchSize
     IN  /\ batch' = SubSeq(queue, 1, n)
         /\ queue' = SubSeq(queue, n + 1, Len(queue))
  /\ UNCHANGED <<disk, editing, writes, compiling, emitted>>

\* Only an event that names a .szh file is acted upon.
Relevant(e) == Named(e) /\ ~e.output

\* Mutant of SkipEvent: the loop continues without advancing over the event.
SkipEventStuck ==
  /\ compiling = Idle
  /\ batch # << >>
  /\ ~Relevant(Head(batch))
  /\ UNCHANGED vars

SkipEvent ==
  /\ compiling = Idle
  /\ batch # << >>
  /\ ~Relevant(Head(batch))
  /\ batch' = Tail(batch)
  /\ UNCHANGED <<disk, editing, writes, queue, compiling, emitted>>

\* compile_file reads the source the event names.
StartCompile ==
  /\ compiling = Idle
  /\ batch # << >>
  /\ Relevant(Head(batch))
  /\ LET f == Head(batch).file
     IN  compiling' = [file |-> f, text |-> disk[f]]
  /\ batch' = Tail(batch)
  /\ UNCHANGED <<disk, editing, writes, queue, emitted>>

\* The output is written, into the directory that is watched.
FinishCompile ==
  /\ compiling # Idle
  /\ WriteOutput
  /\ queue' = IF compiling.text.ok
              THEN Raise(Raise(queue, OutputEvent("modify", compiling.file)),
                         OutputEvent("close_write", compiling.file))
              ELSE queue
  /\ UNCHANGED <<disk, editing, writes, batch>>

Watcher == ReadEvents \/ SkipEvent \/ StartCompile \/ FinishCompile

Next ==
  \/ Watcher
  \/ \E f \in File : Write(f) \/ Close(f) \/ Rename(f)

\* The watcher runs until it is interrupted; nothing is assumed of the editor.
Spec == Init /\ [][Next]_vars /\ WF_vars(Watcher)

------------------------------------------------------------------------------
(* Properties *)

TypeOK ==
  /\ disk \in [File -> Text]
  /\ editing \subseteq File
  /\ writes \in 0..MaxWrites
  /\ queue \in Seq(Event) /\ batch \in Seq(Event)
  /\ compiling \in [file : File \cup {NoFile}, text : Text]
  /\ emitted \in [File -> 0..MaxWrites]

Watched == IF WatchedFile = NoFile THEN File ELSE {WatchedFile}
WrittenInPlace == Watched \ RenameSaves

\* A text that is not on its way to the output has an event that will bring it
\* there: nothing the editor writes while the watcher is busy gets lost.
PendingHasEvent ==
  \A f \in WrittenInPlace :
     \/ emitted[f] = disk[f].number
     \/ ~disk[f].ok
     \/ compiling.file = f /\ compiling.text = disk[f]
     \/ \E q \in {queue, batch} : \E i \in 1..Len(q) : q[i].file = f /\ ~q[i].output

Recompiles(f) ==
  \A n \in 1..MaxWrites :
     (disk[f] = [number |-> n, ok |-> TRUE]) ~> (emitted[f] = n \/ disk[f].number # n)

\* A text written in place that compiles and stays is the one the output ends up
\* generated from.
RecompilesOnWrite == \A f \in WrittenInPlace : Recompiles(f)

\* watcher.h: "Watch a directory for .szh changes and recompile on change", and
\* PROJECT_JOURNAL.md, which watches a single file: "recompile on save".  Refuted
\* for a file that is saved by renaming (IN_MOVED_TO is not in the mask); it fails
\* for a single watched file too (its events have no name).
RecompilesOnChange == \A f \in Watched : Recompiles(f)

\* The outputs go to the watched directory and raise events too; they do not keep
\* the watcher busy for ever.
Settles == []<>(queue = << >> /\ batch = << >> /\ compiling = Idle)

==============================================================================
