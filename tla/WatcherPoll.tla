----------------------------- MODULE WatcherPoll -----------------------------
(****************************************************************************)
(* The polling file watcher (watcher.c, watcher_run_poll), the fallback     *)
(* where inotify is missing: once a second it compares the modification     *)
(* time of every file it knows with the one it noted, and then looks for    *)
(* files it does not know.                                                  *)
(*                                                                          *)
(* The editor, the clock and the file system are modelled from how          *)
(* watcher.c uses them: a modification time is the second of the last       *)
(* write.  Texts, outputs and compile_file are those of CompileFile; stat,  *)
(* the reading of the source and the writing of the output are three steps, *)
(* for the editor may write or delete the file in between.                  *)
(****************************************************************************)
EXTENDS CompileFile, Sequences

CONSTANTS
  MaxFiles,    \* entries of files[] (128)
  QuickSaves,  \* the editor may write a file twice in a second
  MaxTime      \* bound of the model: seconds

ASSUME PollAssumption ==
  /\ MaxFiles \in Nat \ {0}
  /\ QuickSaves \in BOOLEAN
  /\ MaxTime \in Nat

Never == -1

\* The text of a file whose change was noted and that was not read yet.
Unread == [number |-> Never, ok |-> FALSE]

VARIABLES
  clock,    \* the time, in seconds
  present,  \* the files that exist
  mtime,    \* the time of the last write of each name, or Never
  files,    \* the files known, each with the modification time noted
  todo      \* where the loop is: the entries, then the names, left to look at

pollVars == <<clock, present, disk, mtime, writes, files, todo, compiling, emitted>>
world == <<clock, present, disk, mtime, writes>>

Known(f) == \E i \in 1..Len(files) : files[i].name = f

\* The initial scan notes the files that exist, as long as there is room, and does not
\* compile them: the outputs were generated before.
PollInit ==
  /\ clock = 0
  /\ disk = [f \in File |-> OldText]
  /\ present \in SUBSET File
  /\ mtime = [f \in File |-> IF f \in present THEN 0 ELSE Never]
  /\ writes = 0
  /\ \E n \in 0..MaxFiles : \E order \in [1..n -> present] :
       /\ \A i, j \in 1..n : order[i] = order[j] => i = j
       /\ n = MaxFiles \/ \A f \in present : \E i \in 1..n : order[i] = f
       /\ files = [i \in 1..n |-> [name |-> order[i], mtime |-> 0]]
  /\ todo = [entry |-> 1, names |-> {}]
  /\ compiling = Idle
  /\ emitted = [f \in File |-> 0]

------------------------------------------------------------------------------
(* The world *)

Tick ==
  /\ clock < MaxTime
  /\ clock' = clock + 1
  /\ UNCHANGED <<present, disk, mtime, writes, files, todo, compiling, emitted>>

\* A write, of a new file or of an old one.
Save(f) ==
  /\ ~QuickSaves => mtime[f] # clock
  /\ Overwrite(f)
  /\ present' = present \cup {f}
  /\ mtime' = [mtime EXCEPT ![f] = clock]
  /\ UNCHANGED <<clock, files, todo, compiling, emitted>>

Delete(f) ==
  /\ f \in present
  /\ present' = present \ {f}
  /\ UNCHANGED <<clock, disk, mtime, writes, files, todo, compiling, emitted>>

------------------------------------------------------------------------------
(* The loop of watcher_run_poll *)

Free == compiling = Idle
NextEntry == [todo EXCEPT !.entry = @ + 1]

\* The next entry has no file, or its modification time is the one noted.
Unchanged ==
  /\ Free
  /\ todo.entry <= Len(files)
  /\ files[todo.entry].name \notin present \/ mtime[files[todo.entry].name] = files[todo.entry].mtime
  /\ todo' = NextEntry
  /\ UNCHANGED <<world, files, compiling, emitted>>

\* Mutant of Changed: the time noted is that of the look, not of the write.
ChangedNotingClock ==
  /\ Free
  /\ todo.entry <= Len(files)
  /\ LET f == files[todo.entry].name
     IN  /\ f \in present
         /\ mtime[f] # files[todo.entry].mtime
         /\ files' = [files EXCEPT ![todo.entry].mtime = clock]
         /\ compiling' = [file |-> f, text |-> Unread]
  /\ todo' = NextEntry
  /\ UNCHANGED <<world, emitted>>

\* It is not: note it and compile the file.
Changed ==
  /\ Free
  /\ todo.entry <= Len(files)
  /\ LET f == files[todo.entry].name
     IN  /\ f \in present
         /\ mtime[f] # files[todo.entry].mtime
         /\ files' = [files EXCEPT ![todo.entry].mtime = mtime[f]]
         /\ compiling' = [file |-> f, text |-> Unread]
  /\ todo' = NextEntry
  /\ UNCHANGED <<world, emitted>>

\* All entries were looked at: read the directory.
OpenDirectory ==
  /\ Free
  /\ todo.entry = Len(files) + 1
  /\ todo' = [entry |-> Len(files) + 2, names |-> present]
  /\ UNCHANGED <<world, files, compiling, emitted>>

InDirectory == Free /\ todo.entry > Len(files) + 1

\* Mutant of NewFile: the file is noted and not compiled.
NewFileUncompiled(f) ==
  /\ InDirectory
  /\ f \in todo.names
  /\ ~Known(f)
  /\ f \in present
  /\ Len(files) < MaxFiles
  /\ files' = Append(files, [name |-> f, mtime |-> mtime[f]])
  /\ todo' = [entry |-> todo.entry + 1, names |-> todo.names \ {f}]
  /\ UNCHANGED <<world, compiling, emitted>>

\* A name that is not known is noted, if there is room, and compiled.
NewFile(f) ==
  /\ InDirectory
  /\ f \in todo.names
  /\ ~Known(f)
  /\ f \in present
  /\ Len(files) < MaxFiles
  /\ files' = Append(files, [name |-> f, mtime |-> mtime[f]])
  /\ compiling' = [file |-> f, text |-> Unread]
  /\ todo' = [entry |-> todo.entry + 1, names |-> todo.names \ {f}]
  /\ UNCHANGED <<world, emitted>>

SkipName(f) ==
  /\ InDirectory
  /\ f \in todo.names
  /\ Known(f) \/ Len(files) >= MaxFiles \/ f \notin present
  /\ todo' = [todo EXCEPT !.names = @ \ {f}]
  /\ UNCHANGED <<world, files, compiling, emitted>>

\* The directory is read; sleep, and start over.
Restart ==
  /\ InDirectory
  /\ todo.names = {}
  /\ todo' = [entry |-> 1, names |-> {}]
  /\ UNCHANGED <<world, files, compiling, emitted>>

\* compile_file reads the source, if the file is still there.
ReadSource ==
  /\ compiling.text = Unread
  /\ compiling' = IF compiling.file \in present
                  THEN [compiling EXCEPT !.text = disk[compiling.file]]
                  ELSE Idle
  /\ UNCHANGED <<world, files, todo, emitted>>

EndCompile ==
  /\ ~Free
  /\ compiling.text # Unread
  /\ WriteOutput
  /\ UNCHANGED <<world, files, todo>>

Poller ==
  \/ Unchanged
  \/ Changed
  \/ OpenDirectory
  \/ \E f \in File : NewFile(f) \/ SkipName(f)
  \/ Restart
  \/ ReadSource
  \/ EndCompile

PollNext == Tick \/ (\E f \in File : Save(f) \/ Delete(f)) \/ Poller

\* The loop runs until it is interrupted; nothing is assumed of the editor.
PollSpec == PollInit /\ [][PollNext]_pollVars /\ WF_pollVars(Poller)

------------------------------------------------------------------------------
(* Properties *)

PollTypeOK ==
  /\ clock \in 0..MaxTime
  /\ present \subseteq File
  /\ disk \in [File -> Text]
  /\ mtime \in [File -> {Never} \cup 0..MaxTime]
  /\ writes \in 0..MaxWrites
  /\ files \in Seq([name : File, mtime : 0..MaxTime])
  /\ Len(files) <= MaxFiles
  /\ todo \in [entry : 1..(Len(files) + 2), names : SUBSET File]
  /\ compiling = Idle \/ compiling \in [file : File, text : Text \cup {Unread}]
  /\ emitted \in [File -> 0..MaxWrites]

\* No change is missed: when the time noted of a file is that of its last write, its
\* output is that of its text, or will be when what goes on ends; a change before,
\* during and after stat, reading and writing included.  For an editor that does not
\* write a file twice in a second; otherwise the second write may leave the noted time
\* as it is.
ChangesAreNoticed ==
  ~QuickSaves =>
    \A i \in 1..Len(files) :
      LET f == files[i].name
      IN  f \in present /\ disk[f].ok /\ files[i].mtime = mtime[f] =>
            \/ emitted[f] = disk[f].number
            \/ compiling.file = f /\ compiling.text \in {Unread, disk[f]}

Has(f, text) == f \in present /\ disk[f] = text

\* watcher.h: "Watch a directory for .szh changes and recompile on change".  A text
\* that compiles and stays is the one the output ends up generated from.  It holds
\* for an editor that does not write a file twice in a second; otherwise the second
\* write may leave the noted time as it is.
ChangesAreCompiled ==
  \A f \in File : \A n \in 1..MaxWrites :
     Has(f, [number |-> n, ok |-> TRUE])
       ~> (emitted[f] = n \/ ~Has(f, [number |-> n, ok |-> TRUE]))

==============================================================================
