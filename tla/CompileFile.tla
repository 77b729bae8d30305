----------------------------- MODULE CompileFile -----------------------------
(****************************************************************************)
(* What the two watchers of watcher.c have in common: the files, their      *)
(* outputs, and compile_file, which both call.                              *)
(*                                                                          *)
(* A text is a number that grows with every write of the editor, and        *)
(* whether it compiles without errors.  compile_file is more than one step, *)
(* for the editor may write after the source was read and before the output *)
(* is written.                                                              *)
(****************************************************************************)
EXTENDS Integers

CONSTANTS
  File,      \* the .szh files
  NoFile,
  MaxWrites  \* bound of the model: writes of the editor

ASSUME FileAssumption == NoFile \notin File /\ MaxWrites \in Nat

Text == [number : 0..MaxWrites, ok : BOOLEAN]
OldText == [number |-> 0, ok |-> TRUE]

Idle == [file |-> NoFile, text |-> OldText]

VARIABLES
  disk,       \* the text of each file, the last one if it was deleted
  writes,     \* history: how many writes there were
  compiling,  \* the file being compiled and the source that was read
  emitted     \* the number of the text each output was generated from

\* The editor writes a file.
Overwrite(f) ==
  /\ writes < MaxWrites
  /\ writes' = writes + 1
  /\ \E ok \in BOOLEAN : disk' = [disk EXCEPT ![f] = [number |-> writes + 1, ok |-> ok]]

\* Mutant of WriteOutput: the output is opened, and truncated, before the errors are
\* looked at.
WriteOutputTruncating ==
  /\ emitted' = [emitted EXCEPT ![compiling.file] =
                   IF compiling.text.ok THEN compiling.text.number ELSE 0]
  /\ compiling' = Idle

\* compile_file ends: it writes the output unless there are errors.
WriteOutput ==
  /\ emitted' = IF compiling.text.ok
                THEN [emitted EXCEPT ![compiling.file] = compiling.text.number]
                ELSE emitted
  /\ compiling' = Idle

------------------------------------------------------------------------------
(* Properties *)

\* Though events queue up while files change, and files change and vanish while they
\* are compiled, each output is only ever replaced by that of a text that is at least
\* as new: the watcher implements Recompiler.
Promise == INSTANCE Recompiler WITH
  Number  <- 0..MaxWrites,
  written <- [f \in File |-> disk[f].number],
  output  <- emitted

ImplementsRecompiler == Promise!Spec

==============================================================================
