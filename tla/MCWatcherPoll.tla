---------------------------- MODULE MCWatcherPoll ----------------------------
(****************************************************************************)
(* Instances of the polling watcher for TLC: two names, of files that may   *)
(* or may not exist when the watcher starts.                                *)
(****************************************************************************)
EXTENDS WatcherPoll, TLC

CONSTANTS f1, f2

MCFile == {f1, f2}

==============================================================================
