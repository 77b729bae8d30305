--------------------------- MODULE MCWatcherInotify ---------------------------
(****************************************************************************)
(* Instances of the inotify watcher for TLC: two files, a read buffer that  *)
(* does not hold all events.                                                *)
(****************************************************************************)
EXTENDS WatcherInotify, TLC

CONSTANTS f1, f2

MCFile == {f1, f2}

==============================================================================
