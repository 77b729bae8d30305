------------------------------- MODULE Resolver -------------------------------
(****************************************************************************)
(* The import resolver (resolve.c): from a root file it loads the modules   *)
(* the file imports, and theirs, depth first, with a cache of the modules   *)
(* already loaded and a stack of the modules being loaded.                  *)
(*                                                                          *)
(* A program is one parse of a file.  Its record holds the module's name    *)
(* and, for each import declaration processed so far, the program it was    *)
(* linked to (import_decl.resolved) or Unresolved.  The C call stack of     *)
(* resolve_imports is the sequence frames: the last frame is the running    *)
(* one, and the others wait inside resolve_one for the one above them.      *)
(*                                                                          *)
(* What the files import is chosen in the initial state and never changes.  *)
(* A module that is not on any search path and one that cannot be read are  *)
(* the same here: both are reported and left unresolved.  The search paths  *)
(* themselves are left out.                                                 *)
(****************************************************************************)
EXTENDS Integers, Sequences

CONSTANTS
  Module,       \* module names
  Root,         \* the name under which other files would import the root file
  ImportLists,  \* the import declarations a file may have, in order
  MaxLoaded,    \* RESOLVE_MAX_LOADED
  MaxDepth,     \* RESOLVE_MAX_DEPTH
  MaxPrograms   \* bound of the model: files parsed in one resolution

ASSUME ResolverAssumption ==
  /\ Root \in Module
  /\ ImportLists \subseteq Seq(Module)
  /\ MaxLoaded \in Nat
  /\ MaxDepth \in Nat
  /\ MaxPrograms \in Nat \ {0}

Unresolved == 0

VARIABLES
  imports,       \* module -> its import declarations
  readable,      \* the modules find_module and read_file succeed on
  programs,      \* every program parsed, in the order of parsing
  frames,        \* the programs whose imports are being resolved, outermost first
  loaded,        \* Resolver.loaded and loaded_names
  resolveStack,  \* Resolver.resolve_stack
  errors         \* the import errors reported

vars == <<imports, readable, programs, frames, loaded, resolveStack, errors>>
files == <<imports, readable>>

NewProgram(m) == [mod |-> m, edges |-> << >>]

\* The driver has parsed the root file and calls resolve_imports on it.  The root
\* is neither cached nor on the resolution stack.
Init ==
  /\ imports \in [Module -> ImportLists]
  /\ readable \in SUBSET Module
  /\ Root \in readable
  /\ programs = <<NewProgram(Root)>>
  /\ frames = <<1>>
  /\ loaded = << >>
  /\ resolveStack = << >>
  /\ errors = {}

------------------------------------------------------------------------------
(* The running frame of resolve_imports *)

Running == frames # << >>
Current == frames[Len(frames)]
Declarations(p) == imports[programs[p].mod]
DeclIndex == Len(programs[Current].edges) + 1
AtDeclaration == Running /\ DeclIndex <= Len(Declarations(Current))
\* Mutant of AtEnd: the loop over the declarations may stop one early.
AtEndEarly == Running /\ DeclIndex >= Len(Declarations(Current))

AtEnd == Running /\ DeclIndex > Len(Declarations(Current))
Name == Declarations(Current)[DeclIndex]

\* resolver_get_cached
Cached(name) == \E k \in 1..Len(loaded) : loaded[k].name = name
\* Mutant of CachedProgram: the module cached last, whatever its name.
CachedProgramLast(name) == loaded[Len(loaded)].program

CachedProgram(name) ==
  LET first == CHOOSE k \in 1..Len(loaded) :
                 /\ loaded[k].name = name
                 /\ \A j \in 1..(k - 1) : loaded[j].name # name
  IN  loaded[first].program

\* Mutant of OnStack: only the innermost module is compared.
OnStackTop(name) == resolveStack # << >> /\ resolveStack[Len(resolveStack)] = name

\* stack_contains
OnStack(name) == \E k \in 1..Len(resolveStack) : resolveStack[k] = name

\* Mutant of CacheAdd: nothing is cached.
CacheAddNothing(name, p) == loaded

\* resolver_cache and stack_push do nothing when their array is full; stack_pop
\* pops whatever is on top.
CacheAdd(name, p) ==
  IF Len(loaded) < MaxLoaded
  THEN Append(loaded, [name |-> name, program |-> p])
  ELSE loaded
\* Mutant of Push: nothing is pushed.
PushNothing(name) == resolveStack

Push(name) ==
  IF Len(resolveStack) < MaxDepth THEN Append(resolveStack, name) ELSE resolveStack
Pop ==
  IF resolveStack = << >>
  THEN << >>
  ELSE SubSeq(resolveStack, 1, Len(resolveStack) - 1)

Link(p, target) == [programs EXCEPT ![p].edges = Append(@, target)]

Report(kind) ==
  errors' = errors \cup {[kind |-> kind, program |-> Current, decl |-> DeclIndex]}

------------------------------------------------------------------------------
(* resolve_one, called for the current declaration *)

\* The module was loaded before: link to the same program.
UseCached ==
  /\ AtDeclaration
  /\ Cached(Name)
  /\ programs' = Link(Current, CachedProgram(Name))
  /\ UNCHANGED <<files, frames, loaded, resolveStack, errors>>

\* Mutant of ReportCircular: the cycle is cut without an error.
ReportCircularSilently ==
  /\ AtDeclaration
  /\ ~Cached(Name)
  /\ OnStack(Name)
  /\ programs' = Link(Current, Unresolved)
  /\ UNCHANGED <<files, frames, loaded, resolveStack, errors>>

\* The module is being loaded further down the call stack.
ReportCircular ==
  /\ AtDeclaration
  /\ ~Cached(Name)
  /\ OnStack(Name)
  /\ Report("circular")
  /\ programs' = Link(Current, Unresolved)
  /\ UNCHANGED <<files, frames, loaded, resolveStack>>

\* Mutant of ReportMissing: no error.
ReportMissingSilently ==
  /\ AtDeclaration
  /\ ~Cached(Name)
  /\ ~OnStack(Name)
  /\ Name \notin readable
  /\ programs' = Link(Current, Unresolved)
  /\ UNCHANGED <<files, frames, loaded, resolveStack, errors>>

\* No search path has the module, or it cannot be read.
ReportMissing ==
  /\ AtDeclaration
  /\ ~Cached(Name)
  /\ ~OnStack(Name)
  /\ Name \notin readable
  /\ Report("missing")
  /\ programs' = Link(Current, Unresolved)
  /\ UNCHANGED <<files, frames, loaded, resolveStack>>

\* Mutant of LoadModule: the module is cached before its imports are resolved.
LoadModuleCachedEarly ==
  /\ AtDeclaration
  /\ ~Cached(Name)
  /\ ~OnStack(Name)
  /\ Name \in readable
  /\ Len(programs) < MaxPrograms
  /\ programs' = Append(programs, NewProgram(Name))
  /\ frames' = Append(frames, Len(programs) + 1)
  /\ resolveStack' = Push(Name)
  /\ loaded' = CacheAdd(Name, Len(programs) + 1)
  /\ UNCHANGED <<files, errors>>

\* Parse the module and resolve its imports first.
LoadModule ==
  /\ AtDeclaration
  /\ ~Cached(Name)
  /\ ~OnStack(Name)
  /\ Name \in readable
  /\ Len(programs) < MaxPrograms
  /\ programs' = Append(programs, NewProgram(Name))
  /\ frames' = Append(frames, Len(programs) + 1)
  /\ resolveStack' = Push(Name)
  /\ UNCHANGED <<files, loaded, errors>>

\* The imports of a module are resolved and its passes have run: pop the stack,
\* cache the module, return to the importer and link its declaration.
FinishModule ==
  /\ AtEnd
  /\ Len(frames) > 1
  /\ frames' = SubSeq(frames, 1, Len(frames) - 1)
  /\ resolveStack' = Pop
  /\ loaded' = CacheAdd(programs[Current].mod, Current)
  /\ programs' = Link(frames[Len(frames) - 1], Current)
  /\ UNCHANGED <<files, errors>>

\* resolve_imports returns to the driver.
FinishRoot ==
  /\ AtEnd
  /\ Len(frames) = 1
  /\ frames' = << >>
  /\ UNCHANGED <<files, programs, loaded, resolveStack, errors>>

Next ==
  \/ UseCached
  \/ ReportCircular
  \/ ReportMissing
  \/ LoadModule
  \/ FinishModule
  \/ FinishRoot

\* The resolver is a sequential program: it keeps taking steps while it can.
Spec == Init /\ [][Next]_vars /\ WF_vars(Next)

------------------------------------------------------------------------------
(* Properties *)

Program == [mod : Module, edges : Seq(Nat)]

TypeOK ==
  /\ imports \in [Module -> ImportLists]
  /\ readable \subseteq Module
  /\ programs \in Seq(Program)
  /\ frames \in Seq(Nat)
  /\ \A k \in 1..Len(frames) : frames[k] \in 1..Len(programs)
  /\ loaded \in Seq([name : Module, program : Nat])
  /\ resolveStack \in Seq(Module)
  /\ Len(loaded) <= MaxLoaded
  /\ Len(resolveStack) <= MaxDepth
  /\ errors \subseteq [kind : {"circular", "missing"}, program : 1..Len(programs), decl : Nat]
  /\ \A e \in errors : e.decl \in 1..Len(programs[e.program].edges)

Done == ~Running
Open == {frames[k] : k \in 1..Len(frames)}
Finished == (1..Len(programs)) \ Open

\* A declaration is only ever linked to a program whose own imports are resolved
\* and whose passes have run, and to one of the name it imports.  It is what lets
\* the checkers and the emitters of the importer read the imported program.
LinksAreFinished ==
  \A p \in 1..Len(programs) : \A i \in 1..Len(programs[p].edges) :
     LET q == programs[p].edges[i]
     IN  q # Unresolved => /\ q \in Finished
                           /\ programs[q].mod = Declarations(p)[i]

\* What the cache hands out is finished, and is the module it is asked for.
CacheIsFinished ==
  \A k \in 1..Len(loaded) :
     /\ loaded[k].program \in Finished
     /\ programs[loaded[k].program].mod = loaded[k].name

\* An import declaration that was processed is linked or reported, never neither:
\* resolution leaves a hole in the import graph only with an error to show for it.
HolesAreReported ==
  \A p \in 1..Len(programs) : \A i \in 1..Len(programs[p].edges) :
     programs[p].edges[i] = Unresolved
       <=> \E kind \in {"circular", "missing"} :
              [kind |-> kind, program |-> p, decl |-> i] \in errors

\* "Circular imports are detected via a resolution stack" (comment of resolve.c):
\* no module is loaded while an earlier load of it is still under way.
NoReentry ==
  \A j, k \in 2..Len(frames) : j # k => programs[frames[j]].mod # programs[frames[k]].mod

\* Every resolution comes to an end, cyclic imports included, given room on the stack
\* for the modules that are being loaded (resolve_imports, resolve_one).
Terminates == <>Done

\* "each module is parsed once and shared across all importers" (comment of
\* resolve.c): the resolver implements ModuleLoader, which loads no module twice.
\* The modules of the frames above the root's are the ones being loaded, and the
\* cache holds the ones that were loaded.
Loader == INSTANCE ModuleLoader WITH
  loading <- [k \in 1..(IF Len(frames) > 1 THEN Len(frames) - 1 ELSE 0) |->
                programs[frames[k + 1]].mod],
  shared  <- {loaded[k].name : k \in 1..Len(loaded)}

ImplementsModuleLoader == Loader!Spec

==============================================================================
