---------------------------- MODULE ResolverProofs ----------------------------
(****************************************************************************)
(* What the import resolver guarantees for all files, of any number and     *)
(* with any imports, and for all sizes of its cache and its stack.          *)
(*                                                                          *)
(* LinksAreFinished is not inductive.  A module that is finished is removed *)
(* from the frames, so it must be there once: the frames are in the order   *)
(* of parsing.  It is linked under the name the importer asked for: every   *)
(* frame waits for the module of the frame above it.  And the cache must    *)
(* hold finished modules only.                                              *)
(****************************************************************************)
EXTENDS ResolverGraph, FiniteSets, FiniteSetTheorems, SequenceTheorems,
        WellFoundedInduction, TLAPS

FramesNested ==
  \A j, k \in 1..Len(frames) : j < k => frames[j] < frames[k]

DeclarationsInOrder ==
  \A p \in 1..Len(programs) : Len(programs[p].edges) <= Len(Declarations(p))

FramesWait ==
  \A k \in 1..(Len(frames) - 1) :
     /\ Len(programs[frames[k]].edges) < Len(Declarations(frames[k]))
     /\ programs[frames[k + 1]].mod
          = Declarations(frames[k])[Len(programs[frames[k]].edges) + 1]

Inv ==
  /\ TypeOK
  /\ FramesNested
  /\ DeclarationsInOrder
  /\ FramesWait
  /\ LinksAreFinished
  /\ CacheIsFinished
  /\ HolesAreReported

------------------------------------------------------------------------------
(* The running frame *)

LEMMA AppendFacts ==
  ASSUME NEW S, NEW s \in Seq(S), NEW x \in S
  PROVE  /\ Append(s, x) \in Seq(S)
         /\ Len(s) \in Nat /\ Len(Append(s, x)) = Len(s) + 1
         /\ Append(s, x)[Len(s) + 1] = x
         /\ \A i \in 1..Len(s) : Append(s, x)[i] = s[i]
  OBVIOUS

\* Linking a declaration adds an edge to one program and changes no other.
LEMMA LinkFacts ==
  ASSUME programs \in Seq(Program), NEW p \in 1..Len(programs), NEW target \in Nat
  PROVE  /\ Link(p, target) \in Seq(Program)
         /\ Len(Link(p, target)) = Len(programs)
         /\ \A q \in 1..Len(programs) :
              /\ Link(p, target)[q].mod = programs[q].mod
              /\ q # p => Link(p, target)[q] = programs[q]
         /\ Link(p, target)[p].edges = Append(programs[p].edges, target)
<1> DEFINE new == [programs[p] EXCEPT !.edges = Append(@, target)]
<1>0. programs[p] \in Program
  OBVIOUS
<1>1. programs[p] \in Program /\ programs[p].edges \in Seq(Nat)
  BY <1>0 DEF Program
<1>2. Append(programs[p].edges, target) \in Seq(Nat)
  BY <1>1
<1>3. /\ new.mod = programs[p].mod
      /\ new.edges = Append(programs[p].edges, target)
      /\ new \in Program
  BY <1>1, <1>2 DEF Program
<1>4. Link(p, target) = [programs EXCEPT ![p] = new]
  BY DEF Link
<1> HIDE DEF new
<1> QED BY <1>3, <1>4

\* A frame with a declaration left is a program, and its declaration names a module.
LEMMA CurrentFacts ==
  ASSUME Inv, AtDeclaration
  PROVE  /\ Len(frames) \in Nat \ {0}
         /\ Current \in 1..Len(programs)
         /\ Current = frames[Len(frames)]
         /\ programs[Current].mod \in Module
         /\ programs[Current].edges \in Seq(Nat)
         /\ Declarations(Current) \in Seq(Module)
         /\ DeclIndex = Len(programs[Current].edges) + 1
         /\ DeclIndex \in 1..Len(Declarations(Current))
         /\ Name \in Module
         /\ Name = Declarations(Current)[DeclIndex]
<1>1. Len(frames) \in Nat \ {0} /\ Current \in 1..Len(programs)
  BY DEF Inv, TypeOK, AtDeclaration, Running, Current
<1>2. programs[Current] \in Program
  <2>1. programs \in Seq(Program)
    BY DEF Inv, TypeOK
  <2> QED BY <1>1, <2>1
<1>3. programs[Current].mod \in Module /\ programs[Current].edges \in Seq(Nat)
  BY <1>2 DEF Program
<1>4. Declarations(Current) \in Seq(Module)
  BY <1>3, ResolverAssumption DEF Inv, TypeOK, Declarations
<1>5. /\ DeclIndex = Len(programs[Current].edges) + 1
      /\ DeclIndex \in 1..Len(Declarations(Current))
  BY <1>3, <1>4 DEF AtDeclaration, DeclIndex
<1>6. Name \in Module /\ Name = Declarations(Current)[DeclIndex]
  BY <1>4, <1>5 DEF Name
<1> QED BY <1>1, <1>3, <1>4, <1>5, <1>6 DEF Current

\* A declaration of the running frame is linked to a finished program of the right
\* name, or reported and left unresolved (resolve_imports); the frames do not change.
LEMMA ProcessDeclaration ==
  ASSUME Inv, AtDeclaration,
         NEW target \in Nat,
         target # Unresolved => /\ target \in Finished
                                /\ programs[target].mod = Name,
         programs' = Link(Current, target),
         UNCHANGED <<files, frames, loaded, resolveStack>>,
         \/ target = Unresolved /\ \E kind \in {"circular", "missing"} : Report(kind)
         \/ target # Unresolved /\ errors' = errors
  PROVE  Inv'
<1> DEFINE cur == Current
           new == programs'
           old == programs[Current].edges
           n   == Len(programs)
<1>1. /\ Len(frames) \in Nat \ {0} /\ cur \in 1..n /\ n \in Nat
      /\ cur = frames[Len(frames)]
      /\ old \in Seq(Nat)
      /\ Declarations(cur) \in Seq(Module)
      /\ DeclIndex = Len(old) + 1
      /\ DeclIndex \in 1..Len(Declarations(cur))
      /\ Name = Declarations(cur)[DeclIndex]
      /\ Len(old) \in Nat
  BY CurrentFacts DEF Inv, TypeOK
<1>2. /\ new \in Seq(Program) /\ Len(new) = n
      /\ \A q \in 1..n : new[q].mod = programs[q].mod /\ (q # cur => new[q] = programs[q])
      /\ new[cur].edges = Append(old, target)
  <2>1. programs \in Seq(Program)
    BY DEF Inv, TypeOK
  <2>2. new = Link(cur, target)
    OBVIOUS
  <2>3. cur \in 1..Len(programs) /\ old = programs[cur].edges
    BY <1>1
  <2> HIDE DEF new, cur, old
  <2>4. /\ Link(cur, target) \in Seq(Program) /\ Len(Link(cur, target)) = Len(programs)
        /\ \A q \in 1..Len(programs) :
             /\ Link(cur, target)[q].mod = programs[q].mod
             /\ q # cur => Link(cur, target)[q] = programs[q]
        /\ Link(cur, target)[cur].edges = Append(programs[cur].edges, target)
    BY <2>1, <2>3, LinkFacts
  <2> QED BY <2>2, <2>3, <2>4
<1>3. /\ imports' = imports /\ readable' = readable /\ frames' = frames
      /\ loaded' = loaded /\ resolveStack' = resolveStack
  BY DEF files
<1>4. \A q \in 1..n : Declarations(q)' = Declarations(q)
  BY <1>2, <1>3 DEF Declarations
<1>5. /\ Len(new[cur].edges) = Len(old) + 1
      /\ new[cur].edges[Len(old) + 1] = target
      /\ \A i \in 1..Len(old) : new[cur].edges[i] = old[i]
  <2> DEFINE app == Append(old, target)
  <2>1. /\ Len(app) = Len(old) + 1
        /\ app[Len(old) + 1] = target
        /\ \A i \in 1..Len(old) : app[i] = old[i]
    BY <1>1
  <2> HIDE DEF app
  <2> QED BY <1>2, <2>1 DEF app
<1> HIDE DEF new
<1>6. /\ \A q \in 1..n : Len(new[q].edges) >= Len(programs[q].edges)
      /\ \A q \in 1..n : q # cur => new[q].edges = programs[q].edges
  <2>1. \A q \in 1..n : q # cur => new[q].edges = programs[q].edges
    BY <1>2
  <2>2. \A q \in 1..n : Len(programs[q].edges) \in Nat
    <3>1. \A q \in 1..n : programs[q] \in Program
      BY DEF Inv, TypeOK
    <3> QED BY <3>1 DEF Program
  <2>3. ASSUME NEW q \in 1..n
        PROVE  Len(new[q].edges) >= Len(programs[q].edges)
    <3>1. CASE q = cur
      BY <1>1, <1>5, <3>1
    <3>2. CASE q # cur
      <4>1. new[q].edges = programs[q].edges /\ Len(programs[q].edges) \in Nat
        BY <2>1, <2>2, <3>2
      <4> QED BY <4>1
    <3> QED BY <3>1, <3>2
  <2> QED BY <2>1, <2>3
<1>7. errors' \subseteq [kind : {"circular", "missing"}, program : 1..n, decl : Nat]
      /\ \A e \in errors' : e.decl \in 1..Len(new[e.program].edges)
  <2>1. \A e \in errors : /\ e \in [kind : {"circular", "missing"}, program : 1..n, decl : Nat]
                          /\ e.decl \in 1..Len(programs[e.program].edges)
    BY DEF Inv, TypeOK
  <2>2. \A e \in errors : e.decl \in 1..Len(new[e.program].edges)
    <3> TAKE e \in errors
    <3>1. e.program \in 1..n /\ e.decl \in 1..Len(programs[e.program].edges)
      BY <2>1
    <3>2. CASE e.program = cur
      BY <1>1, <1>5, <3>1, <3>2
    <3>3. CASE e.program # cur
      BY <1>6, <3>1, <3>3
    <3> QED BY <3>2, <3>3
  <2>3. CASE errors' = errors
    BY <2>1, <2>2, <2>3
  <2>4. CASE \E kind \in {"circular", "missing"} : Report(kind)
    <3>1. PICK kind \in {"circular", "missing"} : Report(kind)
      BY <2>4
    <3> DEFINE e0 == [kind |-> kind, program |-> cur, decl |-> DeclIndex]
    <3>2. errors' = errors \cup {e0}
      BY <3>1 DEF Report
    <3>3. e0 \in [kind : {"circular", "missing"}, program : 1..n, decl : Nat]
      BY <1>1
    <3>4. e0.decl \in 1..Len(new[e0.program].edges)
      BY <1>1, <1>5
    <3> HIDE DEF e0
    <3> QED BY <2>1, <2>2, <3>2, <3>3, <3>4
  <2> QED BY <2>3, <2>4
<1>8. TypeOK'
  BY <1>2, <1>3, <1>7 DEF Inv, TypeOK, new
<1>9. FramesNested' /\ Finished' = Finished
  BY <1>2, <1>3 DEF Inv, FramesNested, Finished, Open, new
<1>10. DeclarationsInOrder'
  <2> SUFFICES ASSUME NEW q \in 1..n
               PROVE  Len(new[q].edges) <= Len(Declarations(q))
    BY <1>2, <1>4 DEF DeclarationsInOrder, new
  <2>1. CASE q = cur
    BY <1>1, <1>5, <2>1
  <2>2. CASE q # cur
    BY <1>6, <2>2 DEF Inv, DeclarationsInOrder
  <2> QED BY <2>1, <2>2
<1>11. FramesWait'
  <2> SUFFICES ASSUME NEW k \in 1..(Len(frames) - 1)
               PROVE  /\ Len(new[frames[k]].edges) < Len(Declarations(frames[k])')
                      /\ new[frames[k + 1]].mod
                           = Declarations(frames[k])'[Len(new[frames[k]].edges) + 1]
    BY <1>3 DEF FramesWait, new
  <2>1. k \in 1..Len(frames) /\ k + 1 \in 1..Len(frames) /\ Len(frames) \in 1..Len(frames)
        /\ k < Len(frames)
    BY <1>1
  <2>2. frames[k] \in 1..n /\ frames[k + 1] \in 1..n
    BY <2>1 DEF Inv, TypeOK
  <2>3. frames[k] # cur
    <3>1. frames[k] < cur
      BY <1>1, <2>1 DEF Inv, FramesNested
    <3> QED BY <2>2, <3>1
  <2>4. new[frames[k]] = programs[frames[k]] /\ new[frames[k + 1]].mod = programs[frames[k + 1]].mod
    BY <1>2, <2>2, <2>3
  <2>5. Declarations(frames[k])' = Declarations(frames[k])
    BY <1>3, <2>4 DEF Declarations, new
  <2> QED BY <2>4, <2>5 DEF Inv, FramesWait
<1>12. LinksAreFinished'
  <2> SUFFICES ASSUME NEW p \in 1..n, NEW i \in 1..Len(new[p].edges), new[p].edges[i] # Unresolved
               PROVE  /\ new[p].edges[i] \in Finished
                      /\ programs[new[p].edges[i]].mod = Declarations(p)[i]
    <3>1. \A q \in Finished : q \in 1..n
      BY DEF Finished
    <3> QED BY <1>2, <1>4, <1>9, <3>1 DEF LinksAreFinished, new, Unresolved
  <2>1. CASE p # cur
    BY <1>6, <2>1 DEF Inv, LinksAreFinished
  <2>2. CASE p = cur /\ i = Len(old) + 1
    BY <1>1, <1>5, <2>2
  <2>3. CASE p = cur /\ i # Len(old) + 1
    <3>0. i \in 1..(Len(old) + 1)
      BY <1>5, <2>3
    <3>2. i \in 1..Len(old)
      <4> DEFINE l == Len(old)
      <4>1. l \in Nat /\ i \in 1..(l + 1) /\ i # l + 1
        BY <1>1, <2>3, <3>0
      <4> HIDE DEF l
      <4>2. i \in 1..l
        BY <4>1
      <4> QED BY <4>2 DEF l
    <3>3. new[p].edges[i] = old[i]
      BY <1>5, <2>3, <3>2
    <3>1. i \in 1..Len(old) /\ new[p].edges[i] = programs[p].edges[i]
      BY <2>3, <3>2, <3>3
    <3> QED BY <2>3, <3>1 DEF Inv, LinksAreFinished
  <2> QED BY <2>1, <2>2, <2>3
<1>13. CacheIsFinished'
  <2>1. \A q \in Finished : q \in 1..n
    BY DEF Finished
  <2> QED BY <1>2, <1>3, <1>9, <2>1 DEF Inv, CacheIsFinished, new
<1>14. HolesAreReported'
  <2> DEFINE Err(es, p, i) ==
         \E kind \in {"circular", "missing"} : [kind |-> kind, program |-> p, decl |-> i] \in es
  <2>1. \A p \in 1..n : \A i \in 1..Len(programs[p].edges) :
           programs[p].edges[i] = Unresolved <=> Err(errors, p, i)
    BY DEF Inv, HolesAreReported
  <2>2. \A p \in 1..n, i \in Nat : Err(errors, p, i) => i \in 1..Len(programs[p].edges)
    <3> SUFFICES ASSUME NEW p \in 1..n, NEW i \in Nat, NEW kind \in {"circular", "missing"},
                        [kind |-> kind, program |-> p, decl |-> i] \in errors
                 PROVE  i \in 1..Len(programs[p].edges)
      OBVIOUS
    <3> DEFINE e == [kind |-> kind, program |-> p, decl |-> i]
    <3>1. e.decl \in 1..Len(programs[e.program].edges)
      BY DEF Inv, TypeOK
    <3> QED BY <3>1
  <2>3. \A p \in 1..n, i \in Nat :
           Err(errors', p, i) <=>
             Err(errors, p, i) \/ (p = cur /\ i = DeclIndex /\ target = Unresolved)
    <3>1. CASE target # Unresolved
      BY <3>1
    <3>2. CASE target = Unresolved
      <4>1. PICK kind \in {"circular", "missing"} : Report(kind)
        BY <3>2
      <4>2. errors' = errors \cup {[kind |-> kind, program |-> cur, decl |-> DeclIndex]}
        BY <4>1 DEF Report
      <4> QED BY <3>2, <4>2
    <3> QED BY <3>1, <3>2
  <2> HIDE DEF Err
  <2> SUFFICES ASSUME NEW p \in 1..n, NEW i \in 1..Len(new[p].edges)
               PROVE  new[p].edges[i] = Unresolved <=> Err(errors', p, i)
    BY <1>2 DEF HolesAreReported, Err, new
  <2>4. i \in Nat
    OBVIOUS
  <2>5. CASE p # cur
    BY <1>6, <2>1, <2>3, <2>4, <2>5
  <2>6. CASE p = cur /\ i = Len(old) + 1
    <3>1. ~Err(errors, p, i)
      BY <1>1, <2>2, <2>4, <2>6
    <3> QED BY <1>1, <1>5, <2>3, <2>4, <2>6, <3>1
  <2>7. CASE p = cur /\ i # Len(old) + 1
    <3>0. i \in 1..(Len(old) + 1)
      BY <1>5, <2>7
    <3>2. i \in 1..Len(old)
      <4> DEFINE l == Len(old)
      <4>1. l \in Nat /\ i \in 1..(l + 1) /\ i # l + 1
        BY <1>1, <2>7, <3>0
      <4> HIDE DEF l
      <4>2. i \in 1..l
        BY <4>1
      <4> QED BY <4>2 DEF l
    <3>3. new[p].edges[i] = old[i]
      BY <1>5, <2>7, <3>2
    <3>1. i \in 1..Len(old) /\ new[p].edges[i] = programs[p].edges[i]
      BY <2>7, <3>2, <3>3
    <3> QED BY <1>1, <2>1, <2>3, <2>4, <2>7, <3>1
  <2> QED BY <2>5, <2>6, <2>7
<1> QED BY <1>8, <1>9, <1>10, <1>11, <1>12, <1>13, <1>14 DEF Inv

------------------------------------------------------------------------------
(* The steps *)

\* The root is parsed and nothing else has happened (resolver_init).
LEMMA InvInit == Init => Inv
<1> SUFFICES ASSUME Init PROVE Inv
  OBVIOUS
<1> DEFINE rec == NewProgram(Root)
<1>1. rec \in Program /\ rec.edges = << >>
  <2>1. << >> \in Seq(Nat)
    OBVIOUS
  <2> QED BY <2>1, ResolverAssumption DEF NewProgram, Program
<1> HIDE DEF rec
<1>2. programs = <<rec>> /\ frames = <<1>> /\ loaded = << >> /\ resolveStack = << >> /\ errors = {}
  BY DEF Init, rec
<1>3. /\ Len(programs) = 1 /\ programs[1] = rec /\ programs \in Seq(Program)
      /\ Len(frames) = 1 /\ frames[1] = 1 /\ frames \in Seq(Nat)
  BY <1>1, <1>2
<1>4. /\ loaded \in Seq([name : Module, program : Nat]) /\ Len(loaded) = 0
      /\ resolveStack \in Seq(Module) /\ Len(resolveStack) = 0
  BY <1>2
<1>5. TypeOK
  <2>1. imports \in [Module -> ImportLists] /\ readable \subseteq Module
    BY DEF Init
  <2>2. Len(loaded) <= MaxLoaded /\ Len(resolveStack) <= MaxDepth
    BY <1>4, ResolverAssumption
  <2>3. \A k \in 1..Len(frames) : frames[k] \in 1..Len(programs)
    BY <1>3
  <2> QED BY <1>2, <1>3, <1>4, <2>1, <2>2, <2>3 DEF TypeOK
<1>6. FramesNested /\ FramesWait
  BY <1>3 DEF FramesNested, FramesWait
<1>7. \A p \in 1..Len(programs) : Len(programs[p].edges) = 0
  BY <1>1, <1>3
<1>8. DeclarationsInOrder
  <2>1. Declarations(1) \in Seq(Module)
    BY <1>1, <1>3, <1>5, ResolverAssumption DEF TypeOK, Declarations, Program
  <2>2. Len(Declarations(1)) \in Nat
    BY <2>1
  <2> QED BY <1>3, <1>7, <2>2 DEF DeclarationsInOrder
<1>9. LinksAreFinished /\ CacheIsFinished /\ HolesAreReported
  BY <1>4, <1>7 DEF LinksAreFinished, CacheIsFinished, HolesAreReported
<1> QED BY <1>5, <1>6, <1>8, <1>9 DEF Inv

\* The cache hands out finished programs only, under the name they were cached with
\* (resolver_get_cached).
LEMMA CacheHit ==
  ASSUME Inv, NEW name, Cached(name)
  PROVE  /\ CachedProgram(name) \in Finished
         /\ programs[CachedProgram(name)].mod = name
         /\ CachedProgram(name) \in Nat \ {Unresolved}
<1> DEFINE target == CachedProgram(name)
<1>1. \E k \in 1..Len(loaded) :
         /\ loaded[k].name = name
         /\ \A j \in 1..(k - 1) : loaded[j].name # name
  <2> DEFINE hits == {k \in 1..Len(loaded) : loaded[k].name = name}
  <2>0. Len(loaded) \in Nat
    BY DEF Inv, TypeOK
  <2>1. hits \subseteq Nat /\ hits # {}
    BY <2>0 DEF Cached
  <2>2. PICK k \in hits : \A j \in hits : ~(<<j, k>> \in OpToRel(<, Nat))
    <3> HIDE DEF hits
    <3> QED BY <2>1, NatLessThanWellFounded, WFMin
  <2>3. \A j \in hits : ~(j < k)
    BY <2>1, <2>2 DEF OpToRel
  <2>4. \A j \in 1..(k - 1) : j \in 1..Len(loaded) /\ j < k
    BY <2>0, <2>1
  <2> QED BY <2>3, <2>4
<1>2. PICK k \in 1..Len(loaded) : loaded[k].name = name /\ target = loaded[k].program
  BY <1>1 DEF CachedProgram
<1>3. target \in Finished /\ programs[target].mod = name
  BY <1>2 DEF Inv, CacheIsFinished
<1>4. target \in Nat /\ target # Unresolved
  BY <1>3 DEF Finished, Unresolved
<1> QED BY <1>3, <1>4

\* The cache is asked first (resolve_one).
LEMMA InvUseCached ==
  ASSUME Inv, UseCached
  PROVE  Inv'
<1>1. AtDeclaration /\ errors' = errors /\ UNCHANGED <<files, frames, loaded, resolveStack>>
  BY DEF UseCached
<1>2. programs' = Link(Current, CachedProgram(Name)) /\ Cached(Name)
  BY DEF UseCached
<1> QED BY <1>1, <1>2, CacheHit, ProcessDeclaration

\* A cycle is cut and reported (resolve_one).
LEMMA InvReportCircular ==
  ASSUME Inv, ReportCircular
  PROVE  Inv'
<1>1. Unresolved \in Nat
  BY DEF Unresolved
<1>2. \E kind \in {"circular", "missing"} : Report(kind)
  BY DEF ReportCircular
<1> QED BY <1>1, <1>2, ProcessDeclaration DEF ReportCircular

\* A module that is missing is reported (resolve_one).
LEMMA InvReportMissing ==
  ASSUME Inv, ReportMissing
  PROVE  Inv'
<1>1. Unresolved \in Nat
  BY DEF Unresolved
<1>2. \E kind \in {"circular", "missing"} : Report(kind)
  BY DEF ReportMissing
<1> QED BY <1>1, <1>2, ProcessDeclaration DEF ReportMissing

\* A module is parsed and its imports come first: its program is new, it has no
\* links, and the importer waits for it (resolve_one).
LEMMA InvLoadModule ==
  ASSUME Inv, LoadModule
  PROVE  Inv'
<1> DEFINE n   == Len(programs)
           m   == Len(frames)
           cur == Current
           rec == NewProgram(Name)
           Decls(q) == imports[programs'[q].mod]
<1>1. /\ m \in Nat \ {0} /\ n \in Nat /\ cur \in 1..n /\ cur = frames[m]
      /\ Name \in Module
      /\ DeclIndex = Len(programs[cur].edges) + 1
      /\ DeclIndex \in 1..Len(Declarations(cur))
      /\ Name = Declarations(cur)[DeclIndex]
      /\ Len(programs[cur].edges) \in Nat
  BY CurrentFacts DEF Inv, TypeOK, LoadModule
<1>2. rec \in Program /\ rec.edges = << >> /\ rec.mod = Name
  <2>1. << >> \in Seq(Nat)
    OBVIOUS
  <2> QED BY <1>1, <2>1 DEF NewProgram, Program
<1> HIDE DEF rec
<1>3. /\ programs \in Seq(Program) /\ frames \in Seq(Nat)
      /\ \A k \in 1..m : frames[k] \in 1..n
  BY DEF Inv, TypeOK
<1>4. programs' = Append(programs, rec) /\ frames' = Append(frames, n + 1)
  BY DEF LoadModule, rec
<1>5. /\ programs' \in Seq(Program) /\ Len(programs') = n + 1
      /\ programs'[n + 1] = rec
      /\ \A q \in 1..n : programs'[q] = programs[q]
      /\ frames' \in Seq(Nat) /\ Len(frames') = m + 1
      /\ frames'[m + 1] = n + 1
      /\ \A k \in 1..m : frames'[k] = frames[k]
  BY <1>1, <1>2, <1>3, <1>4
<1>6. /\ imports' = imports /\ readable' = readable /\ loaded' = loaded /\ errors' = errors
      /\ resolveStack' = Push(Name)
  BY DEF LoadModule, files
<1>7. \A q \in 1..n : Decls(q) = Declarations(q)
  BY <1>5 DEF Declarations
<1>8. resolveStack' \in Seq(Module) /\ Len(resolveStack') <= MaxDepth
  BY <1>1, <1>6, ResolverAssumption DEF Inv, TypeOK, Push
<1>9. \A q \in Finished : q \in 1..n /\ q \in Finished'
  <2> SUFFICES ASSUME NEW q \in Finished
               PROVE  q \in 1..n /\ q \in Finished'
    OBVIOUS
  <2>1. q \in 1..n /\ \A k \in 1..m : frames[k] # q
    BY DEF Finished, Open
  <2>2. \A k \in 1..(m + 1) : frames'[k] # q
    <3> TAKE k \in 1..(m + 1)
    <3>1. k = m + 1 \/ k \in 1..m
      BY <1>1
    <3>2. n + 1 # q
      BY <1>1, <2>1
    <3> QED BY <1>5, <2>1, <3>1, <3>2
  <2>3. q \in 1..(n + 1)
    BY <1>1, <2>1
  <2> QED BY <1>5, <2>1, <2>2, <2>3 DEF Finished, Open
<1>10. TypeOK'
  <2>1. \A k \in 1..(m + 1) : frames'[k] \in 1..(n + 1)
    <3> TAKE k \in 1..(m + 1)
    <3>1. CASE k = m + 1
      BY <1>1, <1>5, <3>1
    <3>2. CASE k # m + 1
      <4>1. k \in 1..m
        BY <1>1, <3>2
      <4>2. frames'[k] = frames[k] /\ frames[k] \in 1..n
        BY <1>3, <1>5, <4>1
      <4> QED BY <1>1, <4>2
    <3> QED BY <3>1, <3>2
  <2>2. errors \subseteq [kind : {"circular", "missing"}, program : 1..(n + 1), decl : Nat]
    BY <1>1 DEF Inv, TypeOK
  <2>3. \A e \in errors : e.decl \in 1..Len(programs'[e.program].edges)
    <3> TAKE e \in errors
    <3>1. e.program \in 1..n /\ e.decl \in 1..Len(programs[e.program].edges)
      BY DEF Inv, TypeOK
    <3> QED BY <1>5, <3>1
  <2>4. loaded \in Seq([name : Module, program : Nat]) /\ Len(loaded) <= MaxLoaded
        /\ imports \in [Module -> ImportLists] /\ readable \subseteq Module
    BY DEF Inv, TypeOK
  <2> QED BY <1>5, <1>6, <1>8, <2>1, <2>2, <2>3, <2>4 DEF TypeOK
<1>11. FramesNested'
  <2> SUFFICES ASSUME NEW j \in 1..(m + 1), NEW k \in 1..(m + 1), j < k
               PROVE  frames'[j] < frames'[k]
    BY <1>5 DEF FramesNested
  <2>1. CASE k = m + 1
    <3>1. j \in 1..m
      BY <1>1, <2>1
    <3>2. frames'[j] = frames[j] /\ frames[j] \in 1..n
      BY <1>3, <1>5, <3>1
    <3> QED BY <1>1, <1>5, <2>1, <3>2
  <2>2. CASE k # m + 1
    <3>1. j \in 1..m /\ k \in 1..m
      BY <1>1, <2>2
    <3> QED BY <1>5, <3>1 DEF Inv, FramesNested
  <2> QED BY <2>1, <2>2
<1>12. DeclarationsInOrder'
  <2> SUFFICES ASSUME NEW q \in 1..(n + 1)
               PROVE  Len(programs'[q].edges) <= Len(Decls(q))
    BY <1>5, <1>6 DEF DeclarationsInOrder, Declarations
  <2>1. CASE q = n + 1
    <3>1. Decls(n + 1) = imports[Name]
      BY <1>2, <1>5
    <3>2. Len(imports[Name]) \in Nat
      <4>1. imports[Name] \in ImportLists
        BY <1>1 DEF Inv, TypeOK
      <4>2. imports[Name] \in Seq(Module)
        BY <4>1, ResolverAssumption
      <4> QED BY <4>2
    <3> QED BY <1>2, <1>5, <2>1, <3>1, <3>2
  <2>2. CASE q # n + 1
    <3>1. q \in 1..n
      BY <1>1, <2>2
    <3> QED BY <1>5, <1>7, <3>1 DEF Inv, DeclarationsInOrder
  <2> QED BY <2>1, <2>2
<1>13. FramesWait'
  <2> SUFFICES ASSUME NEW k \in 1..m
               PROVE  /\ Len(programs'[frames'[k]].edges) < Len(Decls(frames'[k]))
                      /\ programs'[frames'[k + 1]].mod
                           = Decls(frames'[k])[Len(programs'[frames'[k]].edges) + 1]
    <3>1. Len(frames') - 1 = m /\ imports' = imports
      BY <1>1, <1>5, <1>6
    <3> HIDE DEF m
    <3> QED BY <3>1 DEF FramesWait, Declarations
  <2>1. frames'[k] = frames[k] /\ frames[k] \in 1..n
    BY <1>3, <1>5
  <2>2. programs'[frames[k]] = programs[frames[k]] /\ Decls(frames[k]) = Declarations(frames[k])
    BY <1>5, <1>7, <2>1
  <2>3. CASE k = m
    <3>1. frames[k] = cur /\ programs'[frames'[k + 1]].mod = Name
      BY <1>1, <1>2, <1>5, <2>3
    <3>2. Len(programs[cur].edges) < Len(Declarations(cur))
      <4>1. Len(Declarations(cur)) \in Nat
        BY CurrentFacts DEF LoadModule
      <4> QED BY <1>1, <4>1
    <3> QED BY <1>1, <2>1, <2>2, <3>1, <3>2
  <2>4. CASE k # m
    <3>1. k \in 1..(m - 1) /\ k + 1 \in 1..m
      BY <1>1, <2>4
    <3>2. frames'[k + 1] = frames[k + 1] /\ frames[k + 1] \in 1..n
      BY <1>3, <1>5, <3>1
    <3>3. programs'[frames[k + 1]] = programs[frames[k + 1]]
      BY <1>5, <3>2
    <3> QED BY <2>1, <2>2, <3>1, <3>2, <3>3 DEF Inv, FramesWait
  <2> QED BY <2>3, <2>4
<1>14. LinksAreFinished'
  <2> SUFFICES ASSUME NEW p \in 1..(n + 1), NEW i \in 1..Len(programs'[p].edges),
                      programs'[p].edges[i] # Unresolved
               PROVE  /\ programs'[p].edges[i] \in Finished'
                      /\ programs'[programs'[p].edges[i]].mod = Decls(p)[i]
    BY <1>5, <1>6 DEF LinksAreFinished, Unresolved, Declarations
  <2>1. p \in 1..n
    BY <1>1, <1>2, <1>5
  <2>2. programs'[p] = programs[p] /\ Decls(p) = Declarations(p)
    BY <1>5, <1>7, <2>1
  <2>3. /\ programs[p].edges[i] \in Finished
        /\ programs[programs[p].edges[i]].mod = Declarations(p)[i]
    BY <2>1, <2>2 DEF Inv, LinksAreFinished
  <2> QED BY <1>5, <1>9, <2>2, <2>3
<1>15. CacheIsFinished'
  <2> SUFFICES ASSUME NEW k \in 1..Len(loaded)
               PROVE  /\ loaded[k].program \in Finished'
                      /\ programs'[loaded[k].program].mod = loaded[k].name
    BY <1>6 DEF CacheIsFinished
  <2>1. loaded[k].program \in Finished /\ programs[loaded[k].program].mod = loaded[k].name
    BY DEF Inv, CacheIsFinished
  <2> QED BY <1>5, <1>9, <2>1
<1>16. HolesAreReported'
  <2> SUFFICES ASSUME NEW p \in 1..(n + 1), NEW i \in 1..Len(programs'[p].edges)
               PROVE  programs'[p].edges[i] = Unresolved
                        <=> \E kind \in {"circular", "missing"} :
                               [kind |-> kind, program |-> p, decl |-> i] \in errors
    BY <1>5, <1>6 DEF HolesAreReported, Unresolved
  <2>1. p \in 1..n
    BY <1>1, <1>2, <1>5
  <2>2. programs'[p] = programs[p]
    BY <1>5, <2>1
  <2> QED BY <2>1, <2>2 DEF Inv, HolesAreReported
<1> QED BY <1>10, <1>11, <1>12, <1>13, <1>14, <1>15, <1>16 DEF Inv

\* The stack of the modules being loaded is popped, whether or not the module was
\* pushed (stack_pop).
LEMMA PopFacts ==
  ASSUME resolveStack \in Seq(Module), Len(resolveStack) <= MaxDepth
  PROVE  Pop \in Seq(Module) /\ Len(Pop) <= MaxDepth
<1>1. CASE resolveStack = << >>
  BY <1>1 DEF Pop
<1>2. CASE resolveStack # << >>
  <2> DEFINE l == Len(resolveStack)
  <2>1. l \in Nat /\ l # 0
    BY <1>2, EmptySeq
  <2> DEFINE k == l - 1
  <2>2. k \in Nat /\ k <= l /\ 1..k \subseteq 1..l /\ k = l - 1
    BY <2>1
  <2>3. \A i \in 1..l : resolveStack[i] \in Module
    OBVIOUS
  <2> HIDE DEF k
  <2>4. \A i \in 1..k : resolveStack[i] \in Module
    BY <2>2, <2>3
  <2>5. SubSeq(resolveStack, 1, k) = [i \in 1..k |-> resolveStack[i]]
    BY <2>2
  <2>6. SubSeq(resolveStack, 1, k) \in Seq(Module) /\ Len(SubSeq(resolveStack, 1, k)) = k
    BY <2>2, <2>4, <2>5
  <2>7. Pop = SubSeq(resolveStack, 1, k)
    BY <1>2, <2>2 DEF Pop
  <2> QED BY <2>1, <2>2, <2>6, <2>7, ResolverAssumption
<1> QED BY <1>1, <1>2

\* A module whose imports are resolved leaves the frames, is cached if there is
\* room, and the importer's declaration, which waits for it, is linked (resolve_one).
LEMMA InvFinishModule ==
  ASSUME Inv, FinishModule
  PROVE  Inv'
<1> DEFINE n     == Len(programs)
           m     == Len(frames)
           cur   == Current
           below == frames[m - 1]
           old   == programs[below].edges
           Decls(q) == imports[programs'[q].mod]
<1>1. /\ m \in Nat /\ m > 1 /\ n \in Nat
      /\ cur = frames[m] /\ cur \in 1..n /\ below \in 1..n
      /\ below < cur
  <2>1. m \in Nat /\ m > 1 /\ n \in Nat
    BY DEF Inv, TypeOK, FinishModule
  <2>2. m \in 1..m /\ m - 1 \in 1..m /\ m - 1 < m
    BY <2>1
  <2> QED BY <2>1, <2>2 DEF Inv, TypeOK, FramesNested, Current
<1>2. /\ old \in Seq(Nat) /\ Len(old) \in Nat
      /\ Len(old) < Len(Declarations(below))
      /\ programs[cur].mod = Declarations(below)[Len(old) + 1]
      /\ programs[cur].mod \in Module
      /\ Len(Declarations(below)) \in Nat
  <2>1. programs[below] \in Program /\ programs[cur] \in Program
    BY <1>1 DEF Inv, TypeOK
  <2>2. m - 1 \in 1..(m - 1) /\ (m - 1) + 1 = m
    BY <1>1
  <2>3. /\ Len(old) < Len(Declarations(below))
        /\ programs[cur].mod = Declarations(below)[Len(old) + 1]
    BY <1>1, <2>2 DEF Inv, FramesWait
  <2>4. Declarations(below) \in Seq(Module)
    BY <2>1, ResolverAssumption DEF Inv, TypeOK, Declarations, Program
  <2> QED BY <2>1, <2>3, <2>4 DEF Program
<1>3. /\ programs' \in Seq(Program) /\ Len(programs') = n
      /\ \A q \in 1..n : /\ programs'[q].mod = programs[q].mod
                         /\ q # below => programs'[q] = programs[q]
      /\ programs'[below].edges = Append(old, cur)
  <2>1. programs \in Seq(Program) /\ cur \in Nat
    BY <1>1 DEF Inv, TypeOK
  <2>2. programs' = Link(below, cur)
    BY DEF FinishModule
  <2> QED BY <1>1, <2>1, <2>2, LinkFacts
<1>4. /\ frames' \in Seq(Nat) /\ Len(frames') = m - 1
      /\ \A k \in 1..(m - 1) : k \in 1..m /\ frames'[k] = frames[k]
  <2>1. frames \in Seq(Nat) /\ frames' = SubSeq(frames, 1, m - 1)
    BY DEF Inv, TypeOK, FinishModule
  <2> QED BY <1>1, <2>1
<1>5. /\ imports' = imports /\ readable' = readable /\ errors' = errors
      /\ resolveStack' = Pop /\ loaded' = CacheAdd(programs[cur].mod, cur)
  BY DEF FinishModule, files
<1>6. /\ Len(programs'[below].edges) = Len(old) + 1
      /\ programs'[below].edges[Len(old) + 1] = cur
      /\ \A i \in 1..Len(old) : programs'[below].edges[i] = old[i]
  <2> DEFINE app == Append(old, cur)
  <2>1. /\ Len(app) = Len(old) + 1
        /\ app[Len(old) + 1] = cur
        /\ \A i \in 1..Len(old) : app[i] = old[i]
    <3>1. cur \in Nat
      BY <1>1
    <3> HIDE DEF old, cur
    <3> QED BY <1>2, <3>1, AppendFacts
  <2> HIDE DEF app
  <2> QED BY <1>3, <2>1 DEF app
<1>7. \A q \in 1..n : Decls(q) = Declarations(q)
  BY <1>3 DEF Declarations
<1>8. /\ \A q \in Finished : q \in 1..n /\ q \in Finished' /\ q # cur
      /\ cur \in Finished'
  <2>1. \A k \in 1..(m - 1) : frames'[k] # cur
    <3> TAKE k \in 1..(m - 1)
    <3>1. k \in 1..m /\ m \in 1..m /\ k < m
      BY <1>1
    <3>2. frames[k] < cur
      BY <1>1, <3>1 DEF Inv, FramesNested
    <3>3. frames[k] \in 1..n
      BY <3>1 DEF Inv, TypeOK
    <3> QED BY <1>1, <1>4, <3>2, <3>3
  <2>2. \A q \in Finished : q \in 1..n /\ \A k \in 1..m : frames[k] # q
    BY DEF Finished, Open
  <2>3. m \in 1..m
    BY <1>1
  <2> QED BY <1>1, <1>3, <1>4, <2>1, <2>2, <2>3 DEF Finished, Open
<1> DEFINE entry == [name |-> programs[cur].mod, program |-> cur]
<1>9. /\ loaded' \in Seq([name : Module, program : Nat]) /\ Len(loaded') <= MaxLoaded
      /\ \A k \in 1..Len(loaded') :
            \/ k \in 1..Len(loaded) /\ loaded'[k] = loaded[k]
            \/ loaded'[k] = entry
  <2>1. loaded \in Seq([name : Module, program : Nat]) /\ Len(loaded) <= MaxLoaded
    BY DEF Inv, TypeOK
  <2>2. entry \in [name : Module, program : Nat]
    BY <1>1, <1>2
  <2>3. loaded' = IF Len(loaded) < MaxLoaded THEN Append(loaded, entry) ELSE loaded
    BY <1>5 DEF CacheAdd
  <2> HIDE DEF entry
  <2>4. CASE Len(loaded) < MaxLoaded
    <3> DEFINE l == Len(loaded)
    <3>1. loaded' = Append(loaded, entry) /\ l \in Nat
      BY <2>1, <2>3, <2>4
    <3>2. /\ loaded' \in Seq([name : Module, program : Nat]) /\ Len(loaded') = l + 1
          /\ loaded'[l + 1] = entry
          /\ \A k \in 1..l : loaded'[k] = loaded[k]
      BY <2>1, <2>2, <3>1
    <3> HIDE DEF l
    <3>3. \A k \in 1..(l + 1) : k \in 1..l \/ k = l + 1
      BY <3>1
    <3>4. l + 1 <= MaxLoaded
      BY <2>4, <3>1, ResolverAssumption DEF l
    <3> QED BY <3>2, <3>3, <3>4 DEF l
  <2>5. CASE ~(Len(loaded) < MaxLoaded)
    BY <2>1, <2>3, <2>5
  <2> QED BY <2>4, <2>5
<1>10. \A q \in 1..n : Len(programs[q].edges) \in Nat
  <2>1. \A q \in 1..n : programs[q] \in Program
    BY DEF Inv, TypeOK
  <2> QED BY <2>1 DEF Program
<1>11. \A q \in 1..n : \A i \in 1..Len(programs[q].edges) :
          /\ i \in 1..Len(programs'[q].edges)
          /\ programs'[q].edges[i] = programs[q].edges[i]
  <2> TAKE q \in 1..n
  <2>1. CASE q = below
    <3> DEFINE l == Len(old)
    <3>1. /\ l \in Nat /\ Len(programs'[q].edges) = l + 1
          /\ \A i \in 1..l : programs'[q].edges[i] = programs[q].edges[i]
      BY <1>2, <1>6, <2>1
    <3> HIDE DEF l
    <3>2. \A i \in 1..l : i \in 1..(l + 1)
      BY <3>1
    <3> QED BY <2>1, <3>1, <3>2 DEF l
  <2>2. CASE q # below
    BY <1>3, <2>2
  <2> QED BY <2>1, <2>2
<1>12. \A q \in 1..n : \A i \in 1..Len(programs'[q].edges) :
          \/ i \in 1..Len(programs[q].edges)
          \/ q = below /\ i = Len(old) + 1
  <2> TAKE q \in 1..n
  <2>1. CASE q = below
    <3> DEFINE l == Len(old)
    <3>1. l \in Nat /\ Len(programs'[q].edges) = l + 1
      BY <1>2, <1>6, <2>1
    <3> HIDE DEF l
    <3>2. \A i \in 1..(l + 1) : i \in 1..l \/ i = l + 1
      BY <3>1
    <3> QED BY <2>1, <3>1, <3>2 DEF l
  <2>2. CASE q # below
    BY <1>3, <2>2
  <2> QED BY <2>1, <2>2
<1> HIDE DEF old, entry
<1>13. TypeOK'
  <2>1. \A k \in 1..(m - 1) : frames'[k] \in 1..n
    BY <1>4 DEF Inv, TypeOK
  <2>2. errors \subseteq [kind : {"circular", "missing"}, program : 1..n, decl : Nat]
    BY DEF Inv, TypeOK
  <2>3. \A e \in errors : e.decl \in 1..Len(programs'[e.program].edges)
    <3> TAKE e \in errors
    <3>1. e.program \in 1..n /\ e.decl \in 1..Len(programs[e.program].edges)
      BY DEF Inv, TypeOK
    <3> QED BY <1>11, <3>1
  <2>4. imports \in [Module -> ImportLists] /\ readable \subseteq Module
    BY DEF Inv, TypeOK
  <2>5. Pop \in Seq(Module) /\ Len(Pop) <= MaxDepth
    BY PopFacts DEF Inv, TypeOK
  <2> QED BY <1>3, <1>4, <1>5, <1>9, <2>1, <2>2, <2>3, <2>4, <2>5 DEF TypeOK
<1>14. FramesNested'
  BY <1>4 DEF Inv, FramesNested
<1>15. DeclarationsInOrder'
  <2> SUFFICES ASSUME NEW q \in 1..n
               PROVE  Len(programs'[q].edges) <= Len(Decls(q))
    BY <1>3, <1>5 DEF DeclarationsInOrder, Declarations
  <2>1. CASE q = below
    BY <1>2, <1>6, <1>7, <2>1
  <2>2. CASE q # below
    BY <1>3, <1>7, <2>2 DEF Inv, DeclarationsInOrder
  <2> QED BY <2>1, <2>2
<1>16. FramesWait'
  <2> SUFFICES ASSUME NEW k \in 1..(m - 2)
               PROVE  /\ Len(programs'[frames'[k]].edges) < Len(Decls(frames'[k]))
                      /\ programs'[frames'[k + 1]].mod
                           = Decls(frames'[k])[Len(programs'[frames'[k]].edges) + 1]
    <3>1. (m - 1) - 1 = m - 2
      BY <1>1
    <3> QED BY <1>4, <1>5, <3>1 DEF FramesWait, Declarations
  <2>1. /\ k \in 1..(m - 1) /\ k + 1 \in 1..(m - 1) /\ m - 1 \in 1..m /\ k < m - 1
        /\ k \in 1..m /\ k + 1 \in 1..m
    BY <1>1
  <2>2. /\ frames'[k] = frames[k] /\ frames[k] \in 1..n
        /\ frames'[k + 1] = frames[k + 1] /\ frames[k + 1] \in 1..n
    BY <1>4, <2>1 DEF Inv, TypeOK
  <2>3. frames[k] # below
    <3>1. frames[k] < below
      BY <2>1 DEF Inv, FramesNested
    <3> QED BY <1>1, <2>2, <3>1
  <2>4. /\ programs'[frames[k]] = programs[frames[k]]
        /\ programs'[frames[k + 1]].mod = programs[frames[k + 1]].mod
        /\ Decls(frames[k]) = Declarations(frames[k])
    BY <1>3, <1>7, <2>2, <2>3
  <2> QED BY <2>1, <2>2, <2>4 DEF Inv, FramesWait
<1>17. LinksAreFinished'
  <2> SUFFICES ASSUME NEW p \in 1..n, NEW i \in 1..Len(programs'[p].edges),
                      programs'[p].edges[i] # Unresolved
               PROVE  /\ programs'[p].edges[i] \in Finished'
                      /\ programs'[programs'[p].edges[i]].mod = Decls(p)[i]
    BY <1>3, <1>5 DEF LinksAreFinished, Unresolved, Declarations
  <2>1. CASE i \in 1..Len(programs[p].edges)
    <3>1. programs'[p].edges[i] = programs[p].edges[i]
      BY <1>11, <2>1
    <3>2. /\ programs[p].edges[i] \in Finished
          /\ programs[programs[p].edges[i]].mod = Declarations(p)[i]
      BY <2>1, <3>1 DEF Inv, LinksAreFinished
    <3> QED BY <1>3, <1>7, <1>8, <3>1, <3>2
  <2>2. CASE p = below /\ i = Len(old) + 1
    <3>1. programs'[p].edges[i] = cur
      BY <1>6, <2>2
    <3>2. programs'[cur].mod = Declarations(below)[Len(old) + 1]
      BY <1>1, <1>2, <1>3
    <3> QED BY <1>7, <1>8, <2>2, <3>1, <3>2
  <2> QED BY <1>12, <2>1, <2>2
<1>18. CacheIsFinished'
  <2> SUFFICES ASSUME NEW k \in 1..Len(loaded')
               PROVE  /\ loaded'[k].program \in Finished'
                      /\ programs'[loaded'[k].program].mod = loaded'[k].name
    BY DEF CacheIsFinished
  <2>1. CASE k \in 1..Len(loaded) /\ loaded'[k] = loaded[k]
    <3>1. loaded[k].program \in Finished /\ programs[loaded[k].program].mod = loaded[k].name
      BY <2>1 DEF Inv, CacheIsFinished
    <3> QED BY <1>3, <1>8, <2>1, <3>1
  <2>2. CASE loaded'[k] = entry
    <3>1. loaded'[k].program = cur /\ loaded'[k].name = programs[cur].mod
      BY <2>2 DEF entry
    <3> QED BY <1>1, <1>3, <1>8, <3>1
  <2> QED BY <1>9, <2>1, <2>2
<1>19. HolesAreReported'
  <2> SUFFICES ASSUME NEW p \in 1..n, NEW i \in 1..Len(programs'[p].edges)
               PROVE  programs'[p].edges[i] = Unresolved
                        <=> \E kind \in {"circular", "missing"} :
                               [kind |-> kind, program |-> p, decl |-> i] \in errors
    BY <1>3, <1>5 DEF HolesAreReported, Unresolved
  <2>1. CASE i \in 1..Len(programs[p].edges)
    <3>1. programs'[p].edges[i] = programs[p].edges[i]
      BY <1>11, <2>1
    <3> QED BY <2>1, <3>1 DEF Inv, HolesAreReported
  <2>2. CASE p = below /\ i = Len(old) + 1
    <3>1. programs'[p].edges[i] # Unresolved
      BY <1>1, <1>6, <2>2 DEF Unresolved
    <3>2. ASSUME NEW kind \in {"circular", "missing"},
                 [kind |-> kind, program |-> p, decl |-> i] \in errors
          PROVE  FALSE
      <4> DEFINE e == [kind |-> kind, program |-> p, decl |-> i]
      <4>1. e.decl \in 1..Len(programs[e.program].edges)
        BY <3>2 DEF Inv, TypeOK
      <4>2. Len(old) + 1 \in 1..Len(old)
        BY <2>2, <4>1 DEF old
      <4> QED BY <1>2, <4>2
    <3> QED BY <3>1, <3>2
  <2> QED BY <1>12, <2>1, <2>2
<1> QED BY <1>13, <1>14, <1>15, <1>16, <1>17, <1>18, <1>19 DEF Inv

\* The resolution returns to the driver.
LEMMA InvFinishRoot ==
  ASSUME Inv, FinishRoot
  PROVE  Inv'
<1>1. /\ Len(frames) = 1 /\ frames' = << >>
      /\ imports' = imports /\ readable' = readable /\ programs' = programs
      /\ loaded' = loaded /\ resolveStack' = resolveStack /\ errors' = errors
  BY DEF FinishRoot, files
<1>2. frames' \in Seq(Nat) /\ Len(frames') = 0
  BY <1>1
<1>3. TypeOK' /\ FramesNested' /\ FramesWait' /\ DeclarationsInOrder'
  BY <1>1, <1>2 DEF Inv, TypeOK, FramesNested, FramesWait, DeclarationsInOrder, Declarations
<1>4. \A q \in Finished : q \in Finished'
  BY <1>1, <1>2 DEF Finished, Open
<1>5. LinksAreFinished' /\ CacheIsFinished' /\ HolesAreReported'
  BY <1>1, <1>4 DEF Inv, LinksAreFinished, CacheIsFinished, HolesAreReported, Declarations
<1> QED BY <1>3, <1>5 DEF Inv

\* A step that changes nothing.
LEMMA InvStutter ==
  ASSUME Inv, UNCHANGED vars
  PROVE  Inv'
BY DEF vars, Inv, TypeOK, FramesNested, FramesWait, DeclarationsInOrder,
       LinksAreFinished, CacheIsFinished, HolesAreReported, Declarations, Finished, Open

------------------------------------------------------------------------------
(* The theorems *)

\* The strengthened invariant holds in every reachable state.
THEOREM InvHolds == Spec => []Inv
<1>1. Inv /\ [Next]_vars => Inv'
  <2> SUFFICES ASSUME Inv, [Next]_vars PROVE Inv'
    OBVIOUS
  <2>1. CASE UseCached
    BY <2>1, InvUseCached
  <2>2. CASE ReportCircular
    BY <2>2, InvReportCircular
  <2>3. CASE ReportMissing
    BY <2>3, InvReportMissing
  <2>4. CASE LoadModule
    BY <2>4, InvLoadModule
  <2>5. CASE FinishModule
    BY <2>5, InvFinishModule
  <2>6. CASE FinishRoot
    BY <2>6, InvFinishRoot
  <2>7. CASE UNCHANGED vars
    BY <2>7, InvStutter
  <2> QED BY <2>1, <2>2, <2>3, <2>4, <2>5, <2>6, <2>7 DEF Next
<1> QED BY <1>1, InvInit, PTL DEF Spec

\* The resolver's state has its types, and every error it reported is about an import
\* declaration that was processed, for all files, cache sizes and stack sizes.
THEOREM TypeCorrect == Spec => []TypeOK
<1>1. Inv => TypeOK
  BY DEF Inv
<1> QED BY <1>1, InvHolds, PTL

\* A declaration is only ever linked to a program that is finished and that is a parse
\* of the module it names (resolve_imports, resolver_get_cached), even when the cache
\* or the stack is too small.
THEOREM LinksFinished == Spec => []LinksAreFinished
<1>1. Inv => LinksAreFinished
  BY DEF Inv
<1> QED BY <1>1, InvHolds, PTL

\* No import is left unresolved without an error, and no error is reported for an
\* import that was resolved (resolve_one).
THEOREM HolesReported == Spec => []HolesAreReported
<1>1. Inv => HolesAreReported
  BY DEF Inv
<1> QED BY <1>1, InvHolds, PTL

------------------------------------------------------------------------------
(****************************************************************************)
(* What the import resolver guarantees when its arrays are large enough for *)
(* the modules there are: no module is entered again while it is being      *)
(* loaded, and every step is one of ModuleLoader or a stutter.              *)
(*                                                                          *)
(* The strengthening says that the resolution stack and the cache are       *)
(* together a list without repetition: then the stack cannot fill before    *)
(* the modules run out, so stack_push never drops a name, and the names on  *)
(* the stack stay those of the frames.                                      *)
(****************************************************************************)

\* RESOLVE_MAX_DEPTH is enough for the modules.
StackHasRoom == IsFiniteSet(Module) /\ Cardinality(Module) <= MaxDepth

\* RESOLVE_MAX_LOADED is enough for the modules.
CacheHasRoom == IsFiniteSet(Module) /\ Cardinality(Module) <= MaxLoaded

StackIsTheFrames ==
  /\ frames = << >> => Len(resolveStack) = 0
  /\ frames # << >> => Len(resolveStack) = Len(frames) - 1
  /\ \A k \in 1..Len(resolveStack) : resolveStack[k] = programs[frames[k + 1]].mod

StackDistinct ==
  \A j, k \in 1..Len(resolveStack) : j # k => resolveStack[j] # resolveStack[k]

CacheDistinct ==
  \A j, k \in 1..Len(loaded) : j # k => loaded[j].name # loaded[k].name

CacheAvoidsStack ==
  \A j \in 1..Len(loaded) : \A k \in 1..Len(resolveStack) : loaded[j].name # resolveStack[k]

StackInv == Inv /\ StackIsTheFrames /\ StackDistinct /\ CacheDistinct /\ CacheAvoidsStack

------------------------------------------------------------------------------
(* Lists of distinct modules *)

\* A list of distinct members of a finite set that lacks one of them is shorter than
\* the set is large: stack_push finds room for the module that is not on the stack.
LEMMA DistinctIsShorter ==
  ASSUME NEW S, IsFiniteSet(S), NEW s \in Seq(S), NEW x \in S,
         \A j, k \in 1..Len(s) : j # k => s[j] # s[k],
         \A k \in 1..Len(s) : s[k] # x
  PROVE  Len(s) < Cardinality(S)
<1> DEFINE l == Len(s)
           T == S \ {x}
<1>1. l \in Nat /\ s \in [1..l -> T]
  BY DEF T
<1>2. s \in Injection(1..l, T)
  BY <1>1 DEF Injection, IsInjective
<1>3. IsFiniteSet(T) /\ Cardinality(T) = Cardinality(S) - 1
  BY FS_RemoveElement
<1>4. Cardinality(S) \in Nat
  BY FS_CardinalityType
<1> HIDE DEF T
<1>5. Cardinality(1..l) <= Cardinality(T)
  BY <1>2, <1>3, FS_Injection
<1>6. Cardinality(1..l) = l
  <2> HIDE DEF l
  <2>1. Cardinality(1..l) = IF 1 > l THEN 0 ELSE l - 1 + 1
    BY <1>1, FS_Interval
  <2> QED BY <1>1, <2>1
<1> QED BY <1>1, <1>3, <1>4, <1>5, <1>6

\* The length and the members of a popped stack (stack_pop).
LEMMA PopMembers ==
  ASSUME resolveStack \in Seq(Module), Len(resolveStack) > 0
  PROVE  /\ Len(Pop) = Len(resolveStack) - 1
         /\ \A k \in 1..Len(Pop) : k \in 1..Len(resolveStack) /\ Pop[k] = resolveStack[k]
         /\ Pop = SubSeq(resolveStack, 1, Len(resolveStack) - 1)
<1> DEFINE l == Len(resolveStack)
           k == l - 1
<1>1. l \in Nat /\ resolveStack # << >>
  OBVIOUS
<1>2. k \in Nat /\ k <= l /\ 1..k \subseteq 1..l /\ k = l - 1
  BY <1>1
<1>3. Pop = SubSeq(resolveStack, 1, k)
  BY <1>1 DEF Pop
<1> HIDE DEF k
<1>4. SubSeq(resolveStack, 1, k) = [i \in 1..k |-> resolveStack[i]]
  BY <1>2
<1>5. Len(Pop) = k /\ \A i \in 1..k : Pop[i] = resolveStack[i]
  BY <1>2, <1>3, <1>4
<1> QED BY <1>2, <1>3, <1>5

------------------------------------------------------------------------------
(* The invariant of the stack, step by step *)

\* Before the first import nothing is on the stack or in the cache.
LEMMA StackInit == Init => StackInv
<1> SUFFICES ASSUME Init PROVE StackInv
  OBVIOUS
<1>1. loaded = << >> /\ resolveStack = << >> /\ frames = <<1>>
  BY DEF Init
<1>2. Len(frames) = 1 /\ Len(loaded) = 0 /\ Len(resolveStack) = 0 /\ frames # << >>
  BY <1>1
<1> QED BY <1>2, InvInit DEF StackInv, StackIsTheFrames, StackDistinct, CacheDistinct,
                             CacheAvoidsStack

\* A declaration that loads nothing changes neither the stack, nor the cache, nor the
\* name of any program (resolve_one's early returns).
LEMMA StackKept ==
  ASSUME StackInv, Inv', frames' = frames, loaded' = loaded, resolveStack' = resolveStack,
         \A q \in 1..Len(programs) : programs'[q].mod = programs[q].mod
  PROVE  StackInv'
<1>1. \A k \in 1..Len(resolveStack) : frames[k + 1] \in 1..Len(programs)
  <2> TAKE k \in 1..Len(resolveStack)
  <2>1. Len(resolveStack) \in Nat /\ Len(frames) \in Nat
    BY DEF StackInv, Inv, TypeOK
  <2>2. Len(resolveStack) = Len(frames) - 1
    BY <2>1 DEF StackInv, StackIsTheFrames
  <2>3. k + 1 \in 1..Len(frames)
    BY <2>1, <2>2
  <2> QED BY <2>3 DEF StackInv, Inv, TypeOK
<1>2. StackIsTheFrames'
  BY <1>1 DEF StackInv, StackIsTheFrames
<1> QED BY <1>2 DEF StackInv, StackDistinct, CacheDistinct, CacheAvoidsStack

\* Linking the current declaration keeps the names of the programs.
LEMMA LinkKeepsNames ==
  ASSUME Inv, AtDeclaration, NEW target \in Nat, programs' = Link(Current, target)
  PROVE  \A q \in 1..Len(programs) : programs'[q].mod = programs[q].mod
<1>1. programs \in Seq(Program)
  BY DEF Inv, TypeOK
<1>2. Current \in 1..Len(programs)
  BY CurrentFacts
<1>3. \A q \in 1..Len(programs) : Link(Current, target)[q].mod = programs[q].mod
  BY <1>1, <1>2, LinkFacts
<1> QED BY <1>3

\* A module that begins to load finds room on the stack and is neither on it nor in
\* the cache (stack_push, resolve_one).
LEMMA StackLoad ==
  ASSUME StackHasRoom, StackInv, LoadModule
  PROVE  StackInv' /\ resolveStack' = Append(resolveStack, Name) /\ loaded' = loaded
<1> DEFINE m == Len(frames)
           n == Len(programs)
           l == Len(resolveStack)
<1>1. /\ m \in Nat /\ m > 0 /\ n \in Nat /\ l = m - 1 /\ l \in Nat
      /\ frames \in Seq(Nat) /\ programs \in Seq(Program) /\ resolveStack \in Seq(Module)
      /\ frames # << >>
  <2>1. frames \in Seq(Nat) /\ programs \in Seq(Program) /\ resolveStack \in Seq(Module)
    BY DEF StackInv, Inv, TypeOK
  <2>2. frames # << >>
    BY DEF LoadModule, AtDeclaration, Running
  <2>3. m \in Nat /\ m > 0 /\ n \in Nat /\ l \in Nat
    BY <2>1, <2>2
  <2>4. l = m - 1
    BY <2>2 DEF StackInv, StackIsTheFrames
  <2> QED BY <2>1, <2>2, <2>3, <2>4
<1>2. Name \in Module
  BY CurrentFacts DEF StackInv, LoadModule
<1>3. /\ \A k \in 1..l : resolveStack[k] # Name
      /\ \A j \in 1..Len(loaded) : loaded[j].name # Name
  BY DEF LoadModule, OnStack, Cached
<1>4. l < MaxDepth
  <2>1. l < Cardinality(Module)
    BY <1>1, <1>2, <1>3, DistinctIsShorter DEF StackHasRoom, StackInv, StackDistinct
  <2>2. Cardinality(Module) \in Nat
    BY FS_CardinalityType DEF StackHasRoom
  <2> QED BY <1>1, <2>1, <2>2, ResolverAssumption DEF StackHasRoom
<1>5. /\ resolveStack' = Append(resolveStack, Name) /\ frames' = Append(frames, n + 1)
      /\ programs' = Append(programs, NewProgram(Name)) /\ loaded' = loaded
  BY <1>4 DEF LoadModule, Push
<1>6. /\ Len(resolveStack') = l + 1 /\ resolveStack'[l + 1] = Name
      /\ \A k \in 1..l : resolveStack'[k] = resolveStack[k]
  BY <1>1, <1>2, <1>5
<1>7. /\ Len(frames') = m + 1 /\ frames'[m + 1] = n + 1 /\ frames' # << >>
      /\ \A k \in 1..m : frames'[k] = frames[k]
  BY <1>1, <1>5
<1>8. NewProgram(Name) \in Program /\ NewProgram(Name).mod = Name
  BY <1>2 DEF NewProgram, Program
<1>9. /\ programs'[n + 1].mod = Name
      /\ \A q \in 1..n : programs'[q] = programs[q]
  <2> DEFINE new == NewProgram(Name)
  <2>1. new \in Program
    BY <1>8
  <2> HIDE DEF new
  <2>2. Append(programs, new)[n + 1] = new /\ \A q \in 1..n : Append(programs, new)[q] = programs[q]
    BY <1>1, <2>1
  <2> QED BY <1>5, <1>8, <2>2 DEF new
<1>10. Inv'
  BY InvLoadModule DEF StackInv
<1>11. \A k \in 1..l : k + 1 \in 1..m /\ frames[k + 1] \in 1..n
  <2>1. \A k \in 1..l : k + 1 \in 1..m
    BY <1>1
  <2>2. \A k \in 1..m : frames[k] \in 1..n
    BY DEF StackInv, Inv, TypeOK
  <2> QED BY <2>1, <2>2
<1>12. \A k \in 1..l : resolveStack[k] = programs[frames[k + 1]].mod
  BY DEF StackInv, StackIsTheFrames
<1> HIDE DEF l, m, n
<1>13. \A k \in 1..(l + 1) : k \in 1..l \/ k = l + 1
  BY <1>1
<1>14. StackIsTheFrames'
  <2>1. Len(resolveStack') = Len(frames') - 1
    BY <1>1, <1>6, <1>7
  <2>2. ASSUME NEW k \in 1..(l + 1)
        PROVE  resolveStack'[k] = programs'[frames'[k + 1]].mod
    <3>1. CASE k \in 1..l
      BY <1>6, <1>7, <1>9, <1>11, <1>12, <3>1
    <3>2. CASE k = l + 1
      <4>1. k + 1 = m + 1
        BY <1>1, <3>2
      <4> QED BY <1>6, <1>7, <1>9, <3>2, <4>1
    <3> QED BY <1>13, <3>1, <3>2
  <2> QED BY <1>6, <1>7, <2>1, <2>2 DEF StackIsTheFrames
<1>15. StackDistinct'
  <2> SUFFICES ASSUME NEW j \in 1..(l + 1), NEW k \in 1..(l + 1), j # k
               PROVE  resolveStack'[j] # resolveStack'[k]
    BY <1>6 DEF StackDistinct
  <2>1. CASE j \in 1..l /\ k \in 1..l
    BY <1>6, <2>1 DEF StackInv, StackDistinct, l
  <2>2. CASE j \in 1..l /\ k = l + 1
    BY <1>3, <1>6, <2>2
  <2>3. CASE j = l + 1 /\ k \in 1..l
    BY <1>3, <1>6, <2>3
  <2> QED BY <1>13, <2>1, <2>2, <2>3
<1>16. CacheAvoidsStack'
  <2> SUFFICES ASSUME NEW j \in 1..Len(loaded), NEW k \in 1..(l + 1)
               PROVE  loaded[j].name # resolveStack'[k]
    BY <1>5, <1>6 DEF CacheAvoidsStack
  <2>1. CASE k \in 1..l
    BY <1>6, <2>1 DEF StackInv, CacheAvoidsStack, l
  <2>2. CASE k = l + 1
    BY <1>3, <1>6, <2>2
  <2> QED BY <1>13, <2>1, <2>2
<1>17. CacheDistinct'
  BY <1>5 DEF StackInv, CacheDistinct
<1> QED BY <1>5, <1>10, <1>14, <1>15, <1>16, <1>17 DEF StackInv

\* A module that was loaded leaves the stack as it enters the cache (stack_pop,
\* resolver_cache).
LEMMA StackFinish ==
  ASSUME StackInv, FinishModule
  PROVE  /\ StackInv'
         /\ Len(resolveStack) > 0
         /\ programs[Current].mod = resolveStack[Len(resolveStack)]
         /\ ~Cached(programs[Current].mod)
         /\ programs[Current].mod \in Module
<1> DEFINE m   == Len(frames)
           n   == Len(programs)
           l   == Len(resolveStack)
           top == programs[Current].mod
           entry == [name |-> top, program |-> Current]
<1>1. /\ m \in Nat /\ m > 1 /\ n \in Nat /\ l = m - 1 /\ l \in Nat /\ l > 0
      /\ frames \in Seq(Nat) /\ programs \in Seq(Program) /\ resolveStack \in Seq(Module)
      /\ loaded \in Seq([name : Module, program : Nat]) /\ Len(loaded) \in Nat
      /\ frames # << >>
  BY DEF StackInv, Inv, TypeOK, FinishModule, StackIsTheFrames
<1>2. l \in 1..l /\ l + 1 = m
  BY <1>1
<1>3. top = resolveStack[l]
  BY <1>2 DEF StackInv, StackIsTheFrames, Current
<1>4. top \in Module
  BY <1>1, <1>2, <1>3
<1>5. \A k \in 1..m : frames[k] \in 1..n
  BY DEF StackInv, Inv, TypeOK
<1>6. Current \in 1..n /\ Current \in Nat /\ frames[m - 1] \in 1..n
  BY <1>1, <1>5 DEF Current
<1>7. ~Cached(top)
  BY <1>2, <1>3 DEF StackInv, CacheAvoidsStack, Cached
<1>8. /\ resolveStack' = Pop /\ frames' = SubSeq(frames, 1, m - 1)
      /\ programs' = Link(frames[m - 1], Current)
      /\ loaded' = IF Len(loaded) < MaxLoaded THEN Append(loaded, entry) ELSE loaded
  BY DEF FinishModule, CacheAdd
<1>9. /\ Len(resolveStack') = l - 1
      /\ \A k \in 1..(l - 1) : k \in 1..l /\ k # l /\ resolveStack'[k] = resolveStack[k]
  BY <1>1, <1>8, PopMembers
<1>10. /\ Len(frames') = m - 1
       /\ \A k \in 1..(m - 1) : frames'[k] = frames[k]
  BY <1>1, <1>8
<1>11. \A q \in 1..n : programs'[q].mod = programs[q].mod
  BY <1>1, <1>6, <1>8, LinkFacts
<1>12. Inv'
  BY InvFinishModule DEF StackInv
<1>13. \A k \in 1..(l - 1) : /\ k + 1 \in 1..(m - 1) /\ k + 1 \in 1..m
                            /\ resolveStack[k] = programs[frames[k + 1]].mod
  <2>1. \A k \in 1..(l - 1) : k + 1 \in 1..(m - 1) /\ k + 1 \in 1..m /\ k \in 1..l
    BY <1>1
  <2> QED BY <2>1 DEF StackInv, StackIsTheFrames
<1>14. /\ Len(loaded') \in Nat
       /\ \A j \in 1..Len(loaded') :
             \/ j \in 1..Len(loaded) /\ loaded'[j] = loaded[j]
             \/ j = Len(loaded) + 1 /\ loaded'[j] = entry
  <2>1. entry \in [name : Module, program : Nat]
    BY <1>4, <1>6
  <2> HIDE DEF entry
  <2> DEFINE c   == Len(loaded)
             app == Append(loaded, entry)
  <2>2. c \in Nat /\ Len(app) = c + 1 /\ app[c + 1] = entry /\ \A j \in 1..c : app[j] = loaded[j]
    BY <1>1, <2>1
  <2>3. loaded' = IF c < MaxLoaded THEN app ELSE loaded
    BY <1>8
  <2> HIDE DEF app, c
  <2>4. \A j \in 1..(c + 1) : j \in 1..c \/ j = c + 1
    BY <2>2
  <2>5. CASE c < MaxLoaded
    <3>1. loaded' = app /\ Len(loaded') = c + 1
      BY <2>2, <2>3, <2>5
    <3> QED BY <2>2, <2>4, <3>1 DEF c
  <2>6. CASE ~(c < MaxLoaded)
    <3>1. loaded' = loaded
      BY <2>3, <2>6
    <3> QED BY <2>2, <3>1 DEF c
  <2> QED BY <2>5, <2>6
<1>15. entry.name = top
  OBVIOUS
<1>16. \A j \in 1..Len(loaded) : loaded[j].name # top
  BY <1>7 DEF Cached
<1> HIDE DEF l, m, n, top, entry
<1>17. StackIsTheFrames'
  <2>1. Len(resolveStack') = Len(frames') - 1 /\ Len(frames') > 0
    BY <1>1, <1>9, <1>10
  <2>2. frames' # << >>
    BY <2>1
  <2>3. ASSUME NEW k \in 1..(l - 1)
        PROVE  resolveStack'[k] = programs'[frames'[k + 1]].mod
    BY <1>5, <1>9, <1>10, <1>11, <1>13
  <2> QED BY <1>9, <2>1, <2>2, <2>3 DEF StackIsTheFrames
<1>18. StackDistinct'
  BY <1>9 DEF StackInv, StackDistinct, l
<1>19. CacheDistinct'
  <2> SUFFICES ASSUME NEW j \in 1..Len(loaded'), NEW k \in 1..Len(loaded'), j # k
               PROVE  loaded'[j].name # loaded'[k].name
    BY DEF CacheDistinct
  <2>1. CASE /\ j \in 1..Len(loaded) /\ loaded'[j] = loaded[j]
             /\ k \in 1..Len(loaded) /\ loaded'[k] = loaded[k]
    BY <2>1 DEF StackInv, CacheDistinct
  <2>2. CASE /\ j \in 1..Len(loaded) /\ loaded'[j] = loaded[j]
             /\ loaded'[k] = entry
    BY <1>15, <1>16, <2>2
  <2>3. CASE /\ loaded'[j] = entry
             /\ k \in 1..Len(loaded) /\ loaded'[k] = loaded[k]
    BY <1>15, <1>16, <2>3
  <2> QED BY <1>14, <2>1, <2>2, <2>3
<1>20. CacheAvoidsStack'
  <2> SUFFICES ASSUME NEW j \in 1..Len(loaded'), NEW k \in 1..(l - 1)
               PROVE  loaded'[j].name # resolveStack[k]
    BY <1>9 DEF CacheAvoidsStack
  <2>1. k \in 1..l /\ k # l
    BY <1>9
  <2>2. CASE j \in 1..Len(loaded) /\ loaded'[j] = loaded[j]
    BY <2>1, <2>2 DEF StackInv, CacheAvoidsStack, l
  <2>3. CASE loaded'[j] = entry
    <3>1. resolveStack[k] # resolveStack[l]
      BY <1>2, <2>1 DEF StackInv, StackDistinct, l
    <3> QED BY <1>3, <1>15, <2>3, <3>1
  <2> QED BY <1>14, <2>2, <2>3
<1> QED BY <1>1, <1>3, <1>4, <1>7, <1>12, <1>17, <1>18, <1>19, <1>20 DEF StackInv, l, top

\* The resolution returns to the driver with an empty stack.
LEMMA StackFinishRoot ==
  ASSUME StackInv, FinishRoot
  PROVE  StackInv'
<1>1. /\ Len(frames) = 1 /\ frames # << >> /\ frames' = << >>
      /\ programs' = programs /\ loaded' = loaded /\ resolveStack' = resolveStack
  BY EmptySeq DEF FinishRoot
<1>2. Len(resolveStack) = 0
  BY <1>1 DEF StackInv, StackIsTheFrames
<1>3. StackIsTheFrames'
  BY <1>1, <1>2 DEF StackIsTheFrames
<1> QED BY <1>1, <1>3, InvFinishRoot DEF StackInv, StackDistinct, CacheDistinct, CacheAvoidsStack

\* The declarations that load no module.
LEMMA StackDeclaration ==
  ASSUME StackInv, UseCached \/ ReportCircular \/ ReportMissing
  PROVE  StackInv' /\ loaded' = loaded /\ resolveStack' = resolveStack
<1>1. Inv'
  BY InvUseCached, InvReportCircular, InvReportMissing DEF StackInv
<1>2. AtDeclaration /\ frames' = frames /\ loaded' = loaded /\ resolveStack' = resolveStack
  BY DEF UseCached, ReportCircular, ReportMissing
<1>3. \E target \in Nat : programs' = Link(Current, target)
  <2>1. CASE UseCached
    BY <2>1, CacheHit DEF UseCached, StackInv
  <2>2. CASE ReportCircular \/ ReportMissing
    BY <2>2 DEF ReportCircular, ReportMissing, Unresolved
  <2> QED BY <2>1, <2>2
<1>4. \A q \in 1..Len(programs) : programs'[q].mod = programs[q].mod
  BY <1>2, <1>3, LinkKeepsNames DEF StackInv
<1> QED BY <1>1, <1>2, <1>4, StackKept

\* The invariant of the stack is preserved by every step.
LEMMA StackNext ==
  ASSUME StackHasRoom, StackInv, [Next]_vars
  PROVE  StackInv'
<1>1. CASE UseCached \/ ReportCircular \/ ReportMissing
  BY <1>1, StackDeclaration
<1>2. CASE LoadModule
  BY <1>2, StackLoad
<1>3. CASE FinishModule
  BY <1>3, StackFinish
<1>4. CASE FinishRoot
  BY <1>4, StackFinishRoot
<1>5. CASE UNCHANGED vars
  <2>1. Inv'
    BY <1>5, InvStutter DEF StackInv
  <2> QED BY <1>5, <2>1 DEF vars, StackInv, StackIsTheFrames, StackDistinct, CacheDistinct,
                            CacheAvoidsStack
<1> QED BY <1>1, <1>2, <1>3, <1>4, <1>5 DEF Next

------------------------------------------------------------------------------
(* The refinement mapping *)

Loading == [k \in 1..(IF Len(frames) > 1 THEN Len(frames) - 1 ELSE 0) |->
              programs[frames[k + 1]].mod]
Shared == {loaded[k].name : k \in 1..Len(loaded)}

\* The modules of the frames above the root's are those of the resolution stack.
LEMMA LoadingIsTheStack == StackInv => Loading = resolveStack
<1> SUFFICES ASSUME StackInv PROVE Loading = resolveStack
  OBVIOUS
<1> DEFINE m == Len(frames)
           l == Len(resolveStack)
<1>1. m \in Nat /\ l \in Nat /\ resolveStack \in Seq(Module) /\ frames \in Seq(Nat)
  BY DEF StackInv, Inv, TypeOK
<1>2. l = IF m > 1 THEN m - 1 ELSE 0
  <2>1. CASE frames = << >>
    <3>1. m = 0
      BY <2>1
    <3> QED BY <2>1, <3>1 DEF StackInv, StackIsTheFrames
  <2>2. CASE frames # << >>
    <3>1. m > 0
      BY <1>1, <2>2
    <3>2. l = m - 1
      BY <2>2 DEF StackInv, StackIsTheFrames
    <3> QED BY <1>1, <3>1, <3>2
  <2> QED BY <2>1, <2>2
<1>3. Loading = [k \in 1..l |-> programs[frames[k + 1]].mod]
  BY <1>2 DEF Loading
<1>4. resolveStack = [k \in 1..l |-> resolveStack[k]]
  BY <1>1
<1>5. \A k \in 1..l : resolveStack[k] = programs[frames[k + 1]].mod
  BY DEF StackInv, StackIsTheFrames
<1> QED BY <1>3, <1>4, <1>5

\* Adding to a cache with room adds one name to those that may be shared
\* (resolver_cache).
LEMMA CacheAddShares ==
  ASSUME CacheHasRoom, StackInv, NEW name \in Module, NEW p \in Nat, ~Cached(name),
         loaded' = CacheAdd(name, p)
  PROVE  Shared' = Shared \cup {name}
<1>0. \A k \in 1..Len(loaded) : loaded[k] \in [name : Module, program : Nat]
  <2> DEFINE E == [name : Module, program : Nat]
  <2>1. loaded \in Seq(E)
    BY DEF StackInv, Inv, TypeOK
  <2> HIDE DEF E
  <2>2. \A k \in 1..Len(loaded) : loaded[k] \in E
    BY <2>1
  <2> QED BY <2>2 DEF E
<1> DEFINE c     == Len(loaded)
           names == [k \in 1..c |-> loaded[k].name]
           entry == [name |-> name, program |-> p]
           app   == Append(loaded, entry)
<1>1. c \in Nat /\ loaded \in Seq([name : Module, program : Nat])
  BY DEF StackInv, Inv, TypeOK
<1>2. \A k \in 1..c : loaded[k].name \in Module /\ loaded[k].name # name
  <2>1. \A k \in 1..c : loaded[k].name \in Module
    BY <1>0
  <2> QED BY <2>1 DEF Cached
<1>3. c < Cardinality(Module)
  <2>1. names \in Seq(Module) /\ Len(names) = c
    BY <1>1, <1>2
  <2>2. \A j, k \in 1..c : j # k => names[j] # names[k]
    BY DEF StackInv, CacheDistinct
  <2>3. \A k \in 1..c : names[k] # name
    BY <1>2
  <2> HIDE DEF names, c
  <2> QED BY <2>1, <2>2, <2>3, DistinctIsShorter DEF CacheHasRoom
<1>4. Cardinality(Module) \in Nat
  BY FS_CardinalityType DEF CacheHasRoom
<1>5. loaded' = app
  BY <1>1, <1>3, <1>4, ResolverAssumption DEF CacheHasRoom, CacheAdd
<1>6. entry \in [name : Module, program : Nat] /\ entry.name = name
  OBVIOUS
<1> HIDE DEF entry
<1>7. Len(app) = c + 1 /\ app[c + 1] = entry /\ \A k \in 1..c : app[k] = loaded[k]
  BY <1>1, <1>6
<1> HIDE DEF app, c
<1>8. Shared' = {app[k].name : k \in 1..(c + 1)}
  BY <1>5, <1>7 DEF Shared
<1>9. Shared = {loaded[k].name : k \in 1..c}
  BY DEF Shared, c
<1>10. 1..(c + 1) = (1..c) \cup {c + 1}
  BY <1>1
<1> QED BY <1>6, <1>7, <1>8, <1>9, <1>10

\* Every step of the resolver is a step of ModuleLoader or changes nothing it sees.
LEMMA LoaderStep ==
  ASSUME StackHasRoom, CacheHasRoom, StackInv, StackInv', [Next]_vars,
         Loading = resolveStack, Loading' = resolveStack'
  PROVE  [Loader!Next]_(Loader!vars)
<1>1. Loader!Next <=>
        \/ /\ Loading # << >>
           /\ Shared' = Shared \cup {Loading[Len(Loading)]}
           /\ Loading' = SubSeq(Loading, 1, Len(Loading) - 1)
        \/ \E x \in Module :
             /\ x \notin Shared
             /\ \A k \in 1..Len(Loading) : Loading[k] # x
             /\ Loading' = Append(Loading, x)
             /\ Shared' = Shared
  BY DEF Loader!Next, Loader!Complete, Loader!Begin, Loading, Shared
<1>2. (UNCHANGED Loader!vars) <=> Loading' = Loading /\ Shared' = Shared
  BY DEF Loader!vars, Loading, Shared
<1>3. CASE UseCached \/ ReportCircular \/ ReportMissing
  <2>1. Loading' = Loading /\ Shared' = Shared
    BY <1>3, StackDeclaration DEF Shared
  <2> QED BY <1>2, <2>1
<1>4. CASE LoadModule
  <2>1. Name \in Module
    BY <1>4, CurrentFacts DEF StackInv, LoadModule
  <2>2. Name \notin Shared /\ \A k \in 1..Len(Loading) : Loading[k] # Name
    BY <1>4 DEF LoadModule, Shared, Cached, OnStack
  <2>3. Loading' = Append(Loading, Name) /\ Shared' = Shared
    BY <1>4, StackLoad DEF Shared
  <2> QED BY <1>1, <2>1, <2>2, <2>3
<1>5. CASE FinishModule
  <2> DEFINE top == programs[Current].mod
  <2>1. /\ Len(resolveStack) > 0 /\ top = resolveStack[Len(resolveStack)]
        /\ ~Cached(top) /\ top \in Module /\ resolveStack \in Seq(Module)
    BY <1>5, StackFinish DEF StackInv, Inv, TypeOK
  <2>2. Current \in Nat /\ loaded' = CacheAdd(top, Current) /\ resolveStack' = Pop
    BY <1>5 DEF StackInv, Inv, TypeOK, FinishModule, Current
  <2>3. Shared' = Shared \cup {top}
    BY <2>1, <2>2, CacheAddShares
  <2>4. resolveStack' = SubSeq(resolveStack, 1, Len(resolveStack) - 1)
    BY <2>1, <2>2, PopMembers
  <2>5. resolveStack # << >>
    BY <2>1
  <2> QED BY <1>1, <2>1, <2>3, <2>4, <2>5
<1>6. CASE FinishRoot
  <2>1. Loading' = Loading /\ Shared' = Shared
    BY <1>6 DEF FinishRoot, Shared
  <2> QED BY <1>2, <2>1
<1>7. CASE UNCHANGED vars
  <2>1. Loading' = Loading /\ Shared' = Shared
    BY <1>7 DEF vars, Shared
  <2> QED BY <1>2, <2>1
<1> QED BY <1>3, <1>4, <1>5, <1>6, <1>7 DEF Next

------------------------------------------------------------------------------
(* The theorems *)

\* No module is loaded while an earlier load of it is still under way (the resolution
\* stack of resolve.c), as long as the stack is not smaller than the set of modules.
THEOREM NoModuleReentered ==
  ASSUME StackHasRoom
  PROVE  Spec => []NoReentry
<1>1. StackInv => NoReentry
  <2> SUFFICES ASSUME StackInv, NEW j \in 2..Len(frames), NEW k \in 2..Len(frames), j # k
               PROVE  programs[frames[j]].mod # programs[frames[k]].mod
    BY DEF NoReentry
  <2>1. Len(frames) \in Nat
    BY DEF StackInv, Inv, TypeOK
  <2>2. Len(resolveStack) = Len(frames) - 1
    BY <2>1 DEF StackInv, StackIsTheFrames
  <2>3. /\ j - 1 \in 1..Len(resolveStack) /\ k - 1 \in 1..Len(resolveStack)
        /\ j - 1 # k - 1 /\ (j - 1) + 1 = j /\ (k - 1) + 1 = k
    BY <2>1, <2>2
  <2> QED BY <2>3 DEF StackInv, StackIsTheFrames, StackDistinct
<1>2. StackInv /\ [Next]_vars => StackInv'
  BY StackNext
<1> QED BY <1>1, <1>2, StackInit, PTL DEF Spec

\* "Each module is parsed once and shared across all importers" (resolve.c): the safety
\* of ModuleLoader, for all files, when both arrays have room for the modules.
THEOREM RefinesModuleLoader ==
  ASSUME StackHasRoom, CacheHasRoom
  PROVE  Spec => Loader!Init /\ [][Loader!Next]_(Loader!vars)
<1>1. Init => Loader!Init
  <2> SUFFICES ASSUME Init PROVE Loader!Init
    OBVIOUS
  <2>1. Loading = << >>
    BY StackInit, LoadingIsTheStack DEF Init
  <2>2. Shared = {}
    BY DEF Init, Shared
  <2> QED BY <2>1, <2>2 DEF Loader!Init, Loading, Shared
<1>2. StackInv /\ [Next]_vars => StackInv'
  BY StackNext
<1>3. StackInv' => (Loading = resolveStack)'
  BY LoadingIsTheStack, PTL
<1>4. StackInv /\ [Next]_vars => [Loader!Next]_(Loader!vars)
  <2> SUFFICES ASSUME StackInv, [Next]_vars PROVE [Loader!Next]_(Loader!vars)
    OBVIOUS
  <2>1. StackInv' /\ Loading = resolveStack
    BY <1>2, LoadingIsTheStack
  <2>2. Loading' = resolveStack'
    BY <1>3, <2>1
  <2> QED BY <2>1, <2>2, LoaderStep
<1> QED BY <1>1, <1>2, <1>4, StackInit, PTL DEF Spec

------------------------------------------------------------------------------
(****************************************************************************)
(* What the resolver computes: the files it reads and the cycles it reports *)
(* are those of the import relation, for all sizes of its arrays.           *)
(*                                                                          *)
(* That a reported cycle exists comes from the frames: the module of a      *)
(* frame is below that of every frame under it, and what is on the stack is *)
(* the module of a frame, even when a full stack has dropped names.  That   *)
(* every cycle is reported comes from the finished programs: as long as     *)
(* nothing circular was reported, what they import is among them, so the    *)
(* first one that would finish on a cycle needs another that already has.   *)
(****************************************************************************)

Mods == {programs[p].mod : p \in 1..Len(programs)}

RootIsRead == Root \in readable /\ Root \in Mods

ReadsOnlyReachable == \A p \in 1..Len(programs) : programs[p].mod \in Reachable

ImportsAreRead ==
  \A p \in 1..Len(programs) : \A i \in 1..Len(programs[p].edges) :
     Declarations(p)[i] \in readable => Declarations(p)[i] \in Mods

FinishedAreComplete == \A p \in Finished : Len(programs[p].edges) = Len(Declarations(p))

StackIsBeingLoaded ==
  \A k \in 1..Len(resolveStack) : \E j \in 2..(Len(frames) - Len(resolveStack) + k) :
     programs[frames[j]].mod = resolveStack[k]

FramesAreBelow ==
  \A j, k \in 1..Len(frames) :
     j < k => programs[frames[k]].mod \in Below(programs[frames[j]].mod)

MissingIsUnreadable ==
  \A e \in errors : e.kind = "missing" => Declarations(e.program)[e.decl] \notin readable

CircularIsACycle == Reported("circular") => CyclicImports

FinishedAreAcyclic ==
  ~Reported("circular") => \A p \in Finished : programs[p].mod \notin Below(programs[p].mod)

GraphInv ==
  /\ Inv
  /\ RootIsRead
  /\ ReadsOnlyReachable
  /\ ImportsAreRead
  /\ FinishedAreComplete
  /\ StackIsBeingLoaded
  /\ FramesAreBelow
  /\ MissingIsUnreadable
  /\ CircularIsACycle
  /\ FinishedAreAcyclic

\* The directories and files do not change, and with them the import relation.
LEMMA GraphKept ==
  ASSUME UNCHANGED files
  PROVE  /\ \A m \in Module : Below(m)' = Below(m)
         /\ Reachable' = Reachable
         /\ CyclicImports' <=> CyclicImports
<1>1. imports' = imports /\ readable' = readable
  BY DEF files
<1>2. \A m \in Module : Imported(m)' = Imported(m)
  BY <1>1 DEF Imported
<1>3. \A S \in SUBSET Module : Closed(S)' <=> Closed(S)
  BY <1>1 DEF Closed, Imported
<1>4. \A m \in Module : Below(m)' = Below(m)
  BY <1>2, <1>3 DEF Below
<1>5. Reachable' = Reachable
  BY <1>4, ResolverAssumption DEF Reachable
<1>6. Reachable \subseteq Module
  BY ResolverAssumption DEF Reachable, Below
<1> QED BY <1>4, <1>5, <1>6 DEF CyclicImports

\* What is below a module is the smallest set that has its imports and, with every
\* module, that module's imports.
LEMMA BelowFacts ==
  ASSUME readable \subseteq Module, NEW m \in Module
  PROVE  /\ Below(m) \subseteq readable
         /\ Imported(m) \subseteq Below(m)
         /\ \A n \in Below(m) : Imported(n) \subseteq Below(m)
         /\ \A S \in SUBSET Module : Imported(m) \subseteq S /\ Closed(S) => Below(m) \subseteq S
<1>1. \A n : Imported(n) \subseteq readable
  BY DEF Imported
<1>2. \A S \in SUBSET Module : Imported(m) \subseteq S /\ Closed(S) => Below(m) \subseteq S
  BY DEF Below
<1>3. Imported(m) \subseteq readable /\ Closed(readable) /\ readable \in SUBSET Module
  BY <1>1 DEF Closed
<1>4. Imported(m) \subseteq Below(m)
  BY <1>1 DEF Below
<1>5. ASSUME NEW n \in Below(m), NEW x \in Imported(n)
      PROVE  x \in Below(m)
  <2>1. x \in Module
    BY <1>1, <1>5
  <2>2. \A S \in SUBSET Module : Imported(m) \subseteq S /\ Closed(S) => x \in S
    BY <1>2, <1>5 DEF Closed
  <2> QED BY <2>1, <2>2 DEF Below
<1> QED BY <1>2, <1>3, <1>4, <1>5

\* The imports of what is below or reached are below or reached.
LEMMA ImportsOfBelow ==
  ASSUME readable \subseteq Module, Root \in readable, NEW x
  PROVE  /\ \A m \in Module : \A n \in Below(m) : x \in Imported(n) => x \in Below(m)
         /\ \A n \in Reachable : x \in Imported(n) => x \in Reachable
         /\ Reachable \subseteq readable
<1>1. \A m \in Module : \A n \in Below(m) : x \in Imported(n) => x \in Below(m)
  BY BelowFacts
<1>2. Root \in Module
  BY ResolverAssumption
<1>3. x \in Imported(Root) => x \in Below(Root)
  BY <1>2, BelowFacts
<1>4. \A n \in Reachable : x \in Imported(n) => x \in Reachable
  BY <1>1, <1>2, <1>3 DEF Reachable
<1>5. Reachable \subseteq readable
  BY <1>2, BelowFacts DEF Reachable
<1> QED BY <1>1, <1>4, <1>5

\* The declaration at hand, when there is a file for it, is an import of the module of
\* the running frame.
LEMMA NameIsImported ==
  ASSUME Inv, AtDeclaration, Name \in readable
  PROVE  Name \in Imported(programs[Current].mod)
<1>1. /\ DeclIndex \in 1..Len(Declarations(Current))
      /\ Name = Declarations(Current)[DeclIndex]
  BY CurrentFacts
<1> QED BY <1>1 DEF Imported, Declarations

\* The programs of the frames and of the errors are among the programs, and what a
\* declaration names is a module.
LEMMA GraphTypes ==
  ASSUME Inv
  PROVE  /\ Len(programs) \in Nat /\ Len(frames) \in Nat /\ Len(resolveStack) \in Nat
         /\ readable \subseteq Module
         /\ \A p \in 1..Len(programs) :
              /\ programs[p].mod \in Module
              /\ Len(programs[p].edges) \in Nat
              /\ Declarations(p) \in Seq(Module)
              /\ Len(programs[p].edges) <= Len(Declarations(p))
         /\ \A k \in 1..Len(frames) : frames[k] \in 1..Len(programs)
         /\ \A e \in errors : /\ e.program \in 1..Len(programs)
                              /\ e.decl \in 1..Len(programs[e.program].edges)
                              /\ e.kind \in {"circular", "missing"}
<1>1. /\ Len(programs) \in Nat /\ Len(frames) \in Nat /\ Len(resolveStack) \in Nat
      /\ readable \subseteq Module
      /\ \A k \in 1..Len(frames) : frames[k] \in 1..Len(programs)
  BY DEF Inv, TypeOK
<1>2. \A p \in 1..Len(programs) : programs[p] \in Program
  BY DEF Inv, TypeOK
<1>3. ASSUME NEW p \in 1..Len(programs)
      PROVE  /\ programs[p].mod \in Module /\ Len(programs[p].edges) \in Nat
             /\ Declarations(p) \in Seq(Module)
  <2>1. programs[p].mod \in Module /\ Len(programs[p].edges) \in Nat
    BY <1>2 DEF Program
  <2> QED BY <2>1, ResolverAssumption DEF Inv, TypeOK, Declarations
<1>4. \A e \in errors : /\ e.program \in 1..Len(programs)
                        /\ e.decl \in 1..Len(programs[e.program].edges)
                        /\ e.kind \in {"circular", "missing"}
  BY DEF Inv, TypeOK
<1>5. \A p \in 1..Len(programs) : Len(programs[p].edges) <= Len(Declarations(p))
  BY DEF Inv, DeclarationsInOrder
<1> QED BY <1>1, <1>3, <1>4, <1>5

------------------------------------------------------------------------------
(* The invariant of the import graph, step by step *)

\* Nothing has been read but the root.
LEMMA GraphInit == Init => GraphInv
<1> SUFFICES ASSUME Init PROVE GraphInv
  OBVIOUS
<1>1. Inv /\ Root \in readable /\ errors = {} /\ resolveStack = << >> /\ frames = <<1>>
  BY InvInit DEF Init
<1>2. programs = <<NewProgram(Root)>>
  BY DEF Init
<1> DEFINE rec == NewProgram(Root)
<1>3. rec.mod = Root /\ rec.edges = << >>
  BY DEF NewProgram
<1> HIDE DEF rec
<1>4. Len(programs) = 1 /\ programs[1] = rec
  BY <1>2 DEF rec
<1>5. Len(frames) = 1 /\ frames[1] = 1 /\ Len(resolveStack) = 0 /\ Len(<< >>) = 0
  BY <1>1
<1>6. programs[1].mod = Root /\ Len(programs[1].edges) = 0
  BY <1>3, <1>4, <1>5
<1>7. Root \in Mods /\ Root \in Reachable
  BY <1>4, <1>6 DEF Mods, Reachable
<1>8. RootIsRead /\ ReadsOnlyReachable /\ ImportsAreRead
  BY <1>1, <1>4, <1>6, <1>7 DEF RootIsRead, ReadsOnlyReachable, ImportsAreRead
<1>9. Finished = {}
  BY <1>4, <1>5 DEF Finished, Open
<1>10. FinishedAreComplete /\ FinishedAreAcyclic
  BY <1>9 DEF FinishedAreComplete, FinishedAreAcyclic
<1>11. StackIsBeingLoaded /\ FramesAreBelow
  BY <1>5 DEF StackIsBeingLoaded, FramesAreBelow
<1>12. MissingIsUnreadable /\ CircularIsACycle
  BY <1>1 DEF MissingIsUnreadable, CircularIsACycle, Reported
<1> QED BY <1>1, <1>7, <1>8, <1>10, <1>11, <1>12 DEF GraphInv

\* Linking the next declaration of a program, whose file was read if there is one,
\* changes no name and keeps what the links say of the files read.
LEMMA GraphLink ==
  ASSUME Inv, RootIsRead, ReadsOnlyReachable, ImportsAreRead, UNCHANGED files,
         NEW p \in 1..Len(programs), NEW target \in Nat, programs' = Link(p, target),
         Declarations(p)[Len(programs[p].edges) + 1] \in readable =>
           Declarations(p)[Len(programs[p].edges) + 1] \in Mods
  PROVE  /\ Len(programs') = Len(programs)
         /\ \A q \in 1..Len(programs) :
              /\ programs'[q].mod = programs[q].mod
              /\ Declarations(q)' = Declarations(q)
              /\ q # p => programs'[q] = programs[q]
         /\ Mods' = Mods
         /\ RootIsRead' /\ ReadsOnlyReachable' /\ ImportsAreRead'
<1> DEFINE n   == Len(programs)
           old == programs[p].edges
<1>1. /\ Len(programs') = n /\ n \in Nat
      /\ \A q \in 1..n : /\ programs'[q].mod = programs[q].mod
                         /\ q # p => programs'[q] = programs[q]
      /\ programs'[p].edges = Append(old, target)
  <2>1. programs \in Seq(Program) /\ n \in Nat
    BY DEF Inv, TypeOK
  <2> QED BY <2>1, LinkFacts
<1>2. imports' = imports /\ readable' = readable
  BY DEF files
<1>3. \A q \in 1..n : Declarations(q)' = Declarations(q)
  BY <1>1, <1>2 DEF Declarations
<1>4. Mods' = Mods
  BY <1>1 DEF Mods
<1>5. RootIsRead'
  BY <1>2, <1>4 DEF RootIsRead
<1>6. ReadsOnlyReachable'
  BY <1>1, GraphKept DEF ReadsOnlyReachable
<1>7. old \in Seq(Nat) /\ Len(old) \in Nat
  <2>1. programs[p] \in Program
    BY DEF Inv, TypeOK
  <2> QED BY <2>1 DEF Program
<1>8. ASSUME NEW q \in 1..n, NEW i \in 1..Len(programs'[q].edges)
      PROVE  i \in 1..Len(programs[q].edges) \/ (q = p /\ i = Len(old) + 1)
  <2>1. CASE q # p
    BY <1>1, <1>8, <2>1
  <2>2. CASE q = p
    <3>1. Len(programs'[p].edges) = Len(old) + 1
      BY <1>1, <1>7
    <3> QED BY <1>7, <1>8, <2>2, <3>1
  <2> QED BY <2>1, <2>2
<1>9. ASSUME NEW q \in 1..n, NEW i \in 1..Len(programs'[q].edges), Declarations(q)[i] \in readable
      PROVE  Declarations(q)[i] \in Mods
  BY <1>8, <1>9 DEF ImportsAreRead
<1>10. ImportsAreRead'
  BY <1>1, <1>2, <1>3, <1>4, <1>9 DEF ImportsAreRead
<1> QED BY <1>1, <1>3, <1>4, <1>5, <1>6, <1>10

\* A declaration of the running frame is processed without loading a module: its
\* module was read before or has no file, and an error about it is true (resolve_one's
\* early returns).
LEMMA GraphDeclaration ==
  ASSUME GraphInv, Inv', AtDeclaration,
         NEW target \in Nat, programs' = Link(Current, target),
         UNCHANGED <<files, frames, resolveStack>>,
         Name \in readable => Name \in Mods,
         \/ errors' = errors
         \/ Report("circular") /\ CyclicImports
         \/ Report("missing") /\ Name \notin readable
  PROVE  GraphInv'
<1> DEFINE n == Len(programs)
<1>1. /\ Current \in 1..n
      /\ Name = Declarations(Current)[Len(programs[Current].edges) + 1]
      /\ DeclIndex = Len(programs[Current].edges) + 1
      /\ Name = Declarations(Current)[DeclIndex]
      /\ Current = frames[Len(frames)] /\ Len(frames) \in Nat \ {0}
  BY CurrentFacts DEF GraphInv
<1>2. /\ imports' = imports /\ readable' = readable /\ frames' = frames
      /\ resolveStack' = resolveStack
  BY DEF files
<1>3. /\ Len(programs') = n
      /\ \A q \in 1..n : /\ programs'[q].mod = programs[q].mod
                         /\ Declarations(q)' = Declarations(q)
                         /\ q # Current => programs'[q] = programs[q]
      /\ Mods' = Mods
      /\ RootIsRead' /\ ReadsOnlyReachable' /\ ImportsAreRead'
  BY <1>1, GraphLink DEF GraphInv
<1>4. Finished' = Finished /\ \A q \in Finished : q \in 1..n /\ q # Current
  BY <1>1, <1>2, <1>3 DEF Finished, Open
<1>5. FinishedAreComplete'
  BY <1>3, <1>4 DEF GraphInv, FinishedAreComplete
<1>6. \A k \in 1..Len(frames) : frames[k] \in 1..n
  BY GraphTypes DEF GraphInv
<1>7. StackIsBeingLoaded'
  <2>1. Len(frames) \in Nat /\ Len(resolveStack) \in Nat
    BY GraphTypes DEF GraphInv
  <2> SUFFICES ASSUME NEW k \in 1..Len(resolveStack)
               PROVE  \E j \in 2..(Len(frames) - Len(resolveStack) + k) :
                         programs'[frames[j]].mod = resolveStack[k]
    BY <1>2 DEF StackIsBeingLoaded
  <2>2. PICK j \in 2..(Len(frames) - Len(resolveStack) + k) :
              programs[frames[j]].mod = resolveStack[k]
    BY DEF GraphInv, StackIsBeingLoaded
  <2>3. j \in 1..Len(frames)
    BY <2>1
  <2> QED BY <1>3, <1>6, <2>2, <2>3
<1>8. \A m \in Module : Below(m)' = Below(m)
  BY GraphKept
<1>9. \A q \in 1..n : programs[q].mod \in Module
  BY GraphTypes DEF GraphInv
<1>10. FramesAreBelow'
  BY <1>2, <1>3, <1>6, <1>8, <1>9 DEF GraphInv, FramesAreBelow
<1>11. \/ errors' = errors
       \/ \E kind \in {"circular", "missing"} :
             /\ errors' = errors \cup {[kind |-> kind, program |-> Current, decl |-> DeclIndex]}
             /\ kind = "circular" => CyclicImports
             /\ kind = "missing" => Name \notin readable
  BY DEF Report
<1>12. /\ Reported("circular") => Reported("circular")'
       /\ Reported("circular")' => Reported("circular") \/ CyclicImports
  BY <1>11 DEF Reported
<1>13. CircularIsACycle'
  BY <1>12, GraphKept DEF GraphInv, CircularIsACycle
<1>14. FinishedAreAcyclic'
  BY <1>3, <1>4, <1>8, <1>9, <1>12 DEF GraphInv, FinishedAreAcyclic
<1>15. MissingIsUnreadable'
  <2> SUFFICES ASSUME NEW e \in errors', e.kind = "missing"
               PROVE  Declarations(e.program)'[e.decl] \notin readable
    BY <1>2 DEF MissingIsUnreadable
  <2>1. CASE e \in errors
    <3>1. e.program \in 1..n /\ Declarations(e.program)[e.decl] \notin readable
      BY <2>1, GraphTypes DEF GraphInv, MissingIsUnreadable
    <3> QED BY <1>3, <3>1
  <2>2. CASE e \notin errors
    <3>1. PICK kind \in {"circular", "missing"} :
             /\ e = [kind |-> kind, program |-> Current, decl |-> DeclIndex]
             /\ kind = "missing" => Name \notin readable
      BY <1>11, <2>2
    <3>2. e.program = Current /\ e.decl = DeclIndex /\ Name \notin readable
      BY <3>1
    <3> QED BY <1>1, <1>3, <3>2
  <2> QED BY <2>1, <2>2
<1> QED BY <1>3, <1>5, <1>7, <1>10, <1>13, <1>14, <1>15 DEF GraphInv

\* A module that is cached was read (resolver_get_cached).
LEMMA GraphUseCached ==
  ASSUME GraphInv, UseCached
  PROVE  GraphInv'
<1>1. Inv /\ Inv' /\ AtDeclaration
  BY InvUseCached DEF GraphInv, UseCached
<1> DEFINE target == CachedProgram(Name)
<1>2. target \in Finished /\ programs[target].mod = Name /\ target \in Nat
  BY <1>1, CacheHit DEF UseCached
<1>3. Name \in Mods
  BY <1>2 DEF Finished, Mods
<1>4. programs' = Link(Current, target) /\ errors' = errors
      /\ UNCHANGED <<files, frames, resolveStack>>
  BY DEF UseCached
<1> HIDE DEF target
<1> QED BY <1>1, <1>2, <1>3, <1>4, GraphDeclaration

\* A module without a file is below none.
LEMMA GraphReportMissing ==
  ASSUME GraphInv, ReportMissing
  PROVE  GraphInv'
<1>1. Inv' /\ AtDeclaration
  BY InvReportMissing DEF GraphInv, ReportMissing
<1>2. Unresolved \in Nat
  BY DEF Unresolved
<1> QED BY <1>1, <1>2, GraphDeclaration DEF ReportMissing

\* The module found on the stack is that of a frame.  It imports itself, or the running
\* frame's module is below it: the cycle that is reported is there (stack_contains).
LEMMA GraphReportCircular ==
  ASSUME GraphInv, ReportCircular
  PROVE  GraphInv'
<1> DEFINE m   == Len(frames)
           top == programs[Current].mod
<1>1. Inv' /\ Inv /\ AtDeclaration
  BY InvReportCircular DEF GraphInv, ReportCircular
<1>2. Unresolved \in Nat
  BY DEF Unresolved
<1>3. /\ m \in Nat /\ Len(resolveStack) \in Nat /\ readable \subseteq Module
      /\ \A k \in 1..m : frames[k] \in 1..Len(programs)
      /\ \A p \in 1..Len(programs) : programs[p].mod \in Module
      /\ Current = frames[m] /\ m \in 1..m
  BY <1>1, GraphTypes, CurrentFacts
<1>4. PICK j \in 1..m : programs[frames[j]].mod = Name
  <2>1. PICK k \in 1..Len(resolveStack) : resolveStack[k] = Name
    BY DEF ReportCircular, OnStack
  <2>2. PICK j \in 2..(m - Len(resolveStack) + k) : programs[frames[j]].mod = resolveStack[k]
    BY DEF GraphInv, StackIsBeingLoaded
  <2>3. j \in 1..m
    BY <1>3
  <2> QED BY <2>1, <2>2, <2>3
<1>5. /\ Name \in Mods /\ Name \in Module
      /\ Name \in Reachable /\ Root \in readable
  BY <1>3, <1>4 DEF Mods, GraphInv, ReadsOnlyReachable, RootIsRead
<1>6. Name \in readable
  BY <1>3, <1>5, ImportsOfBelow
<1>7. Name \in Imported(top)
  BY <1>1, <1>6, NameIsImported
<1>8. Name \in Below(Name)
  <2>1. CASE j = m
    <3>1. top = Name
      BY <1>3, <1>4, <2>1
    <3> QED BY <1>3, <1>5, <1>7, <3>1, BelowFacts
  <2>2. CASE j # m
    <3>1. top \in Below(Name)
      BY <1>3, <1>4, <2>2 DEF GraphInv, FramesAreBelow
    <3> QED BY <1>3, <1>5, <1>7, <3>1, BelowFacts
  <2> QED BY <2>1, <2>2
<1>9. CyclicImports
  BY <1>5, <1>8 DEF CyclicImports
<1> QED BY <1>1, <1>2, <1>5, <1>9, GraphDeclaration DEF ReportCircular

\* A module that begins to load is imported by the running frame's and so below it and
\* below whatever that one is below (resolve_one).
LEMMA GraphLoadModule ==
  ASSUME GraphInv, LoadModule
  PROVE  GraphInv'
<1> DEFINE n   == Len(programs)
           m   == Len(frames)
           l   == Len(resolveStack)
           rec == NewProgram(Name)
           top == programs[Current].mod
<1>1. Inv' /\ Inv /\ AtDeclaration
  BY InvLoadModule DEF GraphInv, LoadModule
<1>2. /\ n \in Nat /\ m \in Nat \ {0} /\ l \in Nat /\ readable \subseteq Module
      /\ \A k \in 1..m : frames[k] \in 1..n
      /\ \A p \in 1..n : programs[p].mod \in Module
      /\ Current = frames[m] /\ m \in 1..m /\ Name \in Module
      /\ programs \in Seq(Program) /\ frames \in Seq(Nat) /\ resolveStack \in Seq(Module)
  <2>1. programs \in Seq(Program) /\ frames \in Seq(Nat) /\ resolveStack \in Seq(Module)
    BY <1>1 DEF Inv, TypeOK
  <2>2. m \in Nat \ {0} /\ Current = frames[m] /\ Name \in Module
    BY <1>1, CurrentFacts
  <2>3. m \in 1..m
    BY <2>2
  <2> QED BY <1>1, <2>1, <2>2, <2>3, GraphTypes
<1>3. rec \in Program /\ rec.edges = << >> /\ rec.mod = Name
  <2>1. << >> \in Seq(Nat)
    OBVIOUS
  <2> QED BY <1>2, <2>1 DEF NewProgram, Program
<1> HIDE DEF rec
<1>4. /\ imports' = imports /\ readable' = readable /\ errors' = errors /\ UNCHANGED files
      /\ programs' = Append(programs, rec) /\ frames' = Append(frames, n + 1)
      /\ resolveStack' = Push(Name)
  BY DEF LoadModule, files, rec
<1>5. /\ Len(programs') = n + 1 /\ programs'[n + 1] = rec
      /\ \A q \in 1..n : programs'[q] = programs[q]
  BY <1>2, <1>3, <1>4
<1>6. /\ Len(frames') = m + 1 /\ frames'[m + 1] = n + 1
      /\ \A k \in 1..m : frames'[k] = frames[k]
  BY <1>2, <1>4
<1>7. \A q \in 1..n : Declarations(q)' = Declarations(q)
  BY <1>4, <1>5 DEF Declarations
<1>8. programs'[n + 1].mod = Name /\ Len(programs'[n + 1].edges) = 0
  BY <1>3, <1>5
<1>9. Name \in readable /\ Name \in Imported(top) /\ Root \in readable
  BY <1>1, NameIsImported DEF LoadModule, GraphInv, RootIsRead
<1>10. Mods \subseteq Mods'
  BY <1>2, <1>5 DEF Mods
<1>11. RootIsRead'
  BY <1>4, <1>10 DEF GraphInv, RootIsRead
<1>12. \A q \in 1..(n + 1) : q \in 1..n \/ q = n + 1
  BY <1>2
<1>13. ReadsOnlyReachable'
  <2>1. top \in Reachable
    BY <1>2 DEF GraphInv, ReadsOnlyReachable
  <2>2. Name \in Reachable
    BY <1>2, <1>9, <2>1, ImportsOfBelow
  <2> QED BY <1>4, <1>5, <1>8, <1>12, <2>2, GraphKept DEF GraphInv, ReadsOnlyReachable
<1>14. ImportsAreRead'
  <2> SUFFICES ASSUME NEW q \in 1..(n + 1), NEW i \in 1..Len(programs'[q].edges)
               PROVE  Declarations(q)'[i] \in readable => Declarations(q)'[i] \in Mods'
    BY <1>4, <1>5 DEF ImportsAreRead
  <2>1. q \in 1..n
    BY <1>8, <1>12
  <2> QED BY <1>5, <1>7, <1>10, <2>1 DEF GraphInv, ImportsAreRead
<1>15. \A q \in Finished' : q \in Finished /\ q \in 1..n
  <2>1. Open \cup {n + 1} \subseteq Open'
    <3>1. \A k \in 1..m : k \in 1..(m + 1)
      BY <1>2
    <3>2. m + 1 \in 1..(m + 1)
      BY <1>2
    <3> QED BY <1>6, <3>1, <3>2 DEF Open
  <2> QED BY <1>5, <1>12, <2>1 DEF Finished
<1>16. FinishedAreComplete'
  BY <1>5, <1>7, <1>15 DEF GraphInv, FinishedAreComplete
<1>17. \A x \in Module : Below(x)' = Below(x)
  BY <1>4, GraphKept
<1>18. \A k \in 1..(m + 1) : k \in 1..m \/ k = m + 1
  BY <1>2
<1>19. \A j \in 1..m : Name \in Below(programs[frames[j]].mod)
  <2> TAKE j \in 1..m
  <2>1. programs[frames[j]].mod \in Module
    BY <1>2
  <2>2. CASE j = m
    BY <1>2, <1>9, <2>1, <2>2, BelowFacts
  <2>3. CASE j # m
    <3>1. top \in Below(programs[frames[j]].mod)
      BY <1>2, <2>3 DEF GraphInv, FramesAreBelow
    <3> QED BY <1>2, <1>9, <2>1, <3>1, BelowFacts
  <2> QED BY <2>2, <2>3
<1>20. \A j, k \in 1..(m + 1) : j < k => j \in 1..m
  BY <1>2
<1>21. \A k \in 1..m : programs'[frames'[k]].mod = programs[frames[k]].mod
                      /\ programs[frames[k]].mod \in Module
  BY <1>2, <1>5, <1>6
<1>22. programs'[frames'[m + 1]].mod = Name
  BY <1>6, <1>8
<1>23. FramesAreBelow'
  <2>1. ASSUME NEW j \in 1..(m + 1), NEW k \in 1..(m + 1), j < k
        PROVE  programs'[frames'[k]].mod \in Below(programs[frames[j]].mod) /\ j \in 1..m
    BY <1>18, <1>19, <1>20, <1>21, <1>22, <2>1 DEF GraphInv, FramesAreBelow
  <2> QED BY <1>6, <1>17, <1>21, <2>1 DEF FramesAreBelow
<1>24. StackIsBeingLoaded'
  <2>1. \A k \in 1..l : \E j \in 2..(m - l + k) :
           /\ programs[frames[j]].mod = resolveStack[k]
           /\ j \in 1..m
    BY <1>2 DEF GraphInv, StackIsBeingLoaded
  <2>2. CASE l < MaxDepth
    <3>1. resolveStack' = Append(resolveStack, Name)
      BY <1>4, <2>2 DEF Push
    <3>2. /\ Len(resolveStack') = l + 1 /\ resolveStack'[l + 1] = Name
          /\ \A k \in 1..l : resolveStack'[k] = resolveStack[k]
      BY <1>2, <3>1
    <3> SUFFICES ASSUME NEW k \in 1..(l + 1)
                 PROVE  \E j \in 2..(m + 1 - (l + 1) + k) :
                           programs'[frames'[j]].mod = resolveStack'[k]
      BY <1>6, <3>2 DEF StackIsBeingLoaded
    <3>3. CASE k = l + 1
      <4>1. m + 1 \in 2..(m + 1 - (l + 1) + k)
        BY <1>2, <3>3
      <4> QED BY <1>22, <3>2, <3>3, <4>1
    <3>4. CASE k \in 1..l
      <4>1. PICK j \in 2..(m - l + k) : programs[frames[j]].mod = resolveStack[k] /\ j \in 1..m
        BY <2>1, <3>4
      <4>2. j \in 2..(m + 1 - (l + 1) + k)
        BY <1>2, <3>4
      <4> QED BY <1>21, <3>2, <3>4, <4>1, <4>2
    <3>5. k \in 1..l \/ k = l + 1
      BY <1>2
    <3> QED BY <3>3, <3>4, <3>5
  <2>3. CASE ~(l < MaxDepth)
    <3>1. resolveStack' = resolveStack
      BY <1>4, <2>3 DEF Push
    <3> SUFFICES ASSUME NEW k \in 1..l
                 PROVE  \E j \in 2..(m + 1 - l + k) : programs'[frames'[j]].mod = resolveStack[k]
      BY <1>6, <3>1 DEF StackIsBeingLoaded
    <3>2. PICK j \in 2..(m - l + k) : programs[frames[j]].mod = resolveStack[k] /\ j \in 1..m
      BY <2>1
    <3>3. j \in 2..(m + 1 - l + k)
      BY <1>2
    <3> QED BY <1>21, <3>2, <3>3
  <2> QED BY <2>2, <2>3
<1>25. MissingIsUnreadable'
  <2> SUFFICES ASSUME NEW e \in errors, e.kind = "missing"
               PROVE  Declarations(e.program)'[e.decl] \notin readable
    BY <1>4 DEF MissingIsUnreadable
  <2>1. e.program \in 1..n
    BY <1>1, GraphTypes
  <2> QED BY <1>7, <2>1 DEF GraphInv, MissingIsUnreadable
<1>26. Reported("circular")' <=> Reported("circular")
  BY <1>4 DEF Reported
<1>27. CircularIsACycle'
  BY <1>4, <1>26, GraphKept DEF GraphInv, CircularIsACycle
<1>28. FinishedAreAcyclic'
  BY <1>2, <1>5, <1>15, <1>17, <1>26 DEF GraphInv, FinishedAreAcyclic
<1> QED BY <1>1, <1>11, <1>13, <1>14, <1>16, <1>23, <1>24, <1>25, <1>27, <1>28 DEF GraphInv

\* Without a circular error, the modules of the finished programs have all their imports
\* among them.  So nothing else is below a module whose imports are resolved, and if that
\* module is there, a finished program of it would have been on the cycle before.
LEMMA CompletedIsAcyclic ==
  ASSUME GraphInv, AtEnd, ~Reported("circular")
  PROVE  programs[Current].mod \notin Below(programs[Current].mod)
<1> DEFINE F   == {programs[p].mod : p \in Finished}
           top == programs[Current].mod
<1>1. /\ readable \subseteq Module /\ Current \in 1..Len(programs)
      /\ \A p \in 1..Len(programs) : programs[p].mod \in Module
      /\ \A p \in Finished : p \in 1..Len(programs)
  <2>1. Len(frames) \in 1..Len(frames)
    BY GraphTypes DEF GraphInv, AtEnd, Running
  <2> QED BY <2>1, GraphTypes DEF GraphInv, Finished, Current
<1>2. \A p \in 1..Len(programs) : \A i \in 1..Len(programs[p].edges) :
         Declarations(p)[i] \in readable => Declarations(p)[i] \in F
  <2> SUFFICES ASSUME NEW p \in 1..Len(programs), NEW i \in 1..Len(programs[p].edges),
                      Declarations(p)[i] \in readable
               PROVE  Declarations(p)[i] \in F
    OBVIOUS
  <2>1. CASE programs[p].edges[i] # Unresolved
    BY <2>1 DEF GraphInv, Inv, LinksAreFinished
  <2>2. CASE programs[p].edges[i] = Unresolved
    <3>1. PICK kind \in {"circular", "missing"} :
             [kind |-> kind, program |-> p, decl |-> i] \in errors
      BY <2>2 DEF GraphInv, Inv, HolesAreReported
    <3>2. kind = "missing"
      BY <3>1 DEF Reported
    <3> QED BY <3>1, <3>2 DEF GraphInv, MissingIsUnreadable
  <2> QED BY <2>1, <2>2
<1>3. \A p \in 1..Len(programs) :
         Len(programs[p].edges) = Len(Declarations(p)) => Imported(programs[p].mod) \subseteq F
  BY <1>2 DEF Imported, Declarations
<1>4. Closed(F) /\ F \in SUBSET Module
  BY <1>1, <1>3 DEF Closed, GraphInv, FinishedAreComplete
<1>5. Len(programs[Current].edges) = Len(Declarations(Current))
  <2>1. /\ Len(programs[Current].edges) \in Nat /\ Declarations(Current) \in Seq(Module)
        /\ Len(programs[Current].edges) <= Len(Declarations(Current))
    BY <1>1, GraphTypes DEF GraphInv
  <2>2. Len(programs[Current].edges) + 1 > Len(Declarations(Current))
    BY DEF AtEnd, DeclIndex
  <2>3. Len(Declarations(Current)) \in Nat
    BY <2>1
  <2> QED BY <2>1, <2>2, <2>3
<1>6. Imported(top) \subseteq F
  BY <1>1, <1>3, <1>5
<1>7. Below(top) \subseteq F
  BY <1>1, <1>4, <1>6, BelowFacts
<1>8. \A m \in F : m \notin Below(m)
  BY DEF GraphInv, FinishedAreAcyclic
<1> QED BY <1>7, <1>8

\* A frame that ends adds its program to those that are finished, complete and on no
\* cycle that was not reported.
LEMMA GraphFinish ==
  ASSUME GraphInv, AtEnd, UNCHANGED <<files, errors>>,
         Finished' \subseteq Finished \cup {Current},
         \A q \in Finished \cup {Current} : programs'[q] = programs[q]
  PROVE  FinishedAreComplete' /\ CircularIsACycle' /\ FinishedAreAcyclic'
<1>1. imports' = imports /\ readable' = readable /\ errors' = errors /\ UNCHANGED files
  BY DEF files
<1>2. Current \in 1..Len(programs) /\ \A q \in Finished \cup {Current} : q \in 1..Len(programs)
  <2>1. Len(frames) \in 1..Len(frames)
    BY GraphTypes DEF GraphInv, AtEnd, Running
  <2> QED BY <2>1, GraphTypes DEF GraphInv, Finished, Current
<1>3. \A q \in Finished \cup {Current} :
         /\ programs[q].mod \in Module
         /\ Declarations(q)' = Declarations(q)
  BY <1>1, <1>2, GraphTypes DEF GraphInv, Declarations
<1>4. Len(programs[Current].edges) = Len(Declarations(Current))
  <2>1. /\ Len(programs[Current].edges) \in Nat /\ Declarations(Current) \in Seq(Module)
        /\ Len(programs[Current].edges) <= Len(Declarations(Current))
    BY <1>2, GraphTypes DEF GraphInv
  <2>2. Len(programs[Current].edges) + 1 > Len(Declarations(Current))
    BY DEF AtEnd, DeclIndex
  <2>3. Len(Declarations(Current)) \in Nat
    BY <2>1
  <2> QED BY <2>1, <2>2, <2>3
<1>5. FinishedAreComplete'
  BY <1>3, <1>4 DEF GraphInv, FinishedAreComplete
<1>6. Reported("circular")' <=> Reported("circular")
  BY <1>1 DEF Reported
<1>7. CircularIsACycle'
  BY <1>1, <1>6, GraphKept DEF GraphInv, CircularIsACycle
<1>8. FinishedAreAcyclic'
  BY <1>1, <1>3, <1>6, GraphKept, CompletedIsAcyclic DEF GraphInv, FinishedAreAcyclic
<1> QED BY <1>5, <1>7, <1>8

\* A module returns to its importer (resolve_one).
LEMMA GraphFinishModule ==
  ASSUME GraphInv, FinishModule
  PROVE  GraphInv'
<1> DEFINE n     == Len(programs)
           m     == Len(frames)
           l     == Len(resolveStack)
           under == frames[m - 1]
<1>1. Inv' /\ Inv /\ AtEnd
  BY InvFinishModule DEF GraphInv, FinishModule
<1>2. /\ n \in Nat /\ m \in Nat /\ m > 1 /\ l \in Nat
      /\ \A k \in 1..m : frames[k] \in 1..n
      /\ \A p \in 1..n : programs[p].mod \in Module
      /\ Current = frames[m] /\ m \in 1..m /\ m - 1 \in 1..m /\ m - 1 \in 1..(m - 1)
  <2>1. m \in Nat /\ m > 1
    BY <1>1, GraphTypes DEF FinishModule
  <2>2. m \in 1..m /\ m - 1 \in 1..m /\ m - 1 \in 1..(m - 1)
    BY <2>1
  <2> QED BY <1>1, <2>1, <2>2, GraphTypes DEF Current
<1>3. under \in 1..n /\ Current \in 1..n /\ Current \in Nat /\ under < Current
  <2>1. m - 1 < m
    BY <1>2
  <2> QED BY <1>1, <1>2, <2>1 DEF Inv, FramesNested
<1>4. /\ imports' = imports /\ readable' = readable /\ errors' = errors /\ UNCHANGED files
      /\ programs' = Link(under, Current) /\ frames' = SubSeq(frames, 1, m - 1)
      /\ resolveStack' = Pop
  BY DEF FinishModule, files
<1>5. Len(frames') = m - 1 /\ \A k \in 1..(m - 1) : k \in 1..m /\ frames'[k] = frames[k]
  <2>1. frames \in Seq(Nat)
    BY <1>1 DEF Inv, TypeOK
  <2> QED BY <1>2, <1>4, <2>1
<1>6. Declarations(under)[Len(programs[under].edges) + 1] = programs[Current].mod
  <2>1. (m - 1) + 1 = m
    BY <1>2
  <2> QED BY <1>1, <1>2, <2>1 DEF Inv, FramesWait
<1>7. programs[Current].mod \in Mods
  BY <1>3 DEF Mods
<1>8. /\ Len(programs') = n
      /\ \A q \in 1..n : /\ programs'[q].mod = programs[q].mod
                         /\ Declarations(q)' = Declarations(q)
                         /\ q # under => programs'[q] = programs[q]
      /\ RootIsRead' /\ ReadsOnlyReachable' /\ ImportsAreRead'
  BY <1>1, <1>3, <1>4, <1>6, <1>7, GraphLink DEF GraphInv
<1>9. \A q \in Finished' : q \in Finished \cup {Current}
  <2>1. \A k \in 1..m : k \in 1..(m - 1) \/ k = m
    BY <1>2
  <2>2. Open \subseteq Open' \cup {Current}
    BY <1>2, <1>5, <2>1 DEF Open
  <2> QED BY <1>8, <2>2 DEF Finished
<1>10. \A q \in Finished \cup {Current} : q # under /\ q \in 1..n
  <2>1. under \in Open
    BY <1>2 DEF Open
  <2> QED BY <1>3, <2>1 DEF Finished
<1>11. FinishedAreComplete' /\ CircularIsACycle' /\ FinishedAreAcyclic'
  BY <1>1, <1>4, <1>8, <1>9, <1>10, GraphFinish
<1>12. \A k \in 1..m : programs'[frames[k]].mod = programs[frames[k]].mod
                      /\ programs[frames[k]].mod \in Module
  BY <1>2, <1>8
<1>13. FramesAreBelow'
  BY <1>4, <1>5, <1>12, GraphKept DEF GraphInv, FramesAreBelow
<1>14. StackIsBeingLoaded'
  <2>1. resolveStack \in Seq(Module)
    BY <1>1 DEF Inv, TypeOK
  <2>2. CASE l = 0
    <3>1. Len(Pop) = 0
      BY <2>1, <2>2 DEF Pop
    <3> QED BY <1>4, <3>1 DEF StackIsBeingLoaded
  <2>3. CASE l > 0
    <3>1. Len(Pop) = l - 1 /\ \A k \in 1..Len(Pop) : k \in 1..l /\ Pop[k] = resolveStack[k]
      BY <2>1, <2>3, PopMembers
    <3> SUFFICES ASSUME NEW k \in 1..(l - 1)
                 PROVE  \E j \in 2..(m - 1 - (l - 1) + k) : programs'[frames'[j]].mod = Pop[k]
      BY <1>4, <1>5, <3>1 DEF StackIsBeingLoaded
    <3>2. k \in 1..l
      BY <1>2
    <3>3. PICK j \in 2..(m - l + k) : programs[frames[j]].mod = resolveStack[k]
      BY <3>2 DEF GraphInv, StackIsBeingLoaded
    <3>4. j \in 2..(m - 1 - (l - 1) + k) /\ j \in 1..(m - 1) /\ j \in 1..m
      BY <1>2
    <3> QED BY <1>5, <1>12, <3>1, <3>3, <3>4
  <2> QED BY <1>2, <2>2, <2>3
<1>15. MissingIsUnreadable'
  <2> SUFFICES ASSUME NEW e \in errors, e.kind = "missing"
               PROVE  Declarations(e.program)'[e.decl] \notin readable
    BY <1>4 DEF MissingIsUnreadable
  <2>1. e.program \in 1..n
    BY <1>1, GraphTypes
  <2> QED BY <1>8, <2>1 DEF GraphInv, MissingIsUnreadable
<1> QED BY <1>1, <1>8, <1>11, <1>13, <1>14, <1>15 DEF GraphInv

\* The root's imports are resolved and no frame is left.
LEMMA GraphFinishRoot ==
  ASSUME GraphInv, FinishRoot
  PROVE  GraphInv'
<1>1. Inv' /\ Inv /\ AtEnd
  BY InvFinishRoot DEF GraphInv, FinishRoot
<1>2. /\ imports' = imports /\ readable' = readable /\ errors' = errors /\ UNCHANGED files
      /\ programs' = programs /\ resolveStack' = resolveStack /\ frames' = << >>
      /\ Len(frames) = 1
  BY DEF FinishRoot, files
<1>3. Len(frames') = 0 /\ Current = frames[1]
  BY <1>2 DEF Current
<1>4. \A q \in Finished' : q \in Finished \cup {Current}
  BY <1>2, <1>3 DEF Finished, Open
<1>5. FinishedAreComplete' /\ CircularIsACycle' /\ FinishedAreAcyclic'
  BY <1>1, <1>2, <1>4, GraphFinish
<1>6. Len(resolveStack) = 0
  <2>1. Len(resolveStack) \in Nat
    BY <1>1, GraphTypes
  <2>2. ASSUME NEW k \in 1..Len(resolveStack)
        PROVE  FALSE
    <3>1. PICK j \in 2..(1 - Len(resolveStack) + k) : TRUE
      BY <1>2 DEF GraphInv, StackIsBeingLoaded
    <3> QED BY <2>1, <3>1
  <2>3. Len(resolveStack) > 0 => 1 \in 1..Len(resolveStack)
    BY <2>1
  <2> QED BY <2>1, <2>2, <2>3
<1>7. StackIsBeingLoaded' /\ FramesAreBelow'
  BY <1>2, <1>3, <1>6 DEF StackIsBeingLoaded, FramesAreBelow
<1>8. RootIsRead' /\ ImportsAreRead' /\ MissingIsUnreadable'
  BY <1>2 DEF GraphInv, RootIsRead, Mods, ImportsAreRead, MissingIsUnreadable, Declarations
<1>9. ReadsOnlyReachable'
  BY <1>2, GraphKept DEF GraphInv, ReadsOnlyReachable
<1> QED BY <1>1, <1>5, <1>7, <1>8, <1>9 DEF GraphInv

\* A step that changes nothing keeps the invariant of the graph.
LEMMA GraphStutter ==
  ASSUME GraphInv, UNCHANGED vars
  PROVE  GraphInv'
<1>1. Inv'
  BY InvStutter DEF GraphInv
<1>2. /\ imports' = imports /\ readable' = readable /\ errors' = errors /\ UNCHANGED files
      /\ programs' = programs /\ resolveStack' = resolveStack /\ frames' = frames
  BY DEF vars, files
<1>3. /\ RootIsRead' /\ ImportsAreRead' /\ MissingIsUnreadable' /\ FinishedAreComplete'
      /\ StackIsBeingLoaded'
  BY <1>2 DEF GraphInv, RootIsRead, Mods, ImportsAreRead, MissingIsUnreadable, Declarations,
              FinishedAreComplete, StackIsBeingLoaded, Finished, Open
<1>4. ReadsOnlyReachable' /\ CircularIsACycle'
  BY <1>2, GraphKept DEF GraphInv, ReadsOnlyReachable, CircularIsACycle, Reported
<1>5. /\ \A p \in 1..Len(programs) : programs[p].mod \in Module
      /\ \A k \in 1..Len(frames) : frames[k] \in 1..Len(programs)
      /\ \A p \in Finished : p \in 1..Len(programs)
  BY GraphTypes DEF GraphInv, Finished
<1>6. FramesAreBelow' /\ FinishedAreAcyclic'
  BY <1>2, <1>5, GraphKept DEF GraphInv, FramesAreBelow, FinishedAreAcyclic, Reported,
                              Finished, Open
<1> QED BY <1>1, <1>3, <1>4, <1>6 DEF GraphInv

\* The invariant of the graph holds in every reachable state.
LEMMA GraphInvHolds == Spec => []GraphInv
<1>1. GraphInv /\ [Next]_vars => GraphInv'
  BY GraphUseCached, GraphReportCircular, GraphReportMissing, GraphLoadModule,
     GraphFinishModule, GraphFinishRoot, GraphStutter DEF Next
<1> QED BY <1>1, GraphInit, PTL DEF Spec

\* When the resolution ends, every program is finished.
LEMMA DoneIsFinished ==
  ASSUME GraphInv, Done
  PROVE  Finished = 1..Len(programs)
<1>1. Len(frames) = 0
  BY DEF Done, Running
<1> QED BY <1>1 DEF Finished, Open

------------------------------------------------------------------------------
(* The theorems *)

\* The resolver reads the root and what it imports, directly or not, and no other file
\* (resolve_imports, resolve_one), for all files and all sizes of the cache and stack.
THEOREM ReachableRead == Spec => []ReadsTheReachable
<1>1. ASSUME GraphInv, Done
      PROVE  Mods = Reachable
  <2>1. readable \subseteq Module /\ Root \in Module
    BY <1>1, GraphTypes, ResolverAssumption DEF GraphInv
  <2>2. Mods \in SUBSET Module
    BY GraphTypes, <1>1 DEF Mods, GraphInv
  <2>3. Mods \subseteq Reachable
    BY <1>1 DEF Mods, GraphInv, ReadsOnlyReachable
  <2>4. \A p \in 1..Len(programs) : Len(programs[p].edges) = Len(Declarations(p))
    BY <1>1, DoneIsFinished DEF GraphInv, FinishedAreComplete
  <2>5. \A p \in 1..Len(programs) : Imported(programs[p].mod) \subseteq Mods
    BY <1>1, <2>4 DEF Imported, Declarations, GraphInv, ImportsAreRead
  <2>6. Closed(Mods)
    BY <2>5 DEF Closed, Mods
  <2>7. Root \in Mods
    BY <1>1 DEF GraphInv, RootIsRead
  <2>8. Imported(Root) \subseteq Mods
    BY <2>6, <2>7 DEF Closed
  <2>9. Below(Root) \subseteq Mods
    BY <2>1, <2>2, <2>6, <2>8, BelowFacts
  <2> QED BY <2>3, <2>7, <2>9 DEF Reachable
<1>2. GraphInv => ReadsTheReachable
  BY <1>1 DEF ReadsTheReachable, Mods
<1> QED BY <1>2, GraphInvHolds, PTL

\* A circular import is reported exactly when a file that is read imports itself,
\* directly or not (stack_contains in resolve_one), for all files and all sizes of the
\* cache and the stack, whichever way the resolver enters the cycle.
THEOREM CyclesReported == Spec => []CyclesAreReported
<1>1. ASSUME GraphInv, Done, ReadsTheReachable, ~Reported("circular")
      PROVE  ~CyclicImports
  <2>1. \A p \in 1..Len(programs) : programs[p].mod \notin Below(programs[p].mod)
    BY <1>1, DoneIsFinished DEF GraphInv, FinishedAreAcyclic
  <2> QED BY <1>1, <2>1 DEF ReadsTheReachable, CyclicImports
<1>2. GraphInv /\ ReadsTheReachable => CyclesAreReported
  BY <1>1 DEF GraphInv, CircularIsACycle, CyclesAreReported
<1> QED BY <1>2, ReachableRead, GraphInvHolds, PTL

==============================================================================
