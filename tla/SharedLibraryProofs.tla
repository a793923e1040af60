------------------------- MODULE SharedLibraryProofs -------------------------
(***************************************************************************)
(* The properties of SharedLibrary hold for any number of threads,         *)
(* objects, handles and paths.                                             *)
(***************************************************************************)
EXTENDS SharedLibraryInv, Counting

USE LoaderAssumption, SharedLibraryAssumption

-----------------------------------------------------------------------------
LEMMA ObjectsFinite == IsFiniteSet(Objects)
BY FS_Union DEF Objects

LEMMA TypeInit == Init => TypeOK
BY DEF Init, LoaderInit, TypeOK, LoaderTypeOK, Objects, Files, Opened, Labels,
       Errors


LEMMA HolderHasRef ==
    ASSUME RefsExact, NEW o \in Objects, Owned[o] \in Opened
    PROVE  refs[Owned[o]] # 0
<1> DEFINE h == Owned[o]
<1>1. o \in Holders(h) /\ Holders(h) \subseteq Objects
  BY DEF Holders
<1>2. IsFiniteSet(Holders(h))
  BY <1>1, ObjectsFinite, FS_Subset
<1>3. Cardinality(Holders(h)) # 0
  BY <1>1, <1>2, FS_EmptySet
<1> QED BY <1>3 DEF RefsExact

\* Two threads in the middle of an operation work on different objects.
LEMMA Disjoint ==
    ASSUME TypeOK, Exclusive, \A t \in Threads : CallInv(t),
           NEW t \in Threads, NEW u \in Threads, t # u,
           pc[t] \notin {"idle", "done"}, pc[u] \notin {"idle", "done"}
    PROVE  obj[t] # obj[u]
<1>1. /\ call[t] \in Calls /\ obj[t] \in {call[t].dst, t}
      /\ call[u] \in Calls /\ obj[u] \in {call[u].dst, u}
  BY DEF CallInv
<1>2. call[t].dst \in Insts /\ call[u].dst \in Insts
  BY <1>1 DEF Calls
<1>3. call[t].dst # call[u].dst
  <2>1. Writes(call[t]) \cap Uses(call[u]) = {}
    BY DEF Exclusive
  <2>2. call[t].dst \in Writes(call[t]) /\ call[u].dst \in Uses(call[u])
    BY DEF Writes, Uses
  <2> QED BY <2>1, <2>2
<1> QED BY <1>1, <1>2, <1>3

\* The object of a thread that is past "reset" is not closed.
LEMMA NotClosed ==
    ASSUME TypeOK, Exclusive, \A t \in Threads : CallInv(t),
           NEW t \in Threads, pc[t] \notin {"idle", "done", "reset"}
    PROVE  ~Closed(obj[t])
BY Disjoint DEF Closed

LEMMA TypeStep == IInv /\ [Next]_vars => TypeOK'
<1> SUFFICES ASSUME IInv, Next PROVE TypeOK'
  BY DEF vars, IInv, TypeOK, LoaderTypeOK
<1> USE DEF IInv, TypeOK, LoaderTypeOK, loaderVars, opVars, Objects, Labels,
            Errors, Opened, Files, Goto, SetError
<1>1. CASE FileSystem
  BY <1>1 DEF FileSystem, FileChange
<1>2. ASSUME NEW t \in Threads, Begin(t) PROVE TypeOK'
  <2> USE DEF Start, Calls, Ops, Swapped
  <2>1. ASSUME NEW o \in Insts, NEW p \in Requested, NEW d \in BOOLEAN,
               BeginLoad(t, o, p, d)
        PROVE  TypeOK'
    BY <2>1 DEF BeginLoad
  <2>2. ASSUME NEW o \in Insts, BeginUnload(t, o) PROVE TypeOK'
    BY <2>2 DEF BeginUnload
  <2>3. ASSUME NEW o \in Insts, NEW s \in Insts, BeginAssign(t, o, s)
        PROVE  TypeOK'
    BY <2>3 DEF BeginAssign, AssignLabel
  <2>4. ASSUME NEW o \in Insts, NEW s \in Insts, MoveConstruct(t, o, s)
        PROVE  TypeOK'
    BY <2>4 DEF MoveConstruct
  <2>5. ASSUME NEW o \in Insts, NEW s \in Insts, MoveAssign(t, o, s)
        PROVE  TypeOK'
    BY <2>5 DEF MoveAssign
  <2>6. ASSUME NEW o \in Insts, NEW s \in Insts, SwapObjects(t, o, s)
        PROVE  TypeOK'
    BY <2>6 DEF SwapObjects
  <2> QED BY ONLY <1>2, <2>1, <2>2, <2>3, <2>4, <2>5, <2>6 DEF Begin
<1>3. ASSUME NEW t \in Threads, Step(t) PROVE TypeOK'
  <2> USE DEF AfterUnload, IsLoad, Attempt, Loaded
  <2>1. CASE UnloadNothing(t)
    BY <2>1 DEF UnloadNothing
  <2>2. CASE UnloadClose(t)
    <3>1. ~Closed(obj[t])
      BY <2>2, NotClosed DEF UnloadClose
    <3>2. Owned[obj[t]] = handle[obj[t]]
      BY <3>1 DEF Owned
    <3>3. refs[handle[obj[t]]] # 0 /\ handle[obj[t]] \in Opened
      BY <2>2, <3>2, HolderHasRef DEF UnloadClose
    <3>4. refs[handle[obj[t]]] - 1 \in Nat
      BY <3>3
    <3> QED BY <2>2, <3>3, <3>4 DEF UnloadClose, Dlclose
  <2>3. CASE UnloadReset(t)
    BY <2>3 DEF UnloadReset
  <2>4. CASE OpenDecorated(t)
    BY <2>4, SMTT(30) DEF OpenDecorated, CallInv, Dlopen, DlopenFails, ReopenByName,
                ReopenByFile, MapNew
  <2>5. CASE CheckDecorated(t)
    BY <2>5 DEF CheckDecorated
  <2>6. CASE OpenExact(t)
    BY <2>6, SMTT(30) DEF OpenExact, CallInv, Dlopen, DlopenFails, ReopenByName,
                ReopenByFile, MapNew
  <2>7. CASE NotSelf(t)
    BY <2>7 DEF NotSelf
  <2>8. CASE OpenSelf(t)
    BY <2>8 DEF OpenSelf, DlopenMain, DlopenFails
  <2>9. CASE Location(t)
    <3>1. call[t] \in Calls /\ call[t].op = "assign"
      BY <2>9 DEF Location, CallInv
    <3>2. call[t].src \in Insts /\ handle[call[t].src] # NULL
      BY <2>9, <3>1 DEF Location, AssignInv, Calls
    <3>3. handle[call[t].src] \in Handles \cup {Main}
      BY <3>2
    <3>4. ProgramLocation \in Paths
      BY DEF ProgramLocation
    <3>5. fs' = fs /\ handle' = handle /\ call' = call
          /\ UNCHANGED <<refs, names, lname, image>>
      BY <2>9 DEF Location
    <3>6. /\ pc' \in [Threads -> Labels] /\ ec' \in [Threads -> Errors]
          /\ obj' \in [Threads -> Objects]
          /\ path' \in [Threads -> Paths \cup {EmptyPath}]
      BY <2>9, <3>3, <3>4 DEF Location
    <3> QED BY <3>5, <3>6
  <2>10. CASE SwapCopy(t)
    BY <2>10 DEF SwapCopy, CallInv, Calls, Swapped
  <2>11. CASE Return(t)
    BY <2>11 DEF Return
  <2> QED BY ONLY <1>3, <2>1, <2>2, <2>3, <2>4, <2>5, <2>6, <2>7, <2>8, <2>9,
             <2>10, <2>11 DEF Step
<1> QED BY <1>1, <1>2, <1>3 DEF Next

-----------------------------------------------------------------------------
(* RefsExact: a step leaves Owned alone, changes one object, or exchanges  *)
(* two.                                                                    *)
LEMMA RefsSame ==
    ASSUME RefsExact, Owned' = Owned, refs' = refs PROVE RefsExact'
<1>1. \A h : Holders(h)' = Holders(h)
  BY DEF Holders
<1> QED BY <1>1 DEF RefsExact

LEMMA RefsChange ==
    ASSUME RefsExact, NEW x \in Objects, Owned'[x] # Owned[x],
           \A y \in Objects : y # x => Owned'[y] = Owned[y],
           \A h \in Opened : refs'[h] = IF h = Owned'[x] THEN refs[h] + 1
                                        ELSE IF h = Owned[x] THEN refs[h] - 1
                                        ELSE refs[h]
    PROVE  RefsExact'
<1>1. DOMAIN Owned = Objects /\ DOMAIN Owned' = Objects
  BY DEF Owned
<1>2. ASSUME NEW h \in Opened PROVE refs'[h] = Cardinality(Holders(h)')
  <2>1. /\ Holders(h) = {o \in DOMAIN Owned : Owned[o] = h}
        /\ Holders(h)' = {o \in DOMAIN Owned' : Owned'[o] = h}
    BY <1>1 DEF Holders
  <2>2. refs[h] = Count(Owned, h) /\ Cardinality(Holders(h)') = Count(Owned', h)
    BY <2>1 DEF RefsExact, Count
  <2> DEFINE f == Owned
             g == Owned'
  <2> HIDE DEF f, g
  <2>3. /\ DOMAIN f = Objects /\ DOMAIN g = Objects /\ f[x] # g[x]
        /\ \A y \in Objects : y # x => g[y] = f[y]
    BY <1>1 DEF f, g
  <2>4. Count(g, h) = IF h = g[x] THEN Count(f, h) + 1
                      ELSE IF h = f[x] THEN Count(f, h) - 1
                      ELSE Count(f, h)
    BY <2>3, ObjectsFinite, CountChange
  <2> QED BY <2>2, <2>4 DEF f, g
<1> QED BY <1>2 DEF RefsExact

LEMMA RefsExchange ==
    ASSUME RefsExact, NEW x \in Objects, NEW y \in Objects,
           Owned'[x] = Owned[y], Owned'[y] = Owned[x],
           \A z \in Objects : z \notin {x, y} => Owned'[z] = Owned[z],
           refs' = refs
    PROVE  RefsExact'
<1>1. DOMAIN Owned = Objects /\ DOMAIN Owned' = Objects
  BY DEF Owned
<1>2. ASSUME NEW h \in Opened PROVE refs'[h] = Cardinality(Holders(h)')
  <2>1. /\ Holders(h) = {o \in DOMAIN Owned : Owned[o] = h}
        /\ Holders(h)' = {o \in DOMAIN Owned' : Owned'[o] = h}
    BY <1>1 DEF Holders
  <2>2. refs[h] = Count(Owned, h) /\ Cardinality(Holders(h)') = Count(Owned', h)
    BY <2>1 DEF RefsExact, Count
  <2> DEFINE f == Owned
             g == Owned'
  <2> HIDE DEF f, g
  <2>3. /\ DOMAIN f = Objects /\ DOMAIN g = Objects
        /\ g[x] = f[y] /\ g[y] = f[x]
        /\ \A z \in Objects : z \notin {x, y} => g[z] = f[z]
    BY <1>1 DEF f, g
  <2>4. Count(g, h) = Count(f, h)
    BY <2>3, ObjectsFinite, CountExchange
  <2> QED BY <2>2, <2>4 DEF f, g
<1> QED BY <1>2 DEF RefsExact

\* No thread is about to reset an object another one starts to use.
LEMMA UsedNotClosed ==
    ASSUME IInv, NEW t \in Threads, pc[t] = "idle",
           NEW c \in Calls, RaceFree(t, c), NEW o \in Uses(c)
    PROVE  ~Closed(o)
<1> SUFFICES ASSUME NEW u \in Threads, pc[u] = "reset", obj[u] = o
             PROVE  FALSE
  BY DEF Closed
<1>1. u # t /\ call[u] \in Calls /\ obj[u] \in {call[u].dst, u} /\ o \in Insts
  BY DEF IInv, CallInv, Uses, Calls
<1>2. o = call[u].dst
  BY <1>1
<1>3. call[u].dst \in Writes(call[u])
  BY DEF Writes
<1> QED BY <1>1, <1>2, <1>3 DEF RaceFree

\* Which objects are closed depends on the threads at "reset" only.
LEMMA ClosedSame ==
    ASSUME \A u \in Threads : /\ (pc'[u] = "reset") <=> (pc[u] = "reset")
                              /\ pc[u] = "reset" => obj'[u] = obj[u],
           NEW o
    PROVE  Closed(o)' <=> Closed(o)
BY DEF Closed

LEMMA OwnedSame ==
    ASSUME \A u \in Threads : /\ (pc'[u] = "reset") <=> (pc[u] = "reset")
                              /\ pc[u] = "reset" => obj'[u] = obj[u],
           handle' = handle
    PROVE  Owned' = Owned
<1>1. \A o : Closed(o)' <=> Closed(o)
  BY ClosedSame
<1> QED BY <1>1 DEF Owned

\* An attempt that got a library gives it to the object, which had none.
LEMMA OwnedAttempt ==
    ASSUME IInv, NEW t \in Threads,
           pc[t] \in {"decorated", "exact", "self"},
           NEW h \in Opened \cup {NULL}, NEW l1, NEW l2,
           l1 # "reset", l2 # "reset", Attempt(t, h, l1, l2)
    PROVE  /\ Owned[obj[t]] = NULL /\ Owned'[obj[t]] = h
           /\ \A o \in Objects : o # obj[t] => Owned'[o] = Owned[o]
           /\ obj[t] \in Objects
<1>1. ~Closed(obj[t]) /\ handle[obj[t]] = NULL /\ obj[t] \in Objects
  BY NotClosed DEF IInv, CallInv, TypeOK
<1>2. pc' = [pc EXCEPT ![t] = IF h # NULL THEN l1 ELSE l2] /\ obj' = obj
      /\ handle' = [handle EXCEPT ![obj[t]] = h]
  BY DEF Attempt, Goto
<1>3. \A o : Closed(o)' <=> Closed(o)
  BY <1>2, ClosedSame DEF IInv, TypeOK
<1> QED BY <1>1, <1>2, <1>3 DEF Owned, IInv, TypeOK

LEMMA RefsDlopen ==
    ASSUME IInv, NEW t \in Threads, pc[t] \in {"decorated", "exact", "self"},
           NEW h \in Opened \cup {NULL}, NEW l1, NEW l2,
           l1 # "reset", l2 # "reset", Attempt(t, h, l1, l2),
           \/ h = NULL /\ refs' = refs
           \/ h \in Opened /\ refs' = [refs EXCEPT ![h] = @ + 1]
    PROVE  RefsExact'
<1>1. /\ Owned[obj[t]] = NULL /\ Owned'[obj[t]] = h
      /\ \A o \in Objects : o # obj[t] => Owned'[o] = Owned[o]
      /\ obj[t] \in Objects
  BY OwnedAttempt
<1>2. CASE h = NULL /\ refs' = refs
  <2>1. Owned' = Owned
    BY <1>1, <1>2 DEF Owned
  <2> QED BY <2>1, <1>2, RefsSame DEF IInv
<1>3. CASE h \in Opened /\ refs' = [refs EXCEPT ![h] = @ + 1]
  <2>1. Owned'[obj[t]] # Owned[obj[t]] /\ NULL \notin Opened
    BY <1>1, <1>3 DEF Opened
  <2>2. \A g \in Opened : refs'[g] = IF g = Owned'[obj[t]] THEN refs[g] + 1
                                     ELSE IF g = Owned[obj[t]] THEN refs[g] - 1
                                     ELSE refs[g]
    BY <1>1, <1>3, <2>1 DEF IInv, TypeOK, LoaderTypeOK
  <2> QED BY <1>1, <2>1, <2>2, RefsChange DEF IInv
<1> QED BY <1>2, <1>3

\* dlopen returns null, or counts one more reference to what it returns.
LEMMA DlopenRefs ==
    ASSUME IInv, NEW p, NEW h, Dlopen(p, h)
    PROVE  \/ h = NULL /\ refs' = refs
           \/ h \in Opened /\ refs' = [refs EXCEPT ![h] = @ + 1]
<1>1. CASE MapNew(p, h)
  <2>1. h \in Opened /\ refs[h] = 0
    BY <1>1 DEF MapNew, Mapped, Opened, IInv, TypeOK, LoaderTypeOK
  <2> QED BY <1>1, <2>1 DEF MapNew
<1> QED BY <1>1 DEF Dlopen, ReopenByName, ReopenByFile, DlopenFails,
                    loaderVars, Opened

\* The steps that neither open nor close a library nor move one.
Quiet ==
    \/ FileSystem
    \/ \E t \in Threads, o \in Insts :
          \/ \E p \in Requested, d \in BOOLEAN : BeginLoad(t, o, p, d)
          \/ BeginUnload(t, o)
          \/ \E s \in Insts : BeginAssign(t, o, s)
    \/ \E t \in Threads :
          \/ UnloadNothing(t) \/ UnloadReset(t) \/ CheckDecorated(t)
          \/ NotSelf(t) \/ Location(t) \/ Return(t)

LEMMA OwnedQuiet ==
    ASSUME IInv, Quiet PROVE Owned' = Owned /\ refs' = refs
<1> USE DEF Goto, SetError, loaderVars, opVars, Start
<1>1. CASE FileSystem
  BY <1>1, OwnedSame DEF FileSystem, FileChange
<1>2. ASSUME NEW t \in Threads, NEW o \in Insts,
             \/ \E p \in Requested, d \in BOOLEAN : BeginLoad(t, o, p, d)
             \/ BeginUnload(t, o)
             \/ \E s \in Insts : BeginAssign(t, o, s)
      PROVE  Owned' = Owned /\ refs' = refs
  BY <1>2, OwnedSame, ZenonT(40)
     DEF BeginLoad, BeginUnload, BeginAssign, AssignLabel, IInv, TypeOK
<1>3. ASSUME NEW t \in Threads, UnloadReset(t)
      PROVE  Owned' = Owned /\ refs' = refs
  <2>1. pc[t] = "reset" /\ Closed(obj[t]) /\ obj' = obj /\ refs' = refs
        /\ handle' = [handle EXCEPT ![obj[t]] = NULL]
        /\ pc'[t] # "reset" /\ \A u \in Threads \ {t} : pc'[u] = pc[u]
    BY <1>3 DEF UnloadReset, Closed, AfterUnload, IInv, TypeOK
  <2>2. \A o \in Objects : o # obj[t] => (Closed(o)' <=> Closed(o))
    BY <2>1 DEF Closed
  <2> QED BY <2>1, <2>2 DEF Owned, IInv, TypeOK
<1>4. ASSUME NEW t \in Threads,
             \/ UnloadNothing(t) \/ CheckDecorated(t) \/ NotSelf(t)
             \/ Location(t) \/ Return(t)
      PROVE  Owned' = Owned /\ refs' = refs
  BY <1>4, OwnedSame DEF UnloadNothing, AfterUnload, CheckDecorated, NotSelf,
     Location, Return, IInv, TypeOK
<1> QED BY <1>1, <1>2, <1>3, <1>4 DEF Quiet

\* dlclose takes the library of the object away.
LEMMA OwnedClose ==
    ASSUME IInv, NEW t \in Threads, UnloadClose(t)
    PROVE  /\ obj[t] \in Objects /\ Owned[obj[t]] = handle[obj[t]]
           /\ handle[obj[t]] \in Opened
           /\ Owned'[obj[t]] = NULL
           /\ \A o \in Objects : o # obj[t] => Owned'[o] = Owned[o]
           /\ refs' = [refs EXCEPT ![handle[obj[t]]] = @ - 1]
<1>1. ~Closed(obj[t]) /\ obj[t] \in Objects /\ handle[obj[t]] \in Opened
  BY NotClosed DEF UnloadClose, IInv, TypeOK
<1>2. \A o : Closed(o)' <=> Closed(o) \/ o = obj[t]
  BY DEF UnloadClose, Closed, IInv, TypeOK, Goto, opVars
<1> QED BY <1>1, <1>2 DEF UnloadClose, Owned, Dlclose

\* assign() exchanges the libraries of *this and of its temporary.
LEMMA OwnedSwapCopy ==
    ASSUME IInv, NEW t \in Threads, SwapCopy(t)
    PROVE  /\ call[t].dst \in Insts /\ t \in Objects
           /\ Owned[t] = handle[t]
           /\ Owned'[call[t].dst] = Owned[t] /\ Owned'[t] = Owned[call[t].dst]
           /\ \A o \in Objects : o \notin {call[t].dst, t} => Owned'[o] = Owned[o]
<1> DEFINE d == call[t].dst
<1>1. d \in Insts /\ d \in Objects /\ t \in Objects
  BY DEF SwapCopy, IInv, CallInv, Calls, Objects
<1>2. ~Closed(d) /\ ~Closed(t)
  <2> SUFFICES ASSUME NEW u \in Threads, pc[u] = "reset", obj[u] \in {d, t}
               PROVE  FALSE
    BY DEF Closed
  <2>1. u # t /\ pc[t] = "swap" /\ call[u] \in Calls
        /\ obj[u] \in {call[u].dst, u}
    BY DEF SwapCopy, IInv, CallInv
  <2>2. call[u].dst \in Insts /\ call[u].dst = d
    BY <1>1, <2>1 DEF Calls
  <2>3. Writes(call[t]) \cap Uses(call[u]) = {}
    BY <2>1 DEF IInv, Exclusive
  <2>4. d \in Writes(call[t]) /\ d \in Uses(call[u])
    BY <2>2 DEF Writes, Uses
  <2> QED BY <2>3, <2>4
<1>3. \A x : Closed(x)' <=> Closed(x)
  BY ClosedSame DEF SwapCopy, IInv, TypeOK, Goto, opVars
<1> QED BY <1>1, <1>2, <1>3 DEF SwapCopy, Owned, Swapped, IInv, TypeOK

\* A move or a swap exchanges the libraries of two objects, or does nothing.
LEMMA OwnedMove ==
    ASSUME IInv, NEW t \in Threads, NEW o \in Insts, NEW s \in Insts,
           MoveConstruct(t, o, s) \/ MoveAssign(t, o, s) \/ SwapObjects(t, o, s)
    PROVE  /\ refs' = refs
           /\ \/ Owned' = Owned
              \/ /\ Owned'[o] = Owned[s] /\ Owned'[s] = Owned[o]
                 /\ \A x \in Objects : x \notin {o, s} => Owned'[x] = Owned[x]
<1> USE DEF Start, Goto, SetError, loaderVars
<1>1. PICK op \in {"move_construct", "move_assign", "swap"} :
         Start(t, [op |-> op, dst |-> o, src |-> s], "done")
  BY DEF MoveConstruct, MoveAssign, SwapObjects
<1> DEFINE c == [op |-> op, dst |-> o, src |-> s]
<1>2. c \in Calls /\ pc[t] = "idle" /\ RaceFree(t, c)
      /\ o \in Uses(c) /\ s \in Uses(c)
  BY <1>1 DEF Calls, Uses, Ops
<1>3. ~Closed(o) /\ ~Closed(s)
  BY <1>2, UsedNotClosed
<1>4. \A x : Closed(x)' <=> Closed(x)
  BY <1>1, ClosedSame
     DEF MoveConstruct, MoveAssign, SwapObjects, IInv, TypeOK
<1>5. handle' = Swapped(o, s) \/ handle' = handle
  BY DEF MoveConstruct, MoveAssign, SwapObjects, Swapped
<1>6. CASE handle' = handle
  BY <1>4, <1>6 DEF Owned, MoveConstruct, MoveAssign, SwapObjects
<1>7. CASE handle' = Swapped(o, s)
  BY <1>3, <1>4, <1>7 DEF Owned, Swapped, IInv, TypeOK, Objects,
     MoveConstruct, MoveAssign, SwapObjects
<1> QED BY <1>5, <1>6, <1>7

\* Every step, as the loader sees it.
LEMMA NextCases ==
    ASSUME Next
    PROVE  \/ Quiet
           \/ \E t \in Threads, o \in Insts, s \in Insts :
                 \/ MoveConstruct(t, o, s) \/ MoveAssign(t, o, s)
                 \/ SwapObjects(t, o, s)
           \/ \E t \in Threads :
                 \/ UnloadClose(t) \/ OpenDecorated(t) \/ OpenExact(t)
                 \/ OpenSelf(t) \/ SwapCopy(t)
BY DEF Next, Begin, Step, Quiet

\* The three ways a load tries to get a library.
LEMMA OpenCases ==
    ASSUME IInv, NEW t \in Threads,
           OpenDecorated(t) \/ OpenExact(t) \/ OpenSelf(t)
    PROVE  \E h \in Opened \cup {NULL},
              l1 \in {"done", Loaded(t)}, l2 \in {"exists", "self", "done"} :
              /\ pc[t] \in {"decorated", "exact", "self"}
              /\ Attempt(t, h, l1, l2)
              /\ \/ h = NULL /\ refs' = refs
                 \/ h \in Opened /\ refs' = [refs EXCEPT ![h] = @ + 1]
<1>1. CASE OpenDecorated(t)
  BY <1>1, DlopenRefs DEF OpenDecorated, Opened
<1>2. CASE OpenExact(t)
  BY <1>2, DlopenRefs DEF OpenExact, Opened
<1>3. CASE OpenSelf(t)
  BY <1>3 DEF OpenSelf, DlopenMain, DlopenFails, loaderVars, Opened
<1> QED BY <1>1, <1>2, <1>3

LEMMA RefsStep == IInv /\ [Next]_vars => RefsExact'
<1> SUFFICES ASSUME IInv, Next PROVE RefsExact'
  BY RefsSame DEF vars, IInv, RefsExact, Holders, Owned, Closed
<1>1. CASE Quiet
  BY <1>1, OwnedQuiet, RefsSame DEF IInv
<1>2. ASSUME NEW t \in Threads, NEW o \in Insts, NEW s \in Insts,
             MoveConstruct(t, o, s) \/ MoveAssign(t, o, s) \/ SwapObjects(t, o, s)
      PROVE  RefsExact'
  BY <1>2, OwnedMove, RefsSame, RefsExchange DEF IInv, Objects
<1>3. ASSUME NEW t \in Threads, UnloadClose(t) PROVE RefsExact'
  <2>1. \A g \in Opened : refs'[g] = IF g = Owned'[obj[t]] THEN refs[g] + 1
                                     ELSE IF g = Owned[obj[t]] THEN refs[g] - 1
                                     ELSE refs[g]
    BY <1>3, OwnedClose DEF IInv, TypeOK, LoaderTypeOK, Opened
  <2>2. Owned'[obj[t]] # Owned[obj[t]]
    BY <1>3, OwnedClose DEF Opened
  <2> QED BY <1>3, <2>1, <2>2, OwnedClose, RefsChange DEF IInv
<1>4. ASSUME NEW t \in Threads, OpenDecorated(t) \/ OpenExact(t) \/ OpenSelf(t)
      PROVE  RefsExact'
  <2>1. Loaded(t) # "reset"
    BY DEF Loaded
  <2> QED BY <1>4, <2>1, OpenCases, RefsDlopen
<1>5. ASSUME NEW t \in Threads, SwapCopy(t) PROVE RefsExact'
  BY <1>5, OwnedSwapCopy, RefsExchange DEF SwapCopy, loaderVars, IInv, Objects
<1> QED BY <1>1, <1>2, <1>3, <1>4, <1>5, NextCases

-----------------------------------------------------------------------------
(* The loader: names identify the mapped libraries.                        *)
LEMMA LoaderDlopen ==
    ASSUME IInv, NEW p \in Paths, NEW h, Dlopen(p, h), fs' = fs
    PROVE  LoaderInv'
<1> USE DEF LoaderInv, Mapped, NameOpen, IInv, TypeOK, LoaderTypeOK
<1>1. CASE DlopenFails(h)
  BY <1>1 DEF DlopenFails, loaderVars
<1>2. CASE ReopenByName(p, h)
  BY <1>2 DEF ReopenByName, Opened
<1>3. CASE ReopenByFile(p, h)
  <2>1. fs[p] \in Images /\ h \in Handles /\ p \notin {Exe, Gone}
    BY <1>3 DEF ReopenByFile
  <2>2. \A g \in Handles : p \notin names[g]
    BY <1>3 DEF ReopenByFile, Opened
  <2>3. \A g \in Handles : names'[g] = IF g = h THEN names[h] \cup {p} ELSE names[g]
    BY <1>3 DEF ReopenByFile
  <2>4. \A g \in Handles : (refs'[g] > 0) <=> (refs[g] > 0)
    BY <1>3 DEF ReopenByFile, Opened
  <2> QED BY <1>3, <2>1, <2>2, <2>3, <2>4 DEF ReopenByFile
<1>4. CASE MapNew(p, h)
  <2>1. \A g \in Handles : p \notin names[g]
    BY <1>4 DEF MapNew, Opened
  <2>2. p \notin {Exe, Gone} /\ fs[p] # ExeFile
    BY <1>4 DEF MapNew
  <2> QED BY <1>4, <2>1, <2>2 DEF MapNew, Opened
<1> QED BY <1>1, <1>2, <1>3, <1>4 DEF Dlopen

LEMMA LoaderStep == IInv /\ [Next]_vars => LoaderInv'
<1> SUFFICES ASSUME IInv, Next PROVE LoaderInv'
  BY DEF vars, IInv, LoaderInv, Mapped
<1> USE DEF LoaderInv, Mapped, loaderVars
<1>1. CASE FileSystem
  BY <1>1 DEF FileSystem, FileChange, IInv, TypeOK, LoaderTypeOK
<1>2. ASSUME NEW t \in Threads, Begin(t) PROVE LoaderInv'
  <2>1. UNCHANGED <<fs, refs, names, lname, image>>
    BY <1>2, ZenonT(40) DEF Begin, BeginLoad, BeginUnload, BeginAssign,
                            MoveConstruct, MoveAssign, SwapObjects, Start
  <2> QED BY <2>1 DEF IInv
<1>3. ASSUME NEW t \in Threads, Step(t) PROVE LoaderInv'
  <2>1. CASE UnloadClose(t)
    <3>1. handle[obj[t]] \in Opened /\ fs' = fs
      BY <2>1 DEF UnloadClose, IInv, TypeOK
    <3> QED BY <2>1, <3>1, SMTT(30)
            DEF UnloadClose, Dlclose, IInv, TypeOK, LoaderTypeOK, Opened
  <2>2. CASE OpenDecorated(t)
    <3>1. Decorate[path[t]] \in Paths
      BY <2>2 DEF OpenDecorated, IInv, CallInv
    <3> QED BY <2>2, <3>1, LoaderDlopen DEF OpenDecorated, Attempt
  <2>3. CASE OpenExact(t)
    <3>1. path[t] \in Paths
      BY <2>3 DEF OpenExact, IInv, CallInv
    <3> QED BY <2>3, <3>1, LoaderDlopen DEF OpenExact, Attempt
  <2>4. CASE OpenSelf(t)
    BY <2>4 DEF OpenSelf, DlopenMain, DlopenFails, Attempt, IInv, TypeOK,
                LoaderTypeOK, Opened
  <2>5. CASE \/ UnloadNothing(t) \/ UnloadReset(t) \/ CheckDecorated(t)
             \/ NotSelf(t) \/ Location(t) \/ SwapCopy(t) \/ Return(t)
    BY <2>5 DEF UnloadNothing, UnloadReset, CheckDecorated, NotSelf, Location,
                SwapCopy, Return, IInv
  <2> QED BY <1>3, <2>1, <2>2, <2>3, <2>4, <2>5 DEF Step
<1> QED BY <1>1, <1>2, <1>3 DEF Next

-----------------------------------------------------------------------------
LEMMA ExclusiveStep == IInv /\ [Next]_vars => Exclusive'
<1> SUFFICES ASSUME IInv, Next PROVE Exclusive'
  BY DEF vars, IInv, Exclusive
<1> USE DEF Goto, SetError, opVars
<1>1. CASE FileSystem
  BY <1>1 DEF FileSystem, IInv, Exclusive
<1>2. ASSUME NEW t \in Threads, NEW c \in Calls, NEW l, Start(t, c, l)
      PROVE  Exclusive'
  <2>1. /\ call' = [call EXCEPT ![t] = c]
        /\ \A u \in Threads \ {t} : pc'[u] = pc[u] /\ call'[u] = call[u]
        /\ call'[t] = c
    BY <1>2 DEF Start, IInv, TypeOK
  <2>2. RaceFree(t, c)
    BY <1>2 DEF Start
  <2> QED BY <2>1, <2>2 DEF RaceFree, Exclusive, IInv
<1>3. ASSUME NEW t \in Threads, Begin(t) PROVE Exclusive'
  BY <1>2, <1>3 DEF Begin, BeginLoad, BeginUnload, BeginAssign, MoveConstruct,
                    MoveAssign, SwapObjects, Calls, Ops
<1>4. ASSUME NEW t \in Threads, Step(t) PROVE Exclusive'
  <2>1. \A u \in Threads : /\ pc'[u] # "idle" => pc[u] # "idle"
                           /\ pc'[u] # "idle" => call'[u] = call[u]
    <3>1. CASE Return(t)
      BY <3>1 DEF Return, IInv, TypeOK
    <3>2. CASE ~Return(t)
      BY <1>4, <3>2 DEF Step, UnloadNothing, UnloadClose, UnloadReset,
         OpenDecorated, CheckDecorated, OpenExact, NotSelf, OpenSelf, Location,
         SwapCopy, AfterUnload, Attempt, Loaded, IInv, TypeOK
    <3> QED BY <3>1, <3>2
  <2> QED BY <2>1 DEF IInv, Exclusive
<1> QED BY <1>1, <1>3, <1>4 DEF Next

-----------------------------------------------------------------------------
(* The threads.  First: what the others do does not disturb a thread.      *)

\* The object assign() reads is never one that is being closed.
LEMMA SourceOwned ==
    ASSUME IInv, NEW u \in Threads, call[u].op = "assign",
           pc[u] \notin {"idle", "done", "reset"}
    PROVE  /\ call[u].src \in Objects
           /\ Owned[call[u].src] = handle[call[u].src]
<1>1. call[u] \in Calls /\ call[u].src \in Insts
  BY DEF IInv, CallInv, Calls
<1>2. ~Closed(call[u].src)
  <2> SUFFICES ASSUME NEW v \in Threads, pc[v] = "reset", obj[v] = call[u].src
               PROVE  FALSE
    BY DEF Closed
  <2>1. v # u /\ call[v] \in Calls /\ obj[v] \in {call[v].dst, v}
    BY DEF IInv, CallInv
  <2>2. call[v].dst = call[u].src
    BY <1>1, <2>1
  <2>3. Writes(call[v]) \cap Uses(call[u]) = {}
    BY <2>1 DEF IInv, Exclusive
  <2>4. call[v].dst \in Writes(call[v]) /\ call[u].src \in Uses(call[u])
    BY DEF Writes, Uses
  <2> QED BY <2>2, <2>3, <2>4
<1> QED BY <1>1, <1>2 DEF Owned, Objects

\* A library with two owners is not unmapped when one gives it back.
LEMMA TwoHolders ==
    ASSUME RefsExact, NEW x \in Objects, NEW y \in Objects, x # y,
           Owned[x] = Owned[y], Owned[x] \in Opened
    PROVE  refs[Owned[x]] # 1
<1> DEFINE S == Holders(Owned[x])
<1>1. S \subseteq Objects /\ x \in S /\ y \in S
  BY DEF Holders
<1>2. IsFiniteSet(S)
  BY <1>1, ObjectsFinite, FS_Subset
<1>3. refs[Owned[x]] = Cardinality(S)
  BY DEF RefsExact
<1> HIDE DEF S
<1>4. Cardinality(S) # 1
  BY <1>1, <1>2, FS_Singleton
<1> QED BY <1>3, <1>4

\* What a thread knows depends on its own variables, its objects and the
\* name of the library it copies.
LEMMA Frame ==
    ASSUME IInv, NEW u \in Threads,
           pc'[u] = pc[u], call'[u] = call[u], obj'[u] = obj[u],
           path'[u] = path[u], ec'[u] = ec[u], handle'[u] = handle[u],
           pc[u] # "idle" => \A o \in Uses(call[u]) : handle'[o] = handle[o],
           pc[u] \in {"exact", "self"} /\ call[u].op = "assign"
             /\ handle[call[u].src] \in Handles =>
               lname'[handle[call[u].src]] = lname[handle[call[u].src]]
    PROVE  CallInv(u)' /\ CopyInv(u)' /\ AssignInv(u)'
<1>1. CallInv(u) /\ CopyInv(u) /\ AssignInv(u)
  BY DEF IInv
<1>2. pc[u] # "idle" => /\ handle'[call[u].src] = handle[call[u].src]
                        /\ handle'[call[u].dst] = handle[call[u].dst]
  BY DEF Uses
<1>3. pc[u] \notin {"idle", "done"} => handle'[obj[u]] = handle[obj[u]]
  BY <1>1, <1>2 DEF CallInv
<1>4. CallInv(u)'
  BY <1>1, <1>3 DEF CallInv, IsLoad
<1>5. CopyInv(u)'
  BY <1>1 DEF CopyInv
<1>6. AssignInv(u)'
  BY <1>1, <1>2 DEF AssignInv
<1> QED BY <1>4, <1>5, <1>6

LEMMA FrameStart ==
    ASSUME IInv, NEW t \in Threads, NEW u \in Threads, u # t,
           NEW c \in Calls, NEW l, Start(t, c, l),
           \A o \in Objects : o \notin Writes(c) => handle'[o] = handle[o],
           \A v \in Threads \ {t} : obj'[v] = obj[v] /\ path'[v] = path[v],
           UNCHANGED lname
    PROVE  CallInv(u)' /\ CopyInv(u)' /\ AssignInv(u)'
<1>1. pc'[u] = pc[u] /\ call'[u] = call[u] /\ ec'[u] = ec[u]
  BY DEF Start, Goto, SetError, IInv, TypeOK
<1>2. Writes(c) \subseteq Insts /\ u \in Objects
  BY DEF Writes, Calls, Objects
<1>3. pc[u] # "idle" => Uses(call[u]) \subseteq Objects \ Writes(c)
  BY DEF Start, RaceFree, IInv, CallInv, Uses, Calls, Objects
<1> QED BY <1>1, <1>2, <1>3, Frame

LEMMA FrameStep ==
    ASSUME IInv, NEW t \in Threads, NEW u \in Threads, u # t,
           pc[t] # "idle",
           pc'[u] = pc[u], call'[u] = call[u], obj'[u] = obj[u],
           path'[u] = path[u], ec'[u] = ec[u],
           \A o \in Objects : o \notin {call[t].dst, t} => handle'[o] = handle[o],
           pc[u] \in {"exact", "self"} /\ call[u].op = "assign"
             /\ handle[call[u].src] \in Handles =>
               lname'[handle[call[u].src]] = lname[handle[call[u].src]]
    PROVE  CallInv(u)' /\ CopyInv(u)' /\ AssignInv(u)'
<1>1. call[t] \in Calls /\ call[t].dst \in Insts /\ u \in Objects
  BY DEF IInv, CallInv, Calls, Objects
<1>2. pc[u] # "idle" => /\ Uses(call[u]) \subseteq Insts
                        /\ call[t].dst \notin Uses(call[u])
  BY <1>1, SMTT(30) DEF IInv, CallInv, Exclusive, Uses, Writes, Calls
<1>3. handle'[u] = handle[u]
  BY <1>1
<1>4. pc[u] # "idle" => \A o \in Uses(call[u]) : handle'[o] = handle[o]
  BY <1>2 DEF Objects
<1> QED BY <1>3, <1>4, Frame

\* The library a thread is copying keeps its name: it stays mapped.
LEMMA SourceMapped ==
    ASSUME IInv, NEW u \in Threads, call[u].op = "assign",
           pc[u] \in {"exact", "self"}, handle[call[u].src] \in Handles
    PROVE  refs[handle[call[u].src]] # 0
BY SourceOwned, HolderHasRef DEF IInv, Opened

LEMMA NameKeptDlopen ==
    ASSUME IInv, NEW u \in Threads, call[u].op = "assign",
           pc[u] \in {"exact", "self"}, handle[call[u].src] \in Handles,
           NEW p, NEW h, Dlopen(p, h)
    PROVE  lname'[handle[call[u].src]] = lname[handle[call[u].src]]
<1>1. refs[handle[call[u].src]] > 0
  BY SourceMapped DEF IInv, TypeOK, LoaderTypeOK, Opened
<1> QED BY <1>1 DEF Dlopen, DlopenFails, ReopenByName, ReopenByFile, MapNew,
                    Mapped, loaderVars, IInv, TypeOK, LoaderTypeOK

LEMMA NameKeptDlclose ==
    ASSUME IInv, NEW t \in Threads, NEW u \in Threads, u # t,
           call[u].op = "assign", pc[u] \in {"exact", "self"},
           handle[call[u].src] \in Handles, UnloadClose(t)
    PROVE  lname'[handle[call[u].src]] = lname[handle[call[u].src]]
<1> DEFINE s == call[u].src
<1>1. s \in Objects /\ s \in Insts /\ Owned[s] = handle[s]
  BY SourceOwned DEF IInv, CallInv, Calls
<1>2. obj[t] \in Objects /\ Owned[obj[t]] = handle[obj[t]]
  BY NotClosed DEF UnloadClose, Owned, IInv, TypeOK
<1>3. obj[t] # s
  <2>1. call[t] \in Calls /\ obj[t] \in {call[t].dst, t}
    BY DEF UnloadClose, IInv, CallInv
  <2>2. Writes(call[t]) \cap Uses(call[u]) = {}
    BY DEF UnloadClose, IInv, Exclusive
  <2>3. call[t].dst \in Writes(call[t]) /\ s \in Uses(call[u])
    BY DEF Writes, Uses
  <2> QED BY <1>1, <2>1, <2>2, <2>3
<1>4. handle[obj[t]] = handle[s] => refs[handle[s]] # 1
  BY <1>1, <1>2, <1>3, TwoHolders DEF IInv, Opened
<1> QED BY <1>4 DEF UnloadClose, Dlclose, IInv, TypeOK, LoaderTypeOK

ThreadInv(t) == CallInv(t) /\ CopyInv(t) /\ AssignInv(t)

LEMMA BeginThread ==
    ASSUME IInv, NEW t \in Threads, Begin(t), NEW u \in Threads
    PROVE  ThreadInv(u)'
<1> USE DEF Start, Goto, SetError, loaderVars
<1>1. ASSUME NEW o \in Insts, NEW p \in Requested, NEW d \in BOOLEAN,
             BeginLoad(t, o, p, d)
      PROVE  ThreadInv(u)'
  <2>1. CASE u = t
    BY <1>1, <2>1 DEF BeginLoad, ThreadInv, CallInv, CopyInv, AssignInv, IInv,
       TypeOK, Calls, Ops, Objects, IsLoad
  <2>2. CASE u # t
    <3> DEFINE c == [op |-> IF d THEN "load_decorated" ELSE "load",
                     dst |-> o, src |-> o]
    <3>1. c \in Calls /\ Start(t, c, "unload")
      BY <1>1 DEF BeginLoad, Calls, Ops
    <3>2. \A v \in Threads \ {t} : obj'[v] = obj[v] /\ path'[v] = path[v]
      BY <1>1 DEF BeginLoad, IInv, TypeOK
    <3> QED BY <1>1, <2>2, <3>1, <3>2, FrameStart DEF BeginLoad, ThreadInv
  <2> QED BY <2>1, <2>2
<1>2. ASSUME NEW o \in Insts, BeginUnload(t, o) PROVE ThreadInv(u)'
  <2>1. CASE u = t
    BY <1>2, <2>1 DEF BeginUnload, ThreadInv, CallInv, CopyInv, AssignInv, IInv,
       TypeOK, Calls, Ops, Objects, IsLoad
  <2>2. CASE u # t
    <3> DEFINE c == [op |-> "unload", dst |-> o, src |-> o]
    <3>1. c \in Calls /\ Start(t, c, "unload")
      BY <1>2 DEF BeginUnload, Calls, Ops
    <3>2. \A v \in Threads \ {t} : obj'[v] = obj[v] /\ path'[v] = path[v]
      BY <1>2 DEF BeginUnload, IInv, TypeOK
    <3> QED BY <1>2, <2>2, <3>1, <3>2, FrameStart DEF BeginUnload, ThreadInv
  <2> QED BY <2>1, <2>2
<1>3. ASSUME NEW o \in Insts, NEW s \in Insts, BeginAssign(t, o, s)
      PROVE  ThreadInv(u)'
  <2>1. CASE u = t
    BY <1>3, <2>1 DEF BeginAssign, AssignLabel, ThreadInv, CallInv, CopyInv, AssignInv, IInv,
       TypeOK, Calls, Ops, Objects, IsLoad
  <2>2. CASE u # t
    <3> DEFINE c == [op |-> "assign", dst |-> o, src |-> s]
    <3>1. c \in Calls /\ \E l : Start(t, c, l)
      BY <1>3 DEF BeginAssign, Calls, Ops
    <3>2. \A v \in Threads \ {t} : obj'[v] = obj[v] /\ path'[v] = path[v]
      BY <1>3 DEF BeginAssign, IInv, TypeOK
    <3> QED BY <1>3, <2>2, <3>1, <3>2, FrameStart DEF BeginAssign, AssignLabel, ThreadInv
  <2> QED BY <2>1, <2>2
<1>4. ASSUME NEW op \in {"move_construct", "move_assign", "swap"},
             NEW o \in Insts, NEW s \in Insts,
             Start(t, [op |-> op, dst |-> o, src |-> s], "done"),
             \A x \in Objects : x \notin {o, s} => handle'[x] = handle[x],
             UNCHANGED <<loaderVars, obj, path>>
      PROVE  ThreadInv(u)'
  <2> DEFINE c == [op |-> op, dst |-> o, src |-> s]
  <2>1. c \in Calls /\ Writes(c) = {o, s} /\ t \notin {o, s} /\ t \in Objects
    BY DEF Calls, Ops, Writes, Objects
  <2>2. CASE u = t
    BY <1>4, <2>1, <2>2 DEF ThreadInv, CallInv, CopyInv, AssignInv, IInv, TypeOK,
       IsLoad
  <2>3. CASE u # t
    BY <1>4, <2>1, <2>3, FrameStart DEF ThreadInv
  <2> QED BY <2>2, <2>3
<1>5. ASSUME NEW o \in Insts, NEW s \in Insts,
             MoveConstruct(t, o, s) \/ MoveAssign(t, o, s) \/ SwapObjects(t, o, s)
      PROVE  ThreadInv(u)'
  <2>1. \A x \in Objects : x \notin {o, s} => handle'[x] = handle[x]
    BY <1>5 DEF MoveConstruct, MoveAssign, SwapObjects, Swapped, IInv, TypeOK
  <2> QED BY <1>4, <1>5, <2>1 DEF MoveConstruct, MoveAssign, SwapObjects
<1> QED BY <1>1, <1>2, <1>3, <1>5 DEF Begin

\* The thread that takes a step.
LEMMA OwnStep ==
    ASSUME IInv, NEW t \in Threads, Step(t)
    PROVE  ThreadInv(t)'
<1> USE DEF Goto, SetError, loaderVars, opVars
<1>0. /\ CallInv(t) /\ CopyInv(t) /\ AssignInv(t)
      /\ pc[t] # "idle" => call[t].dst \in Insts /\ call[t].src \in Insts
      /\ t \in Objects /\ t \notin Insts
  BY DEF IInv, CallInv, Calls, Objects
<1>1. CASE UnloadNothing(t) \/ UnloadReset(t)
  BY <1>0, <1>1 DEF UnloadNothing, UnloadReset, AfterUnload, ThreadInv, CallInv,
     CopyInv, AssignInv, IInv, TypeOK, IsLoad, Objects
<1>2. CASE UnloadClose(t)
  BY <1>0, <1>2 DEF UnloadClose, ThreadInv, CallInv, CopyInv, AssignInv, IInv,
     TypeOK, IsLoad
<1>3. CASE OpenDecorated(t)
  BY <1>0, <1>3 DEF OpenDecorated, Attempt, ThreadInv, CallInv, CopyInv,
     AssignInv, IInv, TypeOK, IsLoad
<1>4. CASE CheckDecorated(t)
  BY <1>0, <1>4 DEF CheckDecorated, ThreadInv, CallInv, CopyInv, AssignInv,
     IInv, TypeOK, IsLoad
<1>5. CASE OpenExact(t)
  <2>1. PICK h \in Handles \cup {NULL} :
           /\ Dlopen(path[t], h)
           /\ Attempt(t, h, Loaded(t), "self")
           /\ IF h # NULL THEN UNCHANGED ec
              ELSE SetError(t, "bad_file_descriptor")
    BY <1>5 DEF OpenExact
  <2>2. /\ pc[t] = "exact" /\ obj' = obj /\ call' = call /\ path' = path
        /\ handle' = [handle EXCEPT ![obj[t]] = h]
        /\ pc' = [pc EXCEPT ![t] = IF h # NULL THEN Loaded(t) ELSE "self"]
        /\ obj[t] \in Objects
    BY <1>5, <2>1 DEF OpenExact, Attempt, IInv, TypeOK
  <2>3. CASE h = NULL
    <3>1. UNCHANGED loaderVars
      BY <2>1, <2>3 DEF Dlopen, DlopenFails, ReopenByName, ReopenByFile, MapNew
    <3> QED BY <1>0, <2>1, <2>2, <2>3, <3>1 DEF ThreadInv, CallInv, CopyInv,
            AssignInv, IInv, TypeOK, IsLoad
  <2>4. CASE h # NULL /\ call[t].op = "assign"
    <3> DEFINE s == handle[call[t].src]
    <3>1. s # NULL /\ obj[t] = t /\ s \in Opened
      BY <1>0, <2>2, <2>4 DEF AssignInv, IInv, TypeOK, Objects
    <3>2. s # Main
      <4> SUFFICES ASSUME s = Main PROVE FALSE
        OBVIOUS
      <4>1. path[t] \in {Exe, Gone}
        BY <1>0, <2>2, <2>4 DEF AssignInv
      <4>2. fs[path[t]] \notin Images /\ \A g \in Handles : path[t] \notin names[g]
        BY <4>1 DEF IInv, LoaderInv
      <4> QED BY <2>1, <2>4, <4>2
              DEF Dlopen, ReopenByName, ReopenByFile, MapNew, DlopenFails,
                  IInv, LoaderInv
    <3>3. s \in Handles /\ path[t] = lname[s] /\ refs[s] > 0
      BY <1>0, <2>2, <2>4, <3>1, <3>2, SourceMapped, SMTT(30)
         DEF AssignInv, Opened, IInv, TypeOK, LoaderTypeOK
    <3>4. path[t] \in names[s]
      BY <3>3 DEF IInv, LoaderInv, Mapped
    <3>5. h = s
      BY <2>1, <2>4, <3>3, <3>4 DEF Dlopen, ReopenByName, ReopenByFile, MapNew,
         DlopenFails, NameOpen, Mapped, IInv, LoaderInv
    <3>6. handle'[call[t].src] = s /\ handle'[t] = s /\ ec' = ec
      BY <1>0, <2>1, <2>2, <2>4, <3>1, <3>5 DEF IInv, TypeOK, Objects
    <3> QED BY <1>0, <2>1, <2>2, <2>4, <3>1, <3>6 DEF ThreadInv, CallInv,
            CopyInv, AssignInv, IInv, TypeOK, IsLoad, Loaded
  <2>5. CASE h # NULL /\ call[t].op # "assign"
    BY <1>0, <2>1, <2>2, <2>5 DEF ThreadInv, CallInv, CopyInv, AssignInv, IInv,
       TypeOK, IsLoad, Loaded
  <2> QED BY <2>3, <2>4, <2>5
<1>6. CASE NotSelf(t)
  BY <1>0, <1>6 DEF NotSelf, ThreadInv, CallInv, CopyInv, AssignInv, IInv,
     TypeOK, IsLoad
<1>7. CASE OpenSelf(t)
  <2>1. PICK h \in {Main, NULL} :
           /\ Attempt(t, h, Loaded(t), "done")
           /\ SetError(t, IF h # NULL THEN "ok" ELSE "bad_file_descriptor")
    BY <1>7 DEF OpenSelf
  <2>2. /\ pc[t] = "self" /\ obj' = obj /\ call' = call /\ path' = path
        /\ handle' = [handle EXCEPT ![obj[t]] = h]
        /\ pc' = [pc EXCEPT ![t] = IF h # NULL THEN Loaded(t) ELSE "done"]
        /\ obj[t] \in Objects /\ Equivalent(path[t], ProgramLocation)
    BY <1>7, <2>1 DEF OpenSelf, IsProgram, Attempt, IInv, TypeOK
  <2>3. CASE h # NULL /\ call[t].op = "assign"
    <3> DEFINE s == handle[call[t].src]
    <3>1. s # NULL /\ obj[t] = t /\ s \in Opened
      BY <1>0, <2>2, <2>3 DEF AssignInv, IInv, TypeOK, Objects
    <3>2. fs[path[t]] = ExeFile
      BY <2>2 DEF Equivalent, Exists, ProgramLocation, IInv, LoaderInv
    <3>3. s = Main
      <4> SUFFICES ASSUME s \in Handles PROVE FALSE
        BY <3>1 DEF Opened
      <4>1. path[t] = lname[s] /\ refs[s] > 0
        BY <1>0, <2>2, <2>3, SourceMapped
           DEF AssignInv, Opened, IInv, TypeOK, LoaderTypeOK
      <4>2. path[t] \in names[s]
        BY <4>1 DEF IInv, LoaderInv, Mapped
      <4> QED BY <3>2, <4>2 DEF IInv, LoaderInv
    <3>4. handle'[call[t].src] = s /\ handle'[t] = s
      BY <1>0, <2>1, <2>2, <2>3, <3>1, <3>3 DEF IInv, TypeOK, Objects
    <3> QED BY <1>0, <2>1, <2>2, <2>3, <3>1, <3>4 DEF ThreadInv, CallInv,
            CopyInv, AssignInv, IInv, TypeOK, IsLoad, Loaded
  <2>4. CASE ~(h # NULL /\ call[t].op = "assign")
    BY <1>0, <2>1, <2>2, <2>4 DEF ThreadInv, CallInv, CopyInv, AssignInv, IInv,
       TypeOK, IsLoad, Loaded
  <2> QED BY <2>3, <2>4
<1>8. CASE Location(t)
  BY <1>0, <1>8 DEF Location, ProgramLocation, ThreadInv, CallInv, CopyInv,
     AssignInv, IInv, TypeOK, LoaderTypeOK, IsLoad, Opened, Objects
<1>9. CASE SwapCopy(t)
  BY <1>0, <1>9 DEF SwapCopy, Swapped, ThreadInv, CallInv, CopyInv, AssignInv,
     IInv, TypeOK, IsLoad, Objects
<1>10. CASE Return(t)
  BY <1>0, <1>10 DEF Return, ThreadInv, CallInv, CopyInv, AssignInv, IInv,
     TypeOK, IsLoad
<1> QED BY <1>1, <1>2, <1>3, <1>4, <1>5, <1>6, <1>7, <1>8, <1>9, <1>10 DEF Step

LEMMA ThreadStep ==
    IInv /\ [Next]_vars => \A t \in Threads : ThreadInv(t)'
<1> SUFFICES ASSUME IInv, [Next]_vars, NEW u \in Threads PROVE ThreadInv(u)'
  OBVIOUS
<1>1. CASE UNCHANGED vars
  BY <1>1, Frame DEF vars, ThreadInv
<1>2. CASE FileSystem
  BY <1>2, Frame DEF FileSystem, FileChange, loaderVars, opVars, ThreadInv
<1>3. ASSUME NEW t \in Threads, Begin(t) PROVE ThreadInv(u)'
  BY <1>3, BeginThread
<1>4. ASSUME NEW t \in Threads, Step(t) PROVE ThreadInv(u)'
  <2>1. CASE u = t
    BY <1>4, <2>1, OwnStep
  <2>2. CASE u # t
    <3> USE DEF Goto, SetError, loaderVars, opVars
    <3>1. /\ pc[t] # "idle"
          /\ pc'[u] = pc[u] /\ call'[u] = call[u] /\ obj'[u] = obj[u]
          /\ path'[u] = path[u] /\ ec'[u] = ec[u]
      <4>0. /\ pc \in [Threads -> Labels] /\ DOMAIN call = Threads
            /\ DOMAIN obj = Threads /\ DOMAIN path = Threads /\ DOMAIN ec = Threads
        BY DEF IInv, TypeOK
      <4>1. CASE UnloadNothing(t) \/ UnloadClose(t) \/ UnloadReset(t)
        BY <2>2, <4>0, <4>1 DEF UnloadNothing, UnloadClose, UnloadReset, AfterUnload
      <4>2. CASE OpenDecorated(t) \/ OpenExact(t) \/ OpenSelf(t)
        BY <2>2, <4>0, <4>2 DEF OpenDecorated, OpenExact, OpenSelf, Attempt, Loaded
      <4>3. CASE CheckDecorated(t) \/ NotSelf(t) \/ Location(t)
        BY <2>2, <4>0, <4>3 DEF CheckDecorated, NotSelf, Location
      <4>4. CASE SwapCopy(t) \/ Return(t)
        BY <2>2, <4>0, <4>4 DEF SwapCopy, Return
      <4> QED BY <1>4, <4>1, <4>2, <4>3, <4>4 DEF Step
    <3>2. \A o \in Objects : o \notin {call[t].dst, t} => handle'[o] = handle[o]
      <4>1. pc[t] # "done" => obj[t] \in {call[t].dst, t}
        BY <3>1 DEF IInv, CallInv
      <4> QED BY <1>4, <4>1 DEF Step, UnloadNothing, UnloadClose, UnloadReset,
         OpenDecorated, CheckDecorated, OpenExact, NotSelf, OpenSelf, Location,
         SwapCopy, Return, Attempt, Swapped, IInv, TypeOK
    <3>3. ASSUME pc[u] \in {"exact", "self"}, call[u].op = "assign",
                 handle[call[u].src] \in Handles
          PROVE  lname'[handle[call[u].src]] = lname[handle[call[u].src]]
      <4>1. CASE UnloadClose(t)
        BY <2>2, <3>3, <4>1, NameKeptDlclose
      <4>2. CASE OpenDecorated(t) \/ OpenExact(t)
        BY <3>3, <4>2, NameKeptDlopen DEF OpenDecorated, OpenExact
      <4>3. CASE ~UnloadClose(t) /\ ~OpenDecorated(t) /\ ~OpenExact(t)
        BY <1>4, <4>3 DEF Step, UnloadNothing, UnloadReset, CheckDecorated,
           NotSelf, OpenSelf, DlopenMain, DlopenFails, Location, SwapCopy, Return
      <4> QED BY <4>1, <4>2, <4>3
    <3> QED BY <2>2, <3>1, <3>2, <3>3, FrameStep DEF ThreadInv
  <2> QED BY <2>1, <2>2
<1> QED BY <1>1, <1>2, <1>3, <1>4 DEF Next

-----------------------------------------------------------------------------
(***************************************************************************)
(* The invariant, and what it means for the users of the class.            *)
(***************************************************************************)
LEMMA InitInv == Init => IInv
<1> SUFFICES ASSUME Init PROVE IInv
  OBVIOUS
<1>1. RefsExact
  <2>1. Owned = [o \in Objects |-> NULL]
    BY DEF Init, Owned
  <2>2. \A h \in Opened : Holders(h) = {}
    BY <2>1 DEF Holders, Opened
  <2> QED BY <2>2, FS_EmptySet DEF RefsExact, Init, LoaderInit
<1>2. LoaderInv
  BY DEF LoaderInv, Init, LoaderInit, Mapped, Opened
<1>3. Exclusive /\ \A t \in Threads : CallInv(t) /\ CopyInv(t) /\ AssignInv(t)
  BY DEF Exclusive, CallInv, CopyInv, AssignInv, Init, Objects
<1> QED BY <1>1, <1>2, <1>3, TypeInit DEF IInv

\* The invariant of SharedLibraryInv is inductive and holds of every
\* execution of the class: any number of threads, objects and libraries.
THEOREM InductiveInvariant == Spec => []IInv
<1>1. IInv /\ [Next]_vars => IInv'
  BY TypeStep, RefsStep, LoaderStep, ExclusiveStep, ThreadStep
     DEF IInv, ThreadInv
<1> QED BY <1>1, InitInv, PTL DEF Spec

\* Every variable keeps its type.
THEOREM TypeCorrect == Spec => []TypeOK
BY InductiveInvariant, PTL DEF IInv

\* The loader counts as many references to a library as there are objects
\* that will give one back: no leak, no double dlclose.
THEOREM ExactReferences == Spec => []RefsExact
BY InductiveInvariant, PTL DEF IInv

\* An assign() without error leaves the two objects with one library.
THEOREM AssignedIsShared == Spec => []AssignShares
<1>1. IInv => AssignShares
  BY DEF IInv, AssignInv, AssignShares
<1> QED BY <1>1, InductiveInvariant, PTL

-----------------------------------------------------------------------------
(***************************************************************************)
(* SharedLibrary implements LibraryRefs.                                   *)
(***************************************************************************)
held   == [i \in Insts |-> Owned[i]]
loaded == {h \in Opened : Mapped(h)}

LEMMA LoadedSame ==
    ASSUME refs' = refs PROVE loaded' = loaded
BY DEF loaded, Mapped

LEMMA HeldSame ==
    ASSUME \A i \in Insts : Owned'[i] = Owned[i] PROVE held' = held
BY DEF held

RefsNext == Refs!Next \/ UNCHANGED <<held, loaded>>

\* dlclose of *this is a Drop, dlclose of the temporary at most a Forget.
LEMMA CloseRefines ==
    ASSUME IInv, RefsExact', TypeOK', NEW t \in Threads, UnloadClose(t)
    PROVE  RefsNext
<1> DEFINE h == handle[obj[t]]
<1>1. /\ h \in Opened /\ refs[h] \in Nat /\ refs[h] # 0 /\ h # NULL
      /\ \A g \in Opened : refs'[g] = IF g = h THEN refs[h] - 1 ELSE refs[g]
  <2>1. refs[h] # 0
    BY OwnedClose, HolderHasRef DEF IInv
  <2> QED BY <2>1, OwnedClose DEF IInv, TypeOK, LoaderTypeOK, Opened, UnloadClose
<1>2. \/ loaded' = loaded
      \/ /\ loaded' = loaded \ {h} /\ refs'[h] = 0
         /\ h \in loaded
  BY <1>1 DEF loaded, Mapped, IInv, TypeOK, LoaderTypeOK
<1>3. refs'[h] = 0 => \A i \in Insts : Owned'[i] # h
  <2> SUFFICES ASSUME refs'[h] = 0, NEW i \in Insts, Owned'[i] = h
               PROVE  FALSE
    OBVIOUS
  <2> DEFINE S == {o \in Objects : Owned'[o] = h}
  <2>1. i \in S /\ IsFiniteSet(S)
    BY ObjectsFinite, FS_Subset DEF Objects
  <2>2. Cardinality(S) = 0
    <3>1. \A g \in Opened :
             refs'[g] = Cardinality({o \in Objects : Owned'[o] = g})
      BY DEF RefsExact, Holders
    <3> QED BY <1>1, <3>1
  <2> QED BY <2>1, <2>2, FS_EmptySet
<1>4. CASE obj[t] \in Insts
  <2>1. PICK o \in Insts : o = obj[t]
    BY <1>4
  <2>2. held' = [held EXCEPT ![o] = NULL] /\ held[o] = h
    BY <2>1, OwnedClose DEF held, Objects
  <2>3. \A j \in Insts : held'[j] = Owned'[j]
    BY DEF held
  <2>4. Refs!Drop(o)
    BY <1>1, <1>2, <1>3, <2>2, <2>3 DEF Refs!Drop, held, loaded
  <2> QED BY <2>4 DEF RefsNext, Refs!Next
<1>5. CASE obj[t] \notin Insts
  <2>1. \A i \in Insts : Owned'[i] = Owned[i]
    BY <1>5, OwnedClose DEF Objects
  <2>2. held' = held
    BY <2>1, HeldSame
  <2>3. CASE loaded' = loaded
    BY <2>2, <2>3 DEF RefsNext
  <2>4. CASE loaded' = loaded \ {h} /\ refs'[h] = 0 /\ h \in loaded
    <3>1. Refs!Forget(h)
      BY <1>3, <2>1, <2>2, <2>4 DEF Refs!Forget, Refs!Holds, held, loaded
    <3> QED BY <1>1, <3>1 DEF RefsNext, Refs!Next
  <2> QED BY <1>2, <2>3, <2>4
<1> QED BY <1>4, <1>5

\* A load that gets a library is a Take; the temporary of assign() only
\* reopens what the source has.
LEMMA OpenRefines ==
    ASSUME IInv, IInv', NEW t \in Threads,
           OpenDecorated(t) \/ OpenExact(t) \/ OpenSelf(t)
    PROVE  RefsNext
<1>1. PICK h \in Opened \cup {NULL},
           l1 \in {"done", Loaded(t)}, l2 \in {"exists", "self", "done"} :
         /\ pc[t] \in {"decorated", "exact", "self"}
         /\ Attempt(t, h, l1, l2)
         /\ \/ h = NULL /\ refs' = refs
            \/ h \in Opened /\ refs' = [refs EXCEPT ![h] = @ + 1]
  BY OpenCases
<1>2. /\ Owned[obj[t]] = NULL /\ Owned'[obj[t]] = h
      /\ \A o \in Objects : o # obj[t] => Owned'[o] = Owned[o]
      /\ obj[t] \in Objects
  <2>1. l1 # "reset" /\ l2 # "reset"
    BY DEF Loaded
  <2> QED BY <1>1, <2>1, OwnedAttempt
<1>3. CASE h = NULL /\ refs' = refs
  <2>1. \A i \in Insts : Owned'[i] = Owned[i]
    BY <1>2, <1>3 DEF Objects
  <2> QED BY <1>3, <2>1, HeldSame, LoadedSame DEF RefsNext
<1>4. CASE h \in Opened /\ refs' = [refs EXCEPT ![h] = @ + 1]
  <2>1. loaded' = loaded \cup {h}
    BY <1>4 DEF loaded, Mapped, IInv, TypeOK, LoaderTypeOK
  <2>2. CASE call[t].op # "assign"
    <3>1. obj[t] \in Insts
      BY <1>1, <2>2 DEF IInv, CallInv, Calls
    <3>2. held' = [held EXCEPT ![obj[t]] = h] /\ held[obj[t]] = NULL
      BY <1>2, <3>1 DEF held, Objects
    <3>3. Refs!Take(obj[t], h)
      BY <2>1, <3>2 DEF Refs!Take, held, loaded
    <3> QED BY <1>4, <3>1, <3>3 DEF RefsNext, Refs!Next
  <2>3. CASE call[t].op = "assign"
    <3> DEFINE s == call[t].src
    <3>1. obj[t] = t /\ pc[t] \in {"exact", "self"} /\ handle[s] # NULL
          /\ t \notin Insts
      BY <1>1, <2>3 DEF IInv, CallInv, AssignInv
    <3>2. h # NULL
      BY <1>4 DEF Opened
    <3>3. pc'[t] = "swap" /\ call' = call /\ handle'[t] = h
      <4>1. l1 = "swap"
        BY <2>3, <3>1, <3>2, <1>1 DEF OpenDecorated, OpenExact, OpenSelf,
           Attempt, Loaded, Goto, IInv, TypeOK
      <4> QED BY <1>1, <1>2, <3>1, <3>2, <4>1 DEF Attempt, Goto, IInv, TypeOK
    <3>4. handle'[t] = handle'[s] /\ call[t] \in Calls
      BY <2>3, <3>1, <3>3 DEF IInv, AssignInv, CallInv
    <3>5. handle'[s] = handle[s]
      BY <1>1, <3>1, <3>4 DEF Attempt, Calls, Objects, IInv, TypeOK
    <3>6. refs[h] # 0
      BY <1>4, <2>3, <3>1, <3>3, <3>4, <3>5, SourceOwned, HolderHasRef
         DEF IInv
    <3>7. loaded' = loaded
      BY <1>4, <2>1, <3>6 DEF loaded, Mapped, IInv, TypeOK, LoaderTypeOK
    <3>8. \A i \in Insts : Owned'[i] = Owned[i]
      BY <1>2, <3>1 DEF Objects
    <3> QED BY <3>7, <3>8, HeldSame DEF RefsNext
  <2> QED BY <2>2, <2>3
<1> QED BY <1>3, <1>4, <1>1

LEMMA StepRefines == IInv /\ IInv' /\ [Next]_vars => RefsNext
<1> SUFFICES ASSUME IInv, IInv', [Next]_vars PROVE RefsNext
  OBVIOUS
<1>1. CASE UNCHANGED vars
  BY <1>1 DEF vars, RefsNext, held, loaded, Owned, Closed, Mapped
<1>2. CASE Quiet
  <2>1. Owned' = Owned /\ refs' = refs
    BY <1>2, OwnedQuiet
  <2> QED BY <2>1, HeldSame, LoadedSame DEF RefsNext
<1>3. ASSUME NEW t \in Threads, NEW o \in Insts, NEW s \in Insts,
             MoveConstruct(t, o, s) \/ MoveAssign(t, o, s) \/ SwapObjects(t, o, s)
      PROVE  RefsNext
  <2>1. refs' = refs
    BY <1>3, OwnedMove
  <2>2. CASE Owned' = Owned
    BY <2>1, <2>2, HeldSame, LoadedSame DEF RefsNext
  <2>3. CASE /\ Owned'[o] = Owned[s] /\ Owned'[s] = Owned[o]
             /\ \A x \in Objects : x \notin {o, s} => Owned'[x] = Owned[x]
    <3>1. held' = [held EXCEPT ![o] = held[s], ![s] = held[o]]
      BY <2>3 DEF held, Objects
    <3>2. Refs!Trade(o, s)
      BY <2>1, <3>1, LoadedSame DEF Refs!Trade, held, loaded
    <3> QED BY <3>2 DEF RefsNext, Refs!Next
  <2> QED BY <1>3, <2>2, <2>3, OwnedMove
<1>4. ASSUME NEW t \in Threads, UnloadClose(t) PROVE RefsNext
  BY <1>4, CloseRefines DEF IInv
<1>5. ASSUME NEW t \in Threads, OpenDecorated(t) \/ OpenExact(t) \/ OpenSelf(t)
      PROVE  RefsNext
  BY <1>5, OpenRefines
<1>6. ASSUME NEW t \in Threads, SwapCopy(t) PROVE RefsNext
  <2>1. /\ pc[t] = "swap" /\ call[t].op = "assign" /\ refs' = refs
        /\ handle[call[t].src] # NULL /\ handle[t] = handle[call[t].src]
        /\ call[t].src \in Insts /\ call[t].dst \in Insts
    BY <1>6 DEF SwapCopy, loaderVars, IInv, CallInv, AssignInv, Calls
  <2>2. PICK d \in Insts, s \in Insts : d = call[t].dst /\ s = call[t].src
    BY <2>1
  <2>3. Owned[s] = handle[s]
    BY <2>1, <2>2, SourceOwned
  <2>4. /\ t \notin Insts /\ Owned'[d] = Owned[s]
        /\ \A i \in Insts : i # d => Owned'[i] = Owned[i]
    BY <1>6, <2>1, <2>2, <2>3, OwnedSwapCopy DEF Objects
  <2>5. held' = [held EXCEPT ![d] = held[s]] /\ held[s] # NULL
    BY <2>1, <2>2, <2>3, <2>4 DEF held
  <2>6. Refs!Share(d, s)
    BY <2>1, <2>5, LoadedSame DEF Refs!Share, held, loaded
  <2> QED BY <2>6 DEF RefsNext, Refs!Next
<1> QED BY <1>1, <1>2, <1>3, <1>4, <1>5, <1>6, NextCases

LEMMA InitRefines == Init => Refs!Init
BY DEF Init, LoaderInit, Refs!Init, Owned, Objects, Mapped, Opened

\* Whatever the threads do and whatever happens to the files, the objects
\* behave as LibraryRefs says.
THEOREM Implementation == Spec => ImplementsRefs
<1>1. IInv /\ IInv' /\ [Next]_vars => [Refs!Next]_(Refs!avars)
  BY StepRefines DEF RefsNext, Refs!avars, held, loaded
<1> QED BY <1>1, InitRefines, InductiveInvariant, PTL
        DEF Spec, ImplementsRefs, Refs!Spec

\* A library some object refers to is in the address space.
THEOREM HeldLibraryIsLoaded == Spec => []Refs!HeldIsLoaded
<1>1. IInv => Refs!HeldIsLoaded
  <2> SUFFICES ASSUME IInv, NEW i \in Insts, Owned[i] # NULL
               PROVE  Owned[i] \in {h \in Opened : Mapped(h)}
    BY DEF Refs!HeldIsLoaded
  <2>1. i \in Objects /\ Owned[i] \in Opened
    BY DEF Objects, Owned, IInv, TypeOK
  <2> QED BY <2>1, HolderHasRef DEF Mapped, IInv, TypeOK, LoaderTypeOK
<1> QED BY <1>1, InductiveInvariant, PTL

\* A mapping that is there before and after a step is the same one.
LEMMA MappingKept ==
    ASSUME IInv, [Next]_vars, NEW h \in Handles, Mapped(h), Mapped(h)'
    PROVE  image'[h] = image[h] /\ lname'[h] = lname[h]
<1>0. /\ h \in Opened /\ refs[h] \in Nat /\ refs[h] > 0 /\ refs'[h] > 0
      /\ TypeOK /\ LoaderTypeOK
  BY DEF Mapped, Opened, IInv, TypeOK, LoaderTypeOK
<1>1. CASE UNCHANGED loaderVars
  BY <1>1 DEF loaderVars
<1>2. ASSUME NEW p, NEW g, Dlopen(p, g) PROVE image'[h] = image[h] /\ lname'[h] = lname[h]
  <2>1. CASE UNCHANGED <<lname, image>>
    BY <2>1
  <2>2. CASE MapNew(p, g)
    <3>1. g # h
      BY <1>0, <2>2 DEF MapNew, Mapped
    <3> QED BY <2>2, <3>1, <1>0 DEF MapNew, LoaderTypeOK
  <2> QED BY <1>2, <2>1, <2>2 DEF Dlopen, ReopenByName, ReopenByFile, DlopenFails,
                                  loaderVars
<1>3. ASSUME NEW t \in Threads, UnloadClose(t)
      PROVE  image'[h] = image[h] /\ lname'[h] = lname[h]
  <2> DEFINE g == handle[obj[t]]
  <2>1. g # h \/ refs[g] # 1
    BY <1>0, <1>3 DEF UnloadClose, Dlclose, LoaderTypeOK
  <2> QED BY <1>0, <1>3, <2>1 DEF UnloadClose, Dlclose, LoaderTypeOK
<1>4. CASE UNCHANGED vars \/ FileSystem
  BY <1>1, <1>4 DEF vars, FileSystem, FileChange, loaderVars
<1>5. ASSUME NEW t \in Threads, Begin(t) PROVE UNCHANGED loaderVars
  BY <1>5, ZenonT(40) DEF Begin, BeginLoad, BeginUnload, BeginAssign, MoveConstruct,
     MoveAssign, SwapObjects
<1>6. ASSUME NEW t \in Threads, Step(t)
      PROVE  image'[h] = image[h] /\ lname'[h] = lname[h]
  <2>1. CASE UnloadClose(t)
    BY <1>3, <2>1
  <2>2. CASE OpenDecorated(t) \/ OpenExact(t)
    BY <1>2, <2>2 DEF OpenDecorated, OpenExact
  <2>3. CASE OpenSelf(t)
    BY <2>3 DEF OpenSelf, DlopenMain, DlopenFails, loaderVars
  <2>4. CASE \/ UnloadNothing(t) \/ UnloadReset(t) \/ CheckDecorated(t)
             \/ NotSelf(t) \/ Location(t) \/ SwapCopy(t) \/ Return(t)
    BY <1>1, <2>4 DEF UnloadNothing, UnloadReset, CheckDecorated, NotSelf,
                      Location, SwapCopy, Return
  <2> QED BY <1>6, <2>1, <2>2, <2>3, <2>4 DEF Step
<1> QED BY <1>1, <1>4, <1>5, <1>6 DEF Next

(***************************************************************************)
(* What get() returned stays valid while some object refers to the         *)
(* library, whoever it is.                                                 *)
(***************************************************************************)
THEOREM PointersStayValid == Spec => MappingStays
<1> DEFINE J == \A h \in Handles : InUse(h) => Mapped(h)
           Stays == \A h \in Handles : InUse(h) /\ InUse(h)' =>
                       Mapped(h)' /\ image'[h] = image[h] /\ lname'[h] = lname[h]
<1>1. IInv => J
  <2> SUFFICES ASSUME IInv, NEW o \in Insts, Owned[o] \in Handles
               PROVE  Mapped(Owned[o])
    BY DEF InUse
  <2>1. o \in Objects /\ Owned[o] \in Opened
    BY DEF Objects, Opened
  <2> QED BY <2>1, HolderHasRef DEF Mapped, IInv, TypeOK, LoaderTypeOK
<1>2. IInv /\ J /\ J' /\ [Next]_vars => [Stays]_vars
  <2> SUFFICES ASSUME IInv, J, J', [Next]_vars, NEW h \in Handles,
                      InUse(h), InUse(h)'
               PROVE  Mapped(h)' /\ image'[h] = image[h] /\ lname'[h] = lname[h]
    OBVIOUS
  <2>1. Mapped(h) /\ Mapped(h)'
    OBVIOUS
  <2> QED BY <2>1, MappingKept
<1> QED BY <1>1, <1>2, InductiveInvariant, PTL DEF Spec, MappingStays

-----------------------------------------------------------------------------
(***************************************************************************)
(* assign() is all or nothing.                                             *)
(***************************************************************************)
\* Nobody changes the objects an operation of another thread uses.
LEMMA HandleKept ==
    ASSUME IInv, NEW t \in Threads, NEW u \in Threads, u # t, pc[u] # "idle",
           Begin(t) \/ Step(t)
    PROVE  \A o \in Uses(call[u]) : handle'[o] = handle[o]
<1>0. Uses(call[u]) \subseteq Insts
  BY DEF IInv, CallInv, Uses, Calls
<1>1. CASE Begin(t)
  <2> USE DEF Objects
  <2>1. ASSUME NEW o \in Insts, NEW s \in Insts,
               MoveConstruct(t, o, s) \/ MoveAssign(t, o, s) \/ SwapObjects(t, o, s)
        PROVE  \A x \in Uses(call[u]) : handle'[x] = handle[x]
    <3>1. o \notin Uses(call[u]) /\ s \notin Uses(call[u])
      BY <2>1 DEF MoveConstruct, MoveAssign, SwapObjects, Start, RaceFree,
         Writes
    <3> QED BY <1>0, <2>1, <3>1 DEF MoveConstruct, MoveAssign, SwapObjects,
            Swapped, IInv, TypeOK
  <2> QED BY <1>1, <2>1 DEF Begin, BeginLoad, BeginUnload, BeginAssign
<1>2. CASE Step(t)
  <2>1. pc[t] # "idle"
    BY <1>2 DEF Step, UnloadNothing, UnloadClose, UnloadReset,
       OpenDecorated, CheckDecorated, OpenExact, NotSelf, OpenSelf, Location,
       SwapCopy, Return
  <2>2. /\ call[t].dst \notin Uses(call[u])
        /\ pc[t] # "done" => obj[t] \notin Uses(call[u])
    BY <1>0, <2>1 DEF IInv, CallInv, Exclusive, Writes
  <2>3. CASE SwapCopy(t)
    BY <1>0, <2>2, <2>3 DEF SwapCopy, Swapped, IInv, TypeOK, Objects, Uses, Calls
  <2>4. CASE UnloadReset(t) \/ OpenDecorated(t) \/ OpenExact(t) \/ OpenSelf(t)
    <3>1. pc[t] # "done" /\ \A o \in Objects \ {obj[t]} : handle'[o] = handle[o]
      BY <2>4 DEF UnloadReset, OpenDecorated, OpenExact, OpenSelf, Attempt, IInv,
         TypeOK
    <3> QED BY <1>0, <2>2, <3>1 DEF Objects
  <2>5. CASE ~SwapCopy(t) /\ ~UnloadReset(t) /\ ~OpenDecorated(t)
             /\ ~OpenExact(t) /\ ~OpenSelf(t)
    BY <1>2, <2>5 DEF Step, UnloadNothing, UnloadClose, CheckDecorated, NotSelf,
       Location, Return
  <2> QED BY <2>3, <2>4, <2>5
<1> QED BY <1>1, <1>2

\* An assignment that has a library to copy changes the library of its
\* object in one step, and to that library.
THEOREM AssignmentIsAtomic == Spec => AssignAllOrNothing
<1> DEFINE Keeps(t) ==
      pc[t] \notin {"idle", "done"} /\ call[t].op = "assign"
        /\ handle[call[t].src] # NULL =>
          handle'[call[t].dst] \in {handle[call[t].dst], handle[call[t].src]}
<1>1. IInv /\ [Next]_vars => \A t \in Threads : Keeps(t)
  <2> SUFFICES ASSUME IInv, [Next]_vars, NEW u \in Threads,
                      pc[u] \notin {"idle", "done"}, call[u].op = "assign",
                      handle[call[u].src] # NULL
               PROVE  handle'[call[u].dst]
                        \in {handle[call[u].dst], handle[call[u].src]}
    OBVIOUS
  <2>0. /\ call[u].dst \in Insts /\ call[u].dst \in Uses(call[u])
        /\ CallInv(u) /\ AssignInv(u) /\ u \notin Insts
    BY DEF IInv, CallInv, Calls, Uses
  <2>1. CASE UNCHANGED vars
    BY <2>1 DEF vars
  <2>2. CASE FileSystem
    BY <2>2 DEF FileSystem
  <2>3. ASSUME NEW t \in Threads, t # u, Begin(t) \/ Step(t)
        PROVE  handle'[call[u].dst] = handle[call[u].dst]
    BY <2>0, <2>3, HandleKept
  <2>4. CASE Begin(u)
    BY <2>4, ZenonT(40) DEF Begin, BeginLoad, BeginUnload, BeginAssign, MoveConstruct,
       MoveAssign, SwapObjects, Start
  <2>5. CASE SwapCopy(u)
    BY <2>0, <2>5 DEF SwapCopy, Swapped, AssignInv, IInv, TypeOK, Objects
  <2>6. CASE Step(u) /\ ~SwapCopy(u)
    <3>1. pc[u] \in {"unload", "reset", "decorated", "exact", "self"} =>
             obj[u] # call[u].dst
      BY <2>0 DEF CallInv, AssignInv
    <3> QED BY <2>0, <2>6, <3>1 DEF Step, UnloadNothing, UnloadClose,
        UnloadReset, OpenDecorated, CheckDecorated, OpenExact, NotSelf,
        OpenSelf, Location, Return, Attempt, IInv, TypeOK, Objects
  <2> QED BY <2>1, <2>2, <2>3, <2>4, <2>5, <2>6 DEF Next
<1> QED BY <1>1, InductiveInvariant, PTL DEF Spec, AssignAllOrNothing

-----------------------------------------------------------------------------
(* load(): what the thread that loads has established when it is done, and *)
(* the names of its library while the other threads go on.                 *)

\* A library somebody holds loses no name when another object is unloaded.
LEMMA NamesKept ==
    ASSUME IInv, NEW t \in Threads, NEW u \in Threads, u # t,
           pc[u] = "done", Begin(t) \/ Step(t),
           handle[call[u].dst] \in Handles
    PROVE  names[handle[call[u].dst]] \subseteq names'[handle[call[u].dst]]
<1> DEFINE d == call[u].dst
<1>1. call[u] \in Calls /\ d \in Insts /\ d \in Objects /\ d \in Uses(call[u])
  BY DEF IInv, CallInv, Calls, Objects, Uses
<1>2. ~Closed(d)
  <2> SUFFICES ASSUME NEW v \in Threads, pc[v] = "reset", obj[v] = d
               PROVE  FALSE
    BY DEF Closed
  <2>1. v # u /\ call[v] \in Calls /\ obj[v] \in {call[v].dst, v}
    BY DEF IInv, CallInv
  <2>2. call[v].dst = d
    BY <1>1, <2>1
  <2>3. Writes(call[v]) \cap Uses(call[u]) = {}
    BY <2>1 DEF IInv, Exclusive
  <2> QED BY <1>1, <2>2, <2>3 DEF Writes
<1>3. Owned[d] = handle[d] /\ refs[handle[d]] # 0
  <2>1. Owned[d] = handle[d]
    BY <1>1, <1>2 DEF Owned
  <2> QED BY <1>1, <2>1, HolderHasRef DEF IInv, Opened
<1>4. ASSUME NEW p, NEW h, Dlopen(p, h)
      PROVE  names[handle[d]] \subseteq names'[handle[d]]
  BY <1>3, <1>4 DEF Dlopen, DlopenFails, ReopenByName, ReopenByFile, MapNew,
     Mapped, loaderVars, IInv, TypeOK, LoaderTypeOK, Opened
<1>5. CASE UnloadClose(t)
  <2>1. obj[t] \in Objects /\ Owned[obj[t]] = handle[obj[t]]
    BY <1>5, NotClosed DEF UnloadClose, Owned, IInv, TypeOK
  <2>2. obj[t] # d
    <3>1. call[t] \in Calls /\ obj[t] \in {call[t].dst, t}
      BY <1>5 DEF UnloadClose, IInv, CallInv
    <3>2. Writes(call[t]) \cap Uses(call[u]) = {}
      BY <1>5 DEF UnloadClose, IInv, Exclusive
    <3> QED BY <1>1, <3>1, <3>2 DEF Writes
  <2>3. handle[obj[t]] = handle[d] => refs[handle[d]] # 1
    BY <1>1, <1>3, <2>1, <2>2, TwoHolders DEF IInv, Opened
  <2> QED BY <1>5, <2>3 DEF UnloadClose, Dlclose, IInv, TypeOK, LoaderTypeOK
<1>6. CASE OpenDecorated(t) \/ OpenExact(t)
  BY <1>4, <1>6 DEF OpenDecorated, OpenExact
<1>7. CASE Step(t) /\ ~UnloadClose(t) /\ ~OpenDecorated(t) /\ ~OpenExact(t)
  BY <1>7 DEF Step, UnloadNothing, UnloadReset, CheckDecorated, NotSelf,
     OpenSelf, DlopenMain, DlopenFails, Location, SwapCopy, Return, loaderVars
<1>8. CASE Begin(t)
  BY <1>8 DEF Begin, BeginLoad, BeginUnload, BeginAssign, MoveConstruct,
     MoveAssign, SwapObjects, loaderVars
<1> QED BY <1>5, <1>6, <1>7, <1>8

\* What LoadResult says of one thread.
LoadEnded(t) ==
    pc[t] = "done" /\ IsLoad(call[t]) =>
        LET h == handle[call[t].dst] IN
        /\ (ec[t] = "ok") = (h # NULL)
        /\ h \in Handles => names[h] \cap Asked(t) # {}

LEMMA OpenedAnswers ==
    ASSUME IInv, NEW p \in Paths, NEW h, Dlopen(p, h), h # NULL
    PROVE  h \in Handles /\ p \in names'[h]
BY DEF Dlopen, DlopenFails, ReopenByName, ReopenByFile, MapNew, IInv, TypeOK,
       LoaderTypeOK

\* The thread that loads.
LEMMA OwnLoad ==
    ASSUME IInv, NEW t \in Threads, Step(t)
    PROVE  LoadEnded(t)'
<1> SUFFICES ASSUME pc'[t] = "done", IsLoad(call[t]), call' = call
             PROVE  LoadEnded(t)'
  BY DEF LoadEnded, Step, UnloadNothing, UnloadClose, UnloadReset,
     OpenDecorated, CheckDecorated, OpenExact, NotSelf, OpenSelf, Location,
     SwapCopy, Return, Attempt, opVars, Goto, IInv, TypeOK
<1> USE DEF Goto, SetError, opVars, loaderVars
<1>0. /\ pc[t] # "idle" /\ pc[t] # "done" /\ call[t].op # "assign"
      /\ call[t].op # "unload" /\ obj[t] = call[t].dst
      /\ obj[t] \in Objects /\ Main \notin Handles /\ NULL \notin Handles
      /\ CallInv(t)
  <2>1. pc[t] # "idle" /\ pc[t] # "done"
    BY DEF Step, UnloadNothing, UnloadClose, UnloadReset, OpenDecorated,
       CheckDecorated, OpenExact, NotSelf, OpenSelf, Location, SwapCopy, Return,
       IInv, TypeOK
  <2>2. call[t].op # "assign" /\ call[t].op # "unload" /\ CallInv(t)
    BY DEF IsLoad, IInv
  <2> QED BY <2>1, <2>2, LoaderAssumption DEF CallInv, IInv, TypeOK
<1>1. CASE UnloadNothing(t) \/ UnloadReset(t)
  <2>1. handle'[obj[t]] = NULL /\ ec'[t] = "bad_file_descriptor"
    BY <1>0, <1>1 DEF UnloadNothing, UnloadReset, AfterUnload, IInv, TypeOK
  <2> QED BY <1>0, <2>1 DEF LoadEnded
<1>2. CASE OpenDecorated(t)
  <2>1. PICK h \in Handles \cup {NULL} :
           Dlopen(Decorate[path[t]], h) /\ Attempt(t, h, "done", "exists")
    BY <1>2 DEF OpenDecorated
  <2>2. h # NULL /\ handle'[obj[t]] = h /\ path' = path /\ ec' = ec
    BY <1>0, <1>2, <2>1 DEF OpenDecorated, Attempt, IInv, TypeOK
  <2>3. path[t] \in Paths /\ ec[t] = "ok" /\ call[t].op = "load_decorated"
    BY <1>0, <1>2 DEF OpenDecorated, CallInv
  <2>4. Decorate[path[t]] \in Paths
    BY <2>3, SharedLibraryAssumption
  <2>5. h \in Handles /\ Decorate[path[t]] \in names'[h]
    BY <2>1, <2>2, <2>4, OpenedAnswers
  <2>6. Decorate[path[t]] \in Asked(t)'
    BY <2>2, <2>3 DEF Asked
  <2> QED BY <1>0, <2>2, <2>3, <2>5, <2>6 DEF LoadEnded
<1>3. CASE CheckDecorated(t) \/ NotSelf(t)
  <2>1. handle' = handle /\ handle[obj[t]] = NULL
    BY <1>0, <1>3 DEF CheckDecorated, NotSelf, CallInv
  <2>2. ec'[t] # "ok"
    <3>1. CASE CheckDecorated(t)
      BY <3>1 DEF CheckDecorated, IInv, TypeOK
    <3>2. CASE NotSelf(t)
      BY <1>0, <3>2 DEF NotSelf, CallInv
    <3> QED BY <1>3, <3>1, <3>2
  <2> QED BY <1>0, <2>1, <2>2 DEF LoadEnded
<1>4. CASE OpenExact(t)
  <2>1. PICK h \in Handles \cup {NULL} :
           /\ Dlopen(path[t], h) /\ Attempt(t, h, Loaded(t), "self")
           /\ h # NULL => ec' = ec
    BY <1>4 DEF OpenExact
  <2>2. h # NULL /\ handle'[obj[t]] = h /\ path' = path /\ ec' = ec
    BY <1>0, <1>4, <2>1 DEF OpenExact, Attempt, IInv, TypeOK
  <2>3. path[t] \in Paths /\ ec[t] = "ok"
    BY <1>0, <1>4 DEF OpenExact, CallInv
  <2>4. h \in Handles /\ path[t] \in names'[h]
    BY <2>1, <2>2, <2>3, OpenedAnswers
  <2>5. path[t] \in Asked(t)'
    BY <2>2 DEF Asked
  <2> QED BY <1>0, <2>2, <2>3, <2>4, <2>5 DEF LoadEnded
<1>5. CASE OpenSelf(t)
  <2>1. PICK h \in {Main, NULL} :
           /\ Attempt(t, h, Loaded(t), "done")
           /\ SetError(t, IF h # NULL THEN "ok" ELSE "bad_file_descriptor")
    BY <1>5 DEF OpenSelf
  <2>2. /\ handle'[obj[t]] = h
        /\ ec'[t] = IF h # NULL THEN "ok" ELSE "bad_file_descriptor"
    BY <1>0, <2>1 DEF Attempt, IInv, TypeOK
  <2> QED BY <1>0, <2>2 DEF LoadEnded
<1>6. CASE UnloadClose(t) \/ Location(t) \/ SwapCopy(t) \/ Return(t)
  BY <1>0, <1>6 DEF UnloadClose, Location, SwapCopy, Return, CallInv, IInv, TypeOK
<1> QED BY ONLY Step(t), <1>1, <1>2, <1>3, <1>4, <1>5, <1>6 DEF Step

LEMMA BeginStarts ==
    ASSUME NEW t \in Threads, Begin(t)
    PROVE  \E c \in Calls, l \in Labels :
              Start(t, c, l) /\ (IsLoad(c) => l = "unload")
<1> USE DEF Calls, Ops, IsLoad, Labels
<1>1. ASSUME NEW o \in Insts, NEW p \in Requested, NEW d \in BOOLEAN,
             BeginLoad(t, o, p, d)
      PROVE  \E c \in Calls, l \in Labels :
                Start(t, c, l) /\ (IsLoad(c) => l = "unload")
  BY <1>1 DEF BeginLoad
<1>2. ASSUME NEW o \in Insts, NEW s \in Insts,
             \/ BeginUnload(t, o) \/ BeginAssign(t, o, s) \/ MoveConstruct(t, o, s)
             \/ MoveAssign(t, o, s) \/ SwapObjects(t, o, s)
      PROVE  \E c \in Calls, l \in Labels :
                Start(t, c, l) /\ (IsLoad(c) => l = "unload")
  BY <1>2 DEF BeginUnload, BeginAssign, AssignLabel, MoveConstruct, MoveAssign,
     SwapObjects
<1> QED BY <1>1, <1>2 DEF Begin

LEMMA OthersKept ==
    ASSUME TypeOK, NEW t \in Threads, NEW u \in Threads, u # t, Step(t)
    PROVE  /\ pc'[u] = pc[u] /\ call'[u] = call[u]
           /\ path'[u] = path[u] /\ ec'[u] = ec[u]
<1> USE DEF Goto, SetError, opVars, loaderVars, TypeOK
<1>1. CASE UnloadNothing(t) \/ UnloadClose(t) \/ UnloadReset(t)
  BY <1>1 DEF UnloadNothing, UnloadClose, UnloadReset, AfterUnload
<1>2. ASSUME NEW h, NEW l, NEW m, Attempt(t, h, l, m),
             ec' = ec \/ \E e : SetError(t, e)
      PROVE  /\ pc'[u] = pc[u] /\ call'[u] = call[u]
             /\ path'[u] = path[u] /\ ec'[u] = ec[u]
  BY <1>2 DEF Attempt
<1>3. CASE OpenDecorated(t) \/ OpenExact(t) \/ OpenSelf(t)
  BY <1>2, <1>3, Zenon DEF OpenDecorated, OpenExact, OpenSelf
<1>4. CASE CheckDecorated(t) \/ NotSelf(t) \/ SwapCopy(t) \/ Return(t)
  BY <1>4 DEF CheckDecorated, NotSelf, SwapCopy, Return
<1>5. CASE Location(t)
  BY <1>5 DEF Location
<1> QED BY <1>1, <1>3, <1>4, <1>5 DEF Step

\* A load() that returned reported an error exactly if the object is empty,
\* and what it loaded answers to a name it was asked for, also while the
\* other threads load and unload.
THEOREM LoadedAsAsked == Spec => []LoadResult
<1>1. Init => LoadResult
  BY DEF Init, LoadResult
<1>2. IInv /\ LoadResult /\ [Next]_vars => LoadResult'
  <2> SUFFICES ASSUME IInv, LoadResult, [Next]_vars, NEW u \in Threads
               PROVE  LoadEnded(u)'
    BY DEF LoadResult, LoadEnded
  <2>0. LoadEnded(u)
    BY DEF LoadResult, LoadEnded
  <2>1. CASE UNCHANGED vars \/ FileSystem
    BY <2>0, <2>1 DEF vars, FileSystem, FileChange, opVars, loaderVars,
       LoadEnded, Asked
  <2>2. CASE Step(u)
    BY <2>2, OwnLoad
  <2>3. CASE Begin(u)
    <3>1. CASE pc'[u] # "done"
      BY <3>1 DEF LoadEnded
    <3>2. CASE pc'[u] = "done"
      <4>1. PICK c \in Calls, l \in Labels :
                    Start(u, c, l) /\ (IsLoad(c) => l = "unload")
        BY <2>3, BeginStarts
      <4>2. l = "done" /\ call'[u] = c
        BY <3>2, <4>1 DEF Start, Goto, IInv, TypeOK
      <4> QED BY <4>1, <4>2 DEF LoadEnded
    <3> QED BY <3>1, <3>2
  <2>4. ASSUME NEW t \in Threads, t # u, Begin(t) \/ Step(t), pc'[u] = "done",
               IsLoad(call'[u])
        PROVE  LoadEnded(u)'
    <3>1. /\ pc'[u] = pc[u] /\ call'[u] = call[u]
          /\ path'[u] = path[u] /\ ec'[u] = ec[u]
      <4>1. CASE Begin(t)
        <5>1. PICK c \in Calls, l \in Labels : Start(t, c, l)
          BY <4>1, BeginStarts
        <5>2. path'[u] = path[u]
          <6>1. path' = path \/ \E p \in Requested : path' = [path EXCEPT ![t] = p]
            BY <4>1, ZenonT(30) DEF Begin, BeginLoad, BeginUnload, BeginAssign,
               MoveConstruct, MoveAssign, SwapObjects
          <6> QED BY <2>4, <6>1 DEF IInv, TypeOK
        <5> QED BY <2>4, <5>1, <5>2 DEF Start, Goto, SetError, IInv, TypeOK
      <4>2. CASE Step(t)
        BY <2>4, <4>2, OthersKept DEF IInv
      <4> QED BY <2>4, <4>1, <4>2
    <3>2. handle'[call[u].dst] = handle[call[u].dst]
      BY <2>4, <3>1, HandleKept DEF Uses
    <3>3. Asked(u)' = Asked(u)
      BY <3>1 DEF Asked
    <3>4. handle[call[u].dst] \in Handles =>
             names[handle[call[u].dst]] \subseteq names'[handle[call[u].dst]]
      BY <2>4, <3>1, NamesKept
    <3> QED BY <2>0, <3>1, <3>2, <3>3, <3>4 DEF LoadEnded
  <2> QED BY <2>1, <2>2, <2>3, <2>4 DEF Next, LoadEnded
<1> QED BY <1>1, <1>2, InductiveInvariant, PTL DEF Spec

=============================================================================
