-------------------------------- MODULE Import --------------------------------
(***************************************************************************)
(* midll::import_symbol and import_alias: a value returned to the user is  *)
(* an aliasing std::shared_ptr (or a library_function that holds one) to a *)
(* symbol, and shares the control block of a shared_library of its own.    *)
(* Threads import, copy, call and drop values while others load and unload *)
(* their own objects.                                                      *)
(*                                                                         *)
(* shared_library is used through what it promises: an object refers to a  *)
(* library or to none and owns one reference (LibraryRefs; RefsExact of    *)
(* SharedLibrary).                                                         *)
(***************************************************************************)
EXTENDS Naturals, FiniteSets

CONSTANTS
    Threads,    \* the threads of the program
    Insts,      \* its shared_library objects
    Vals,       \* its variables for imported values
    Blocks,     \* control blocks make_shared may allocate
    Libs,       \* the libraries
    Exports,    \* the libraries that have the symbol asked for
    NULL

Owners  == Vals \cup Threads
Objects == Insts \cup Blocks

ASSUME ImportAssumption ==
    /\ IsFiniteSet(Vals) /\ IsFiniteSet(Threads)
    /\ IsFiniteSet(Insts) /\ IsFiniteSet(Blocks)
    /\ Vals \cap Threads = {} /\ Insts \cap Blocks = {}
    /\ NULL \notin Blocks \cup Libs \cup Vals
    /\ Exports \subseteq Libs

VARIABLES
    count,      \* the loader's reference count of every library
    held,       \* the library of every shared_library, in a block or not
    uses,       \* use_count of every control block
    ptr,        \* the block a value, or the local `p` of a thread, shares
    sym,        \* the library the pointer in a value points into
    pc, var,    \* where a thread is, and the value it builds or calls
    dying       \* the block whose library a thread destroys

vars == <<count, held, uses, ptr, sym, pc, var, dying>>

Labels == {"idle", "get", "share", "release", "destroy", "calling"}

TypeOK ==
    /\ count \in [Libs -> Nat]
    /\ held \in [Objects -> Libs \cup {NULL}]
    /\ uses \in [Blocks -> Nat]
    /\ ptr \in [Owners -> Blocks \cup {NULL}]
    /\ sym \in [Vals -> Libs \cup {NULL}]
    /\ pc \in [Threads -> Labels]
    /\ var \in [Threads -> Vals \cup {NULL}]
    /\ dying \in [Threads -> Blocks \cup {NULL}]

Init ==
    /\ count = [h \in Libs |-> 0]
    /\ held = [o \in Objects |-> NULL]
    /\ uses = [b \in Blocks |-> 0]
    /\ ptr = [x \in Owners |-> NULL]
    /\ sym = [v \in Vals |-> NULL]
    /\ pc = [t \in Threads |-> "idle"]
    /\ var = [t \in Threads |-> NULL]
    /\ dying = [t \in Threads |-> NULL]

Goto(t, l) == pc' = [pc EXCEPT ![t] = l]

-----------------------------------------------------------------------------
\* The user's own objects.
Load(t, i, h) ==
    /\ pc[t] = "idle" /\ held[i] = NULL
    /\ held' = [held EXCEPT ![i] = h]
    /\ count' = [count EXCEPT ![h] = @ + 1]
    /\ UNCHANGED <<uses, ptr, sym, pc, var, dying>>

Unload(t, i) ==
    /\ pc[t] = "idle" /\ held[i] # NULL
    /\ held' = [held EXCEPT ![i] = NULL]
    /\ count' = [count EXCEPT ![held[i]] = @ - 1]
    /\ UNCHANGED <<uses, ptr, sym, pc, var, dying>>

-----------------------------------------------------------------------------
\* No other thread uses the variable v at the same time.
Unused(v) == \A u \in Threads : var[u] # v
Free(b) == uses[b] = 0 /\ \A t \in Threads : dying[t] # b

\* p = make_shared<shared_library>(...): the import into v begins.
MakeShared(t, v, b) ==
    /\ pc[t] = "idle"
    /\ ptr[v] = NULL /\ Unused(v) /\ Free(b)
    /\ uses' = [uses EXCEPT ![b] = 1]
    /\ ptr' = [ptr EXCEPT ![t] = b]
    /\ var' = [var EXCEPT ![t] = v]
    /\ Goto(t, "get")
    /\ UNCHANGED <<sym, dying>>

\* From a path; a load that fails throws and leaves nothing behind.
MakeFromPath(t, v, b, h) ==
    /\ MakeShared(t, v, b)
    /\ held' = [held EXCEPT ![b] = h]
    /\ count' = [count EXCEPT ![h] = @ + 1]

\* From a const shared_library&: a copy, empty if lib is; mutant: the copy
\* takes over the handle without opening the library again.
MakeFromCopyShallow(t, v, b, i) ==
    /\ MakeShared(t, v, b)
    /\ held' = [held EXCEPT ![b] = held[i]]
    /\ UNCHANGED count
MakeFromCopy(t, v, b, i) ==
    /\ MakeShared(t, v, b)
    /\ held' = [held EXCEPT ![b] = held[i]]
    /\ count' = IF held[i] = NULL THEN count
                ELSE [count EXCEPT ![held[i]] = @ + 1]

\* From a shared_library&&, which is empty afterwards; mutant: it is not.
MakeFromMoveKeeps(t, v, b, i) ==
    /\ MakeShared(t, v, b)
    /\ held' = [held EXCEPT ![b] = held[i]]
    /\ UNCHANGED count
MakeFromMove(t, v, b, i) ==
    /\ MakeShared(t, v, b)
    /\ held' = [held EXCEPT ![b] = held[i], ![i] = NULL]
    /\ UNCHANGED count

\* p->get<T>(name): throws if nothing is loaded or there is no such symbol.
GetThrows(t) ==
    /\ pc[t] = "get" /\ held[ptr[t]] \notin Exports
    /\ var' = [var EXCEPT ![t] = NULL]
    /\ Goto(t, "release")
    /\ UNCHANGED <<count, held, uses, ptr, sym, dying>>

Get(t) ==
    /\ pc[t] = "get" /\ held[ptr[t]] \in Exports
    /\ sym' = [sym EXCEPT ![var[t]] = held[ptr[t]]]
    /\ Goto(t, "share")
    /\ UNCHANGED <<count, held, uses, ptr, var, dying>>

\* type(p, pointer): the value shares the block of p; mutant: it gets the
\* block without counting.
ShareUncounted(t) ==
    /\ pc[t] = "share"
    /\ ptr' = [ptr EXCEPT ![var[t]] = ptr[t]]
    /\ var' = [var EXCEPT ![t] = NULL]
    /\ Goto(t, "release")
    /\ UNCHANGED <<count, held, uses, sym, dying>>
Share(t) ==
    /\ pc[t] = "share"
    /\ uses' = [uses EXCEPT ![ptr[t]] = @ + 1]
    /\ ptr' = [ptr EXCEPT ![var[t]] = ptr[t]]
    /\ var' = [var EXCEPT ![t] = NULL]
    /\ Goto(t, "release")
    /\ UNCHANGED <<count, held, sym, dying>>

-----------------------------------------------------------------------------
\* ~shared_ptr of the owner x in thread t: the last one destroys the library.
Release(t, x) ==
    /\ ptr[x] # NULL
    /\ ptr' = [ptr EXCEPT ![x] = NULL]
    /\ uses' = [uses EXCEPT ![ptr[x]] = @ - 1]
    /\ dying' = [dying EXCEPT ![t] = IF uses[ptr[x]] = 1 THEN ptr[x] ELSE NULL]
    /\ Goto(t, IF uses[ptr[x]] = 1 THEN "destroy" ELSE "idle")
    /\ UNCHANGED <<count, held>>

\* The local p at the end of import_symbol, returning or throwing.
ReleaseLocal(t) ==
    /\ pc[t] = "release"
    /\ Release(t, t)
    /\ UNCHANGED <<sym, var>>

ReleaseValue(t, v) ==
    /\ pc[t] = "idle" /\ Unused(v)
    /\ Release(t, v)
    /\ sym' = [sym EXCEPT ![v] = NULL]
    /\ UNCHANGED var

\* ~shared_library in the block; mutant: the library is not given back.
DestroyLeaks(t) ==
    /\ pc[t] = "destroy"
    /\ dying' = [dying EXCEPT ![t] = NULL]
    /\ Goto(t, "idle")
    /\ UNCHANGED <<count, held, uses, ptr, sym, var>>
Destroy(t) ==
    LET h == held[dying[t]] IN
    /\ pc[t] = "destroy"
    /\ held' = [held EXCEPT ![dying[t]] = NULL]
    /\ count' = IF h = NULL THEN count ELSE [count EXCEPT ![h] = @ - 1]
    /\ dying' = [dying EXCEPT ![t] = NULL]
    /\ Goto(t, "idle")
    /\ UNCHANGED <<uses, ptr, sym, var>>

\* Copies of a value share its block, also while it is being called.
CopyValue(t, v, w) ==
    /\ pc[t] = "idle"
    /\ ptr[v] # NULL /\ ptr[w] = NULL /\ Unused(w)
    /\ uses' = [uses EXCEPT ![ptr[v]] = @ + 1]
    /\ ptr' = [ptr EXCEPT ![w] = ptr[v]]
    /\ sym' = [sym EXCEPT ![w] = sym[v]]
    /\ UNCHANGED <<count, held, pc, var, dying>>

\* library_function::operator(), or a use of the object pointed to.
BeginCall(t, v) ==
    /\ pc[t] = "idle" /\ ptr[v] # NULL
    /\ var' = [var EXCEPT ![t] = v]
    /\ Goto(t, "calling")
    /\ UNCHANGED <<count, held, uses, ptr, sym, dying>>

EndCall(t) ==
    /\ pc[t] = "calling"
    /\ var' = [var EXCEPT ![t] = NULL]
    /\ Goto(t, "idle")
    /\ UNCHANGED <<count, held, uses, ptr, sym, dying>>

-----------------------------------------------------------------------------
User(t) ==
    \/ \E i \in Insts : (\E h \in Libs : Load(t, i, h)) \/ Unload(t, i)
    \/ \E v \in Vals :
          \/ ReleaseValue(t, v)
          \/ BeginCall(t, v)
          \/ \E w \in Vals : CopyValue(t, v, w)
          \/ \E b \in Blocks :
                \/ \E h \in Libs : MakeFromPath(t, v, b, h)
                \/ \E i \in Insts : \/ MakeFromCopy(t, v, b, i)
                                    \/ MakeFromMove(t, v, b, i)

Step(t) ==
    \/ GetThrows(t) \/ Get(t) \/ Share(t)
    \/ ReleaseLocal(t) \/ Destroy(t) \/ EndCall(t)

Next == \E t \in Threads : User(t) \/ Step(t)

Spec == Init /\ [][Next]_vars

\* A thread inside import_symbol, a destructor or a call keeps running.
FairSpec == Spec /\ \A t \in Threads : WF_vars(Step(t))

-----------------------------------------------------------------------------
(***************************************************************************)
(* "Returned value refcounts usage of the loaded shared library, so that   *)
(* it won't get unload until all copies of return value are not destroyed" *)
(* (import.hpp): what a value points into, be it called or not, is mapped, *)
(* whatever happens to the object or the values it was made from.          *)
(***************************************************************************)
ImportedIsLoaded ==
    \A v \in Vals : ptr[v] # NULL => sym[v] \in Libs /\ count[sym[v]] > 0

\* The control block counts its values and the local of a running import, so
\* it is neither destroyed under a value nor kept by none.
Sharing(b) == {x \in Owners : ptr[x] = b}
UsesExact == \A b \in Blocks : uses[b] = Cardinality(Sharing(b))

(***************************************************************************)
(* The loader's count of a library is the number of shared_library objects *)
(* that refer to it, the hidden ones of the values included: an import     *)
(* that throws, a move and a destroyed value leak and double nothing.      *)
(***************************************************************************)
Referring(h) == {o \in Objects : held[o] = h}
CountExact == \A h \in Libs : count[h] = Cardinality(Referring(h))

(***************************************************************************)
(* Imports keep the promise of shared_library: with the objects hidden in  *)
(* control blocks the program still behaves like LibraryRefs.              *)
(***************************************************************************)
Refs == INSTANCE LibraryRefs WITH
            Insts  <- Objects,
            held   <- held,
            loaded <- {h \in Libs : count[h] > 0}
ImplementsRefs == Refs!Spec

(***************************************************************************)
(* A library that only an abandoned control block refers to is given back, *)
(* also after an import that threw.                                        *)
(***************************************************************************)
Abandoned(b) == held[b] # NULL /\ \A v \in Vals : ptr[v] # b
GivenBack == \A b \in Blocks : Abandoned(b) ~> ~Abandoned(b)

-----------------------------------------------------------------------------
\* A value points into the library of its block, which cannot change while
\* the block is used; a block in no use has no library left.
BlockInv ==
    /\ \A v \in Vals : ptr[v] # NULL => sym[v] \in Libs /\ sym[v] = held[ptr[v]]
    /\ \A b \in Blocks : Free(b) => held[b] = NULL

\* What a thread has at each label: its local p, the value it builds or
\* calls, the block it destroys.
ThreadInv(t) ==
    /\ ptr[t] # NULL <=> pc[t] \in {"get", "share", "release"}
    /\ pc[t] \in {"get", "share"} => var[t] \in Vals /\ ptr[var[t]] = NULL
    /\ pc[t] = "share" =>
          held[ptr[t]] \in Exports /\ sym[var[t]] = held[ptr[t]]
    /\ pc[t] = "calling" => var[t] \in Vals /\ ptr[var[t]] # NULL
    /\ pc[t] \notin {"get", "share", "calling"} => var[t] = NULL
    /\ dying[t] # NULL <=> pc[t] = "destroy"
    /\ dying[t] # NULL => uses[dying[t]] = 0

\* Nobody else works on the value a thread builds or the block it destroys.
Apart ==
    \A t, u \in Threads : t # u =>
        /\ pc[t] \in {"get", "share"} => var[t] # var[u]
        /\ dying[t] # NULL => dying[t] # dying[u]

IInv ==
    /\ TypeOK /\ UsesExact /\ CountExact
    /\ BlockInv /\ Apart
    /\ \A t \in Threads : ThreadInv(t)
===============================================================================
