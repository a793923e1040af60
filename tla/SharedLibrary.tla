---------------------------- MODULE SharedLibrary ----------------------------
(***************************************************************************)
(* midll::shared_library on POSIX: objects that own one reference to a     *)
(* library each, used by several threads on top of one dynamic loader.     *)
(* An operation is a sequence of steps, one for every call it makes to the *)
(* loader or the file system, so that the calls of other threads and       *)
(* changes of the files may come between them.                             *)
(*                                                                         *)
(* An object that has not been constructed yet, or was destroyed, is an    *)
(* empty one: the default constructor does nothing else, the destructor    *)
(* is unload().  The local `copy` of assign() in thread t is the object t. *)
(***************************************************************************)
EXTENDS Loader

CONSTANTS
    Threads,        \* the threads of the program
    Insts,          \* its shared_library objects
    EmptyPath,      \* the path ""
    Decorate,       \* shared_library_impl::decorate()
    NoCall,         \* call of a thread that is in no operation
    Program,        \* the operations the program uses
    Requested       \* the paths it gives to load()

Objects == Insts \cup Threads

ASSUME SharedLibraryAssumption ==
    /\ IsFiniteSet(Threads) /\ IsFiniteSet(Insts)
    /\ Threads \cap Insts = {}
    /\ EmptyPath \notin Paths
    /\ Requested \subseteq Paths \cup {EmptyPath}
    /\ Decorate \in [Paths -> Paths]

VARIABLES
    handle,     \* handle_ of every object
    pc,         \* where each thread is in its operation
    call,       \* the operation and its arguments
    obj,        \* the object the base class works on: *this or `copy`
    path,       \* the path it loads
    ec          \* the error_code of the operation

vars == <<fs, refs, names, lname, image, handle, pc, call, obj, path, ec>>
opVars == <<call, obj, path, ec>>

Ops == {"load", "load_decorated", "unload", "assign", "move_construct",
        "move_assign", "swap"}
Calls == [op : Ops, dst : Insts, src : Insts]
\* What an operation reports; "filesystem_error" is the exception of exists().
Errors == {"ok", "bad_file_descriptor", "executable_format_error",
           "no_program_location", "filesystem_error"}
Labels == {"idle", "unload", "reset", "decorated", "exists", "exact", "self",
           "location", "swap", "done"}

TypeOK ==
    /\ LoaderTypeOK
    /\ handle \in [Objects -> Opened \cup {NULL}]
    /\ pc \in [Threads -> Labels]
    /\ call \in [Threads -> Calls \cup {NoCall}]
    /\ obj \in [Threads -> Objects]
    /\ path \in [Threads -> Paths \cup {EmptyPath}]
    /\ ec \in [Threads -> Errors]

Init ==
    /\ LoaderInit
    /\ handle = [o \in Objects |-> NULL]
    /\ pc = [t \in Threads |-> "idle"]
    /\ call = [t \in Threads |-> NoCall]
    /\ obj = [t \in Threads |-> t]
    /\ path = [t \in Threads |-> EmptyPath]
    /\ ec = [t \in Threads |-> "ok"]

-----------------------------------------------------------------------------
Goto(t, l)   == pc' = [pc EXCEPT ![t] = l]
SetError(t, e) == ec' = [ec EXCEPT ![t] = e]

Writes(c) == IF c.op \in {"move_construct", "move_assign", "swap"}
             THEN {c.dst, c.src} ELSE {c.dst}
Uses(c)   == {c.dst, c.src}
IsLoad(c) == c.op \in {"load", "load_decorated"}

(***************************************************************************)
(* The class synchronizes nothing: an object one thread changes is used by *)
(* no other, several threads may read one (assign from the same object).   *)
(***************************************************************************)
RaceFree(t, c) ==
    \A u \in Threads \ {t} : pc[u] # "idle" =>
        /\ Writes(c) \cap Uses(call[u]) = {}
        /\ Uses(c) \cap Writes(call[u]) = {}

Start(t, c, l) ==
    /\ pc[t] = "idle"
    /\ c.op \in Program
    /\ RaceFree(t, c)
    /\ call' = [call EXCEPT ![t] = c]
    /\ SetError(t, "ok")
    /\ Goto(t, l)
    /\ UNCHANGED fs

\* load(), and the constructors from a path, which load into an empty object.
BeginLoad(t, o, p, decorated) ==
    /\ Start(t, [op |-> IF decorated THEN "load_decorated" ELSE "load",
                 dst |-> o, src |-> o], "unload")
    /\ obj' = [obj EXCEPT ![t] = o]
    /\ path' = [path EXCEPT ![t] = p]
    /\ UNCHANGED <<loaderVars, handle>>

\* unload() and the destructor.
BeginUnload(t, o) ==
    /\ Start(t, [op |-> "unload", dst |-> o, src |-> o], "unload")
    /\ obj' = [obj EXCEPT ![t] = o]
    /\ UNCHANGED <<loaderVars, handle, path>>

\* Where assign() goes on after comparing the handles; mutants: an empty lib
\* is ignored; *this is unloaded before the copy is made.
AssignIgnoresEmpty(o, s) ==
    IF handle[o] = handle[s] \/ handle[s] = NULL THEN "done" ELSE "location"
AssignUnloadsFirst(o, s) ==
    IF handle[o] = handle[s] THEN "done" ELSE "unload"
AssignLabel(o, s) ==
    IF handle[o] = handle[s] THEN "done"
    ELSE IF handle[s] = NULL THEN "unload" ELSE "location"

\* assign(), the copy constructor and the copy assignment, up to the first
\* call that leaves the object.
BeginAssign(t, o, s) ==
    /\ Start(t, [op |-> "assign", dst |-> o, src |-> s], AssignLabel(o, s))
    /\ obj' = [obj EXCEPT ![t] = o]
    /\ UNCHANGED <<loaderVars, handle, path>>

\* std::swap of two handles; mutant: one of them is not written back.
SwappedHalf(o, s) == [handle EXCEPT ![o] = handle[s]]
Swapped(o, s) == [handle EXCEPT ![o] = handle[s], ![s] = handle[o]]

\* The move constructor of o, the move assignment and swap() touch nothing
\* but the two objects.
MoveConstruct(t, o, s) ==
    /\ o # s /\ handle[o] = NULL
    /\ Start(t, [op |-> "move_construct", dst |-> o, src |-> s], "done")
    /\ handle' = [handle EXCEPT ![o] = handle[s], ![s] = NULL]
    /\ UNCHANGED <<loaderVars, obj, path>>

MoveAssign(t, o, s) ==
    /\ Start(t, [op |-> "move_assign", dst |-> o, src |-> s], "done")
    /\ handle' = IF handle[s] # handle[o] THEN Swapped(o, s) ELSE handle
    /\ UNCHANGED <<loaderVars, obj, path>>

SwapObjects(t, o, s) ==
    /\ Start(t, [op |-> "swap", dst |-> o, src |-> s], "done")
    /\ handle' = Swapped(o, s)
    /\ UNCHANGED <<loaderVars, obj, path>>

-----------------------------------------------------------------------------
\* What follows the unload() that every load, and some assigns, begin with;
\* mutant: load("") returns without an error.
AfterUnloadSilent(t) ==
    /\ Goto(t, IF ~IsLoad(call[t]) \/ path[t] = EmptyPath THEN "done"
               ELSE IF call[t].op = "load" THEN "exact" ELSE "decorated")
    /\ UNCHANGED ec

AfterUnload(t) ==
    IF ~IsLoad(call[t])
    THEN Goto(t, "done") /\ UNCHANGED ec
    ELSE IF path[t] = EmptyPath
    THEN Goto(t, "done") /\ SetError(t, "bad_file_descriptor")
    ELSE /\ Goto(t, IF call[t].op = "load" THEN "exact" ELSE "decorated")
         /\ UNCHANGED ec

UnloadNothing(t) ==
    /\ pc[t] = "unload" /\ handle[obj[t]] = NULL
    /\ AfterUnload(t)
    /\ UNCHANGED <<fs, loaderVars, handle, call, obj, path>>

\* dlclose(handle_); mutant: of *this where the temporary is meant.
UnloadCloseThis(t) ==
    /\ pc[t] = "unload" /\ handle[obj[t]] # NULL
    /\ Dlclose(handle[call[t].dst])
    /\ Goto(t, "reset")
    /\ UNCHANGED <<fs, handle, opVars>>
UnloadClose(t) ==
    /\ pc[t] = "unload" /\ handle[obj[t]] # NULL
    /\ Dlclose(handle[obj[t]])
    /\ Goto(t, "reset")
    /\ UNCHANGED <<fs, handle, opVars>>

\* handle_ = 0; mutant: the closed handle is kept.
UnloadKeeps(t) ==
    /\ pc[t] = "reset"
    /\ AfterUnload(t)
    /\ UNCHANGED <<fs, loaderVars, handle, call, obj, path>>
UnloadReset(t) ==
    /\ pc[t] = "reset"
    /\ handle' = [handle EXCEPT ![obj[t]] = NULL]
    /\ AfterUnload(t)
    /\ UNCHANGED <<fs, loaderVars, call, obj, path>>

\* handle_ = dlopen(...): the attempt either ends the load or leads to next.
Attempt(t, h, opened, failed) ==
    /\ handle' = [handle EXCEPT ![obj[t]] = h]
    /\ Goto(t, IF h # NULL THEN opened ELSE failed)
    /\ UNCHANGED <<fs, call, obj, path>>

\* A load that ended: assign goes on with the copy, unless it failed.
Loaded(t) == IF call[t].op = "assign" THEN "swap" ELSE "done"

OpenDecorated(t) ==
    /\ pc[t] = "decorated"
    /\ \E h \in Handles \cup {NULL} :
          Dlopen(Decorate[path[t]], h) /\ Attempt(t, h, "done", "exists")
    /\ UNCHANGED ec

\* equivalent(sl, loc, prog_loc_err), false when the location of the program
\* could not be found out (no /proc, no memory).
IsProgram(p, located) == located /\ Equivalent(p, ProgramLocation)

\* The decorated name could not be loaded: it is no library, or it is absent.
\* exists() takes no error_code: it leaves load() with an exception when the
\* state of the file cannot be asked.
CheckDecorated(t) ==
    /\ pc[t] = "exists"
    /\ \/ \E located \in BOOLEAN :
             IF Exists(Decorate[path[t]]) /\ ~IsProgram(path[t], located)
             THEN Goto(t, "done") /\ SetError(t, "executable_format_error")
             ELSE Goto(t, "exact") /\ UNCHANGED ec
       \/ Goto(t, "done") /\ SetError(t, "filesystem_error")
    /\ UNCHANGED <<fs, loaderVars, handle, call, obj, path>>

OpenExact(t) ==
    /\ pc[t] = "exact"
    /\ \E h \in Handles \cup {NULL} :
          /\ Dlopen(path[t], h)
          /\ Attempt(t, h, Loaded(t), "self")
          /\ IF h # NULL THEN UNCHANGED ec
             ELSE SetError(t, "bad_file_descriptor")

NotSelf(t) ==
    /\ pc[t] = "self"
    /\ \E located \in BOOLEAN : ~IsProgram(path[t], located)
    /\ Goto(t, "done")
    /\ UNCHANGED <<fs, loaderVars, handle, opVars>>

\* The executable itself; mutant: the error of the failed load is not cleared.
OpenSelfDirty(t) ==
    /\ pc[t] = "self" /\ IsProgram(path[t], TRUE)
    /\ \E h \in {Main, NULL} : DlopenMain(h) /\ Attempt(t, h, Loaded(t), "done")
    /\ UNCHANGED ec
OpenSelf(t) ==
    /\ pc[t] = "self" /\ IsProgram(path[t], TRUE)
    /\ \E h \in {Main, NULL} :
          /\ DlopenMain(h)
          /\ Attempt(t, h, Loaded(t), "done")
          /\ SetError(t, IF h # NULL THEN "ok" ELSE "bad_file_descriptor")

\* lib.location(ec): l_name of the handle, or where the executable is.
Location(t) ==
    LET h == handle[call[t].src] IN
    /\ pc[t] = "location"
    /\ \/ /\ path' = [path EXCEPT ![t] = IF h = Main THEN ProgramLocation
                                         ELSE lname[h]]
          /\ obj' = [obj EXCEPT ![t] = t]
          /\ Goto(t, "exact")
          /\ UNCHANGED ec
       \/ /\ h = Main
          /\ SetError(t, "no_program_location")
          /\ Goto(t, "done")
          /\ UNCHANGED <<obj, path>>
    /\ UNCHANGED <<fs, loaderVars, handle, call>>

\* swap(copy); then the destructor of copy releases what *this had;
\* mutant: it does not.
SwapCopyLeaks(t) ==
    /\ pc[t] = "swap"
    /\ handle' = Swapped(call[t].dst, t)
    /\ Goto(t, "done")
    /\ UNCHANGED <<fs, loaderVars, opVars>>
SwapCopy(t) ==
    /\ pc[t] = "swap"
    /\ handle' = Swapped(call[t].dst, t)
    /\ Goto(t, "unload")
    /\ UNCHANGED <<fs, loaderVars, opVars>>

\* The caller has its result and the locals of the operation are gone.
Return(t) ==
    /\ pc[t] = "done"
    /\ Goto(t, "idle")
    /\ call' = [call EXCEPT ![t] = NoCall]
    /\ obj' = [obj EXCEPT ![t] = t]
    /\ path' = [path EXCEPT ![t] = EmptyPath]
    /\ SetError(t, "ok")
    /\ UNCHANGED <<fs, loaderVars, handle>>

-----------------------------------------------------------------------------
Begin(t) ==
    \E o \in Insts :
        \/ \E p \in Requested, d \in BOOLEAN : BeginLoad(t, o, p, d)
        \/ BeginUnload(t, o)
        \/ \E s \in Insts : \/ BeginAssign(t, o, s)
                            \/ MoveConstruct(t, o, s)
                            \/ MoveAssign(t, o, s)
                            \/ SwapObjects(t, o, s)

Step(t) ==
    \/ UnloadNothing(t) \/ UnloadClose(t) \/ UnloadReset(t)
    \/ OpenDecorated(t) \/ CheckDecorated(t) \/ OpenExact(t)
    \/ NotSelf(t) \/ OpenSelf(t)
    \/ Location(t) \/ SwapCopy(t) \/ Return(t)

FileSystem == FileChange /\ UNCHANGED <<handle, pc, opVars>>

Next == FileSystem \/ \E t \in Threads : Begin(t) \/ Step(t)

Spec == Init /\ [][Next]_vars

\* A thread inside an operation is never blocked and keeps running.
Fairness == \A t \in Threads : WF_vars(Step(t))
FairSpec == Spec /\ Fairness

-----------------------------------------------------------------------------
\* dlclose(handle_) was called for o and handle_ = 0 was not reached yet.
Closed(o) == \E t \in Threads : pc[t] = "reset" /\ obj[t] = o

Owned == [o \in Objects |-> IF Closed(o) THEN NULL ELSE handle[o]]
Holders(h) == {o \in Objects : Owned[o] = h}

(***************************************************************************)
(* The count of the loader is the number of objects that will give one     *)
(* reference back: load, assign with its temporary, move, swap and unload  *)
(* neither leak a library nor close one twice, whatever other threads do.  *)
(***************************************************************************)
RefsExact == \A h \in Opened : refs[h] = Cardinality(Holders(h))

(***************************************************************************)
(* When assign() reports no error, *this and lib are the same library      *)
(* (shared_library.hpp: "post lib == *this"), although the copy was made   *)
(* by path and the file at that path may have been replaced meanwhile.     *)
(***************************************************************************)
AssignShares ==
    \A t \in Threads :
        pc[t] = "done" /\ call[t].op = "assign" /\ ec[t] = "ok" =>
            handle[call[t].dst] = handle[call[t].src]

(***************************************************************************)
(* load() leaves the object loaded exactly when it reports no error, and   *)
(* then with a library known by the requested or by the decorated name, or *)
(* with the executable, and never with what the object held before.        *)
(***************************************************************************)
Asked(t) == {path[t]} \cup
    IF call[t].op = "load_decorated" /\ path[t] \in Paths
    THEN {Decorate[path[t]]} ELSE {}

LoadResult ==
    \A t \in Threads :
        pc[t] = "done" /\ IsLoad(call[t]) =>
            LET h == handle[call[t].dst] IN
            /\ (ec[t] = "ok") = (h # NULL)
            /\ h \in Handles => names[h] \cap Asked(t) # {}

(***************************************************************************)
(* assign() changes *this in one step to the library of lib or not at all: *)
(* no failure in the middle (no location, no memory) loses what it had.    *)
(***************************************************************************)
AssignAllOrNothing ==
    [][\A t \in Threads :
         pc[t] \notin {"idle", "done"} /\ call[t].op = "assign"
           /\ handle[call[t].src] # NULL =>
             handle'[call[t].dst] \in {handle[call[t].dst], handle[call[t].src]}
      ]_vars

(***************************************************************************)
(* What get() returned stays valid while an object refers to the library:  *)
(* it is not unmapped, nor mapped anew from another file, when the object  *)
(* passes it to another one or other objects of it come and go.            *)
(***************************************************************************)
InUse(h) == \E o \in Insts : Owned[o] = h

MappingStays ==
    [][\A h \in Handles : InUse(h) /\ InUse(h)' =>
          Mapped(h)' /\ image'[h] = image[h] /\ lname'[h] = lname[h]]_vars

(***************************************************************************)
(* The documentation of the move assignment (shared_library.hpp, "post     *)
(* lib.is_loaded() returns false"): the object moved from is empty.  The   *)
(* code swaps the two objects instead, or leaves both alone.               *)
(***************************************************************************)
MovedFromIsEmpty ==
    \A t \in Threads :
        /\ pc[t] = "done" /\ call[t].op = "move_assign"
        /\ call[t].src # call[t].dst
        => handle[call[t].src] = NULL

(***************************************************************************)
(* The objects and the loader together implement LibraryRefs: what a user  *)
(* holds is loaded, an assignment never brings in another library than the *)
(* one it copies, a move or a swap never touches the loader.               *)
(***************************************************************************)
Refs == INSTANCE LibraryRefs WITH
            Libs   <- Opened,
            held   <- [i \in Insts |-> Owned[i]],
            loaded <- {h \in Opened : Mapped(h)}

ImplementsRefs == Refs!Spec

(***************************************************************************)
(* A library that only temporaries hold is given back or taken by an       *)
(* object: the temporary of assign() is not forgotten.                     *)
(***************************************************************************)
Unheld(h) == Mapped(h) /\ \A i \in Insts : Owned[i] # h
ReleasedEventually == \A h \in Opened : Unheld(h) ~> ~Unheld(h)
=============================================================================
