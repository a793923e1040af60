----------------------------- MODULE LibraryRefs -----------------------------
(***************************************************************************)
(* What shared_library promises its users: every object refers to one      *)
(* library or to none, a library some object refers to is loaded, and      *)
(* nothing is loaded except by an object that asked for it.  Threads,      *)
(* error codes, paths, temporaries and reference counts do not exist here. *)
(***************************************************************************)
CONSTANTS Insts, Libs, NULL

VARIABLES
    held,       \* the library each object refers to
    loaded      \* the libraries in the address space

avars == <<held, loaded>>

Holds(h) == \E i \in Insts : held[i] = h

Init ==
    /\ held = [i \in Insts |-> NULL]
    /\ loaded = {}

\* A load: only an object that has nothing takes a library.
Take(i, h) ==
    /\ held[i] = NULL
    /\ held' = [held EXCEPT ![i] = h]
    /\ loaded' = loaded \cup {h}

\* An assignment: i refers to the library of j, which is loaded already.
Share(i, j) ==
    /\ held[j] # NULL
    /\ held' = [held EXCEPT ![i] = held[j]]
    /\ UNCHANGED loaded

\* An unload: the library leaves the address space if nobody else has it.
Drop(i) ==
    /\ held[i] # NULL
    /\ held' = [held EXCEPT ![i] = NULL]
    /\ \/ UNCHANGED loaded
       \/ loaded' = loaded \ {held[i]} /\ \A j \in Insts : held'[j] # held[i]

\* A move or a swap loads and unloads nothing.
Trade(i, j) ==
    /\ held' = [held EXCEPT ![i] = held[j], ![j] = held[i]]
    /\ UNCHANGED loaded

\* What an assignment replaced is given back a little later.
Forget(h) ==
    /\ h \in loaded /\ ~Holds(h)
    /\ loaded' = loaded \ {h}
    /\ UNCHANGED held

Next ==
    \/ \E i \in Insts : \/ \E h \in Libs : Take(i, h)
                        \/ Drop(i)
                        \/ \E j \in Insts : Share(i, j) \/ Trade(i, j)
    \/ \E h \in Libs : Forget(h)

Spec == Init /\ [][Next]_avars

\* A library some object refers to is in the address space: the pointers
\* get() returned from it stay valid.
HeldIsLoaded == \A i \in Insts : held[i] # NULL => held[i] \in loaded
=============================================================================
