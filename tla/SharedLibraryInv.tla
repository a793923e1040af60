--------------------------- MODULE SharedLibraryInv ---------------------------
(***************************************************************************)
(* The inductive invariant behind the properties of SharedLibrary: what    *)
(* the loader knows of a mapped library, who may touch which object, and   *)
(* what every thread has established when it reaches a label.              *)
(***************************************************************************)
EXTENDS SharedLibrary

\* Two mapped libraries never answer to one name, and no library answers to
\* a name of the executable.
LoaderInv ==
    /\ fs[Exe] \in {ExeFile, NoFile} /\ fs[Gone] = NoFile
    /\ \A h \in Handles :
          /\ Mapped(h) => lname[h] \in names[h] /\ image[h] \in Images
          /\ ~Mapped(h) => names[h] = {}
          /\ \A p \in names[h] : p \notin {Exe, Gone} /\ fs[p] # ExeFile
    /\ \A h, g \in Handles : h # g => names[h] \cap names[g] = {}

\* Nobody else uses the objects an operation changes.
Exclusive ==
    \A t, u \in Threads :
        t # u /\ pc[t] # "idle" /\ pc[u] # "idle" =>
            Writes(call[t]) \cap Uses(call[u]) = {}

\* The operation a thread is in, the object the base class works on.
CallInv(t) ==
    /\ pc[t] = "idle" => obj[t] = t
    /\ pc[t] # "idle" => call[t] \in Calls
    /\ pc[t] \notin {"idle", "done"} =>
          /\ obj[t] \in {call[t].dst, t}
          /\ call[t].op \in {"load", "load_decorated", "unload", "assign"}
          /\ call[t].op # "assign" => obj[t] = call[t].dst
    /\ pc[t] \in {"decorated", "exists"} => call[t].op = "load_decorated"
    /\ pc[t] \in {"decorated", "exists", "exact", "self"} =>
          /\ handle[obj[t]] = NULL
          /\ path[t] \in Paths
          /\ call[t].op = "assign" \/ IsLoad(call[t])
    /\ pc[t] = "reset" => handle[obj[t]] # NULL
    /\ pc[t] \in {"location", "swap"} => call[t].op = "assign"
    /\ pc[t] = "self" => ec[t] = "bad_file_descriptor"
    /\ pc[t] \notin {"done", "self"} => ec[t] = "ok"

\* The temporary of assign() has a library only until its destructor ran.
CopyInv(t) ==
    handle[t] # NULL => pc[t] \in {"swap", "unload", "reset"} /\ obj[t] = t

\* assign(): the copy is made of the library lib refers to all the time.
AssignInv(t) ==
    LET s == handle[call[t].src]
        d == handle[call[t].dst]
    IN
    pc[t] # "idle" /\ call[t].op = "assign" =>
        /\ pc[t] = "location" => s # NULL
        /\ pc[t] \in {"exact", "self"} =>
              /\ s # NULL /\ obj[t] = t
              /\ s \in Handles => path[t] = lname[s]
              /\ s = Main => path[t] \in {Exe, Gone}
        /\ pc[t] = "swap" => s # NULL /\ handle[t] = s /\ obj[t] = t
        /\ pc[t] \in {"unload", "reset"} =>
              IF obj[t] = t THEN d = s ELSE s = NULL
        /\ pc[t] = "done" /\ ec[t] = "ok" => d = s

IInv ==
    /\ TypeOK
    /\ RefsExact
    /\ LoaderInv
    /\ Exclusive
    /\ \A t \in Threads : CallInv(t) /\ CopyInv(t) /\ AssignInv(t)
=============================================================================
