------------------------------- MODULE Loader -------------------------------
(***************************************************************************)
(* The process-wide dynamic loader and the file system, as the POSIX code  *)
(* of midll sees them through dlopen, dlclose, the link map of a handle    *)
(* and std::filesystem.  None of it is code of the repository: every       *)
(* definition here is an assumption about the environment.                 *)
(*                                                                         *)
(* A handle is the address of the loader's object for one loaded library.  *)
(* An address may be reused once the library has been unmapped, which is   *)
(* what makes a comparison of two handles a property worth checking.       *)
(***************************************************************************)
EXTENDS Naturals, FiniteSets

CONSTANTS
    Handles,    \* addresses the loader may give to its objects
    Main,       \* the handle dlopen(NULL) returns: the executable itself
    NULL,       \* the null handle
    Paths,      \* names that may be given to dlopen
    Exe,        \* the path the executable was started from
    Gone,       \* a path no file ever has ("<exe> (deleted)" in /proc)
    Mutable,    \* the paths whose file may change while the program runs
    Images,     \* the files that are loadable libraries
    ExeFile,    \* the file of the executable
    NoFile      \* what a path with no file refers to

ASSUME LoaderAssumption ==
    /\ Main \notin Handles
    /\ NULL \notin Handles \cup {Main}
    /\ Exe \in Paths /\ Gone \in Paths /\ Exe # Gone
    /\ Mutable \subseteq Paths \ {Gone}
    /\ ExeFile \notin Images /\ NoFile \notin Images /\ ExeFile # NoFile

VARIABLES
    fs,         \* the file each path refers to now
    refs,       \* the loader's reference count of every handle
    names,      \* the names a mapped library answers to
    lname,      \* l_name of the link map: the name it was mapped under
    image       \* the file it was mapped from

loaderVars == <<refs, names, lname, image>>

Opened == Handles \cup {Main}
Files  == Images \cup {ExeFile, NoFile}

Mapped(h) == refs[h] > 0

LoaderTypeOK ==
    /\ fs \in [Paths -> Files]
    /\ refs \in [Opened -> Nat]
    /\ names \in [Handles -> SUBSET Paths]
    /\ lname \in [Handles -> Paths]
    /\ image \in [Handles -> Files]

LoaderInit ==
    /\ fs \in [Paths -> Files]
    /\ fs[Exe] = ExeFile /\ fs[Gone] = NoFile
    /\ refs = [h \in Opened |-> 0]
    /\ names = [h \in Handles |-> {}]
    /\ lname = [h \in Handles |-> Gone]
    /\ image = [h \in Handles |-> NoFile]

(***************************************************************************)
(* A file is installed, replaced or removed by somebody else.  The         *)
(* executable may be removed, it is not overwritten with a library, and no *)
(* path becomes another name of it while it runs.                          *)
(***************************************************************************)
FileChange ==
    /\ \E p \in Mutable, f \in Images \cup {NoFile} :
          /\ fs[p] # f /\ (p = Exe => f = NoFile)
          /\ fs' = [fs EXCEPT ![p] = f]
    /\ UNCHANGED loaderVars

Exists(p)        == fs[p] # NoFile
Equivalent(p, q) == Exists(p) /\ fs[p] = fs[q]

\* readlink("/proc/self/exe"): the kernel marks a replaced executable.
ProgramLocation == IF fs[Exe] = ExeFile THEN Exe ELSE Gone

NameOpen(p) == \E h \in Handles : Mapped(h) /\ p \in names[h]
FileOpen(p) == \E h \in Handles : Mapped(h) /\ image[h] = fs[p]

(***************************************************************************)
(* dlopen(p) returning h, in the order the loader looks: a library already *)
(* known by this name, whatever the file is now; a mapped library with     *)
(* this very file, which learns the name; a new mapping.  Any of them may  *)
(* fail for lack of memory or because the file is no library.              *)
(***************************************************************************)
ReopenByName(p, h) ==
    /\ h \in Handles /\ Mapped(h) /\ p \in names[h]
    /\ refs' = [refs EXCEPT ![h] = @ + 1]
    /\ UNCHANGED <<names, lname, image>>

ReopenByFile(p, h) ==
    /\ ~NameOpen(p)
    /\ h \in Handles /\ Mapped(h) /\ image[h] = fs[p]
    /\ refs' = [refs EXCEPT ![h] = @ + 1]
    /\ names' = [names EXCEPT ![h] = @ \cup {p}]
    /\ UNCHANGED <<lname, image>>

MapNew(p, h) ==
    /\ ~NameOpen(p) /\ ~FileOpen(p)
    /\ h \in Handles /\ ~Mapped(h) /\ fs[p] \in Images
    /\ refs' = [refs EXCEPT ![h] = 1]
    /\ names' = [names EXCEPT ![h] = {p}]
    /\ lname' = [lname EXCEPT ![h] = p]
    /\ image' = [image EXCEPT ![h] = fs[p]]

DlopenFails(h) == h = NULL /\ UNCHANGED loaderVars

Dlopen(p, h) ==
    \/ ReopenByName(p, h)
    \/ ReopenByFile(p, h)
    \/ MapNew(p, h)
    \/ DlopenFails(h)

\* dlopen(NULL): the executable is always mapped, its count only grows.
DlopenMain(h) ==
    \/ /\ h = Main
       /\ refs' = [refs EXCEPT ![Main] = @ + 1]
       /\ UNCHANGED <<names, lname, image>>
    \/ DlopenFails(h)

\* dlclose(h): the last reference unmaps the library and frees its address.
Dlclose(h) ==
    LET last == h # Main /\ refs[h] = 1 IN
    /\ refs' = [refs EXCEPT ![h] = @ - 1]
    /\ names' = IF last THEN [names EXCEPT ![h] = {}] ELSE names
    /\ lname' = IF last THEN [lname EXCEPT ![h] = Gone] ELSE lname
    /\ image' = IF last THEN [image EXCEPT ![h] = NoFile] ELSE image
=============================================================================
