------------------------------- MODULE DyldScan -------------------------------
(***************************************************************************)
(* path_from_handle() on macOS: dyld has no call that names the image of a *)
(* handle, so one thread walks the list of images, opens and closes each   *)
(* by its name and compares.  Other threads load and unload images in the  *)
(* meantime; the list moves up when an image leaves it, and the memory of  *)
(* its name is free for another one.  The object whose location is asked   *)
(* keeps its own reference all the time.                                   *)
(***************************************************************************)
EXTENDS Naturals, Sequences, SequencesExt

CONSTANTS
    Libs,       \* the libraries there are
    Targets,    \* what the object may refer to: libraries, or Program
    Program,    \* the handle dlopen(NULL) gives
    NULL,
    Cells,      \* the memory dyld may keep the names of images in
    Garbage,    \* what is read from a name that is no name any more
    MaxRefs     \* bound: references other threads hold of one library

ASSUME DyldScanAssumption ==
    /\ Targets \subseteq Libs \cup {Program} /\ Targets # {}
    /\ Program \notin Libs \cup Cells /\ NULL \notin Libs \cup Cells \cup {Program}
    /\ Garbage \notin Libs \cup {Program, NULL} /\ Cells \cap Libs = {}
    /\ MaxRefs \in Nat \ {0}

VARIABLES
    images,     \* dyld's list without the image of the executable, at place 0
    refs,       \* the references dyld counts
    others,     \* of those, the ones other threads hold
    cell,       \* where dyld keeps the name of each image
    text,       \* what the memory holds, also when it is free
    target, pc,
    i, count,   \* the loop variable and its bound
    name,       \* image_name: a pointer, to the name of the executable or a cell
    path,       \* the path made from it
    probe,      \* probe_handle
    removed     \* an image left the list since count was read

vars == <<images, refs, others, cell, text, target, pc, i, count, name, path,
          probe, removed>>
dyld == <<images, refs, cell, text>>

Loaded == {l \in Libs : refs[l] > 0}

TypeOK ==
    /\ images \in Seq(Libs) /\ IsInjective(images)
    /\ refs \in [Libs -> Nat] /\ others \in [Libs -> 0..MaxRefs]
    /\ target \in Targets
    /\ pc \in {"idle", "name", "open", "close", "convert", "found", "missing"}
    /\ i \in 0..count + 1 /\ count \in Nat
    /\ name \in Cells \cup {Program, NULL}
    /\ path \in Libs \cup {Program, NULL, Garbage}
    /\ probe \in Libs \cup {Program, NULL}
    /\ removed \in BOOLEAN
    /\ cell \in [Libs -> Cells \cup {NULL}] /\ text \in [Cells -> Libs \cup {Garbage}]
    /\ ToSet(images) = Loaded
    /\ \A l \in Libs : IF l \in Loaded THEN cell[l] \in Cells /\ text[cell[l]] = l
                                     ELSE cell[l] = NULL

Own(l) == IF target = l THEN 1 ELSE 0

Init ==
    /\ target \in Targets
    /\ others = [l \in Libs |-> 0]
    /\ refs = [l \in Libs |-> Own(l)]
    /\ images = IF target = Program THEN <<>> ELSE <<target>>
    /\ cell \in [Libs -> Cells \cup {NULL}]
    /\ \A l \in Libs : cell[l] = NULL <=> target # l
    /\ text = [c \in Cells |-> IF \E l \in Libs : cell[l] = c THEN target ELSE Garbage]
    /\ pc = "idle" /\ i = 0 /\ count = 0
    /\ name = NULL /\ path = NULL /\ probe = NULL /\ removed = FALSE

-----------------------------------------------------------------------------
InUse(c) == \E l \in Libs : cell[l] = c

\* dlopen() of a library by its name, and dlclose() of its handle: the name of
\* an image goes to memory that is free, and is freed with the image.
Acquire(l) ==
    /\ refs' = [refs EXCEPT ![l] = @ + 1]
    /\ IF refs[l] > 0 THEN UNCHANGED <<images, cell, text>>
       ELSE \E c \in Cells :
               /\ ~InUse(c)
               /\ images' = Append(images, l)
               /\ cell' = [cell EXCEPT ![l] = c]
               /\ text' = [text EXCEPT ![c] = l]

Release(l) ==
    /\ refs' = [refs EXCEPT ![l] = @ - 1]
    /\ IF refs[l] > 1 THEN UNCHANGED <<images, cell, removed>>
       ELSE /\ \E k \in 1..Len(images) :
                  images[k] = l /\ images' = RemoveAt(images, k)
            /\ cell' = [cell EXCEPT ![l] = NULL]
            /\ removed' = TRUE
    /\ UNCHANGED text

\* What a read through the pointer p finds: of a name that was freed, what is
\* there by now or nothing that makes sense.
Read(p) == IF p \in {Program, NULL} THEN {p}
           ELSE IF InUse(p) THEN {text[p]} ELSE {text[p], Garbage}

scan == <<target, pc, i, count, name, path, probe>>

OtherLoads(l) ==
    /\ others[l] < MaxRefs
    /\ Acquire(l)
    /\ others' = [others EXCEPT ![l] = @ + 1]
    /\ UNCHANGED <<scan, removed>>

OtherUnloads(l) ==
    /\ others[l] > 0
    /\ Release(l)
    /\ others' = [others EXCEPT ![l] = @ - 1]
    /\ UNCHANGED scan

-----------------------------------------------------------------------------
\* _dyld_image_count() counts the executable too.
Begin ==
    /\ pc = "idle"
    /\ count' = Len(images) + 1 /\ i' = 0 /\ removed' = FALSE
    /\ pc' = "name"
    /\ UNCHANGED <<dyld, others, target, name, path, probe>>

\* _dyld_get_image_name(i): NULL out of range.
ReadName ==
    /\ pc = "name"
    /\ name' = CASE i = 0 -> Program
                 [] i \in 1..Len(images) -> cell[images[i]]
                 [] OTHER -> NULL
    /\ pc' = "open"
    /\ UNCHANGED <<dyld, others, target, i, count, path, probe, removed>>

\* dlopen(image_name): the program for NULL; by the path of the executable the
\* same handle or another one that stands for its image.
OpenProgram ==
    /\ pc = "open" /\ name \in {NULL, Program}
    /\ probe' \in IF name = NULL THEN {Program} ELSE {Program, NULL}
    /\ pc' = "close"
    /\ UNCHANGED <<dyld, others, target, i, count, name, path, removed>>

\* dlopen() of whatever the name says by now; an image that has gone is loaded
\* again, and another library if its name took the place.
OpenImage ==
    /\ pc = "open" /\ name \in Cells
    /\ \E l \in Libs \cap Read(name) : probe' = l /\ Acquire(l)
    /\ pc' = "close"
    /\ UNCHANGED <<others, target, i, count, name, path, removed>>

\* The image has gone since its name was read, and cannot be loaded again.
OpenGone ==
    /\ pc = "open" /\ name \in Cells
    /\ Read(name) \ Loaded # {}
    /\ probe' = NULL
    /\ pc' = "close"
    /\ UNCHANGED <<dyld, others, target, i, count, name, path, removed>>

Decide(last) ==
    /\ IF probe = target THEN pc' = "convert" /\ UNCHANGED i
       ELSE IF i = last THEN pc' = "missing" /\ UNCHANGED i
       ELSE pc' = "name" /\ i' = i + 1
    /\ probe' = NULL
    /\ UNCHANGED <<others, target, count, name, path>>

\* dlclose(probe_handle), then the comparison; mutants: the handle that matched
\* is not closed; a handle is closed again; the loop ends one image early; the
\* loop does not advance.
CloseAndCompareLeaks ==
    /\ pc = "close"
    /\ IF probe \in Libs /\ probe # target THEN Release(probe)
       ELSE UNCHANGED <<dyld, removed>>
    /\ Decide(count)
CloseAndCompareTwice ==
    /\ pc = "close"
    /\ IF probe \in Libs THEN refs' = [refs EXCEPT ![probe] = @ - 2] ELSE UNCHANGED refs
    /\ UNCHANGED <<images, cell, text, removed>>
    /\ Decide(count)
CloseAndCompareShort ==
    /\ pc = "close"
    /\ IF probe \in Libs THEN Release(probe) ELSE UNCHANGED <<dyld, removed>>
    /\ Decide(count - 2)
CloseAndCompareStays ==
    /\ pc = "close"
    /\ IF probe \in Libs THEN Release(probe) ELSE UNCHANGED <<dyld, removed>>
    /\ pc' = (IF probe = target THEN "convert" ELSE "name")
    /\ probe' = NULL
    /\ UNCHANGED <<others, target, i, count, name, path>>
CloseAndCompare ==
    /\ pc = "close"
    /\ IF probe \in Libs THEN Release(probe) ELSE UNCHANGED <<dyld, removed>>
    /\ Decide(count)

\* return image_name: the path is made from the pointer after the handle was
\* closed; mutant: the name is asked for again.
ConvertAgain ==
    /\ pc = "convert"
    /\ path' = IF i \in 1..Len(images) THEN images[i] ELSE IF i = 0 THEN Program ELSE NULL
    /\ pc' = "found"
    /\ UNCHANGED <<dyld, others, target, i, count, name, probe, removed>>
Convert ==
    /\ pc = "convert"
    /\ path' \in Read(name)
    /\ pc' = "found"
    /\ UNCHANGED <<dyld, others, target, i, count, name, probe, removed>>

Return ==
    /\ pc \in {"found", "missing"}
    /\ pc' = "idle" /\ i' = 0 /\ count' = 0 /\ removed' = FALSE
    /\ name' = NULL /\ path' = NULL
    /\ UNCHANGED <<dyld, others, target, probe>>

Scan == ReadName \/ OpenProgram \/ OpenImage \/ OpenGone \/ CloseAndCompare \/ Convert

Next ==
    \/ \E l \in Libs : OtherLoads(l) \/ OtherUnloads(l)
    \/ Begin \/ Scan \/ Return

\* The thread that scans is scheduled.
Spec == Init /\ [][Next]_vars /\ WF_vars(Scan)

-----------------------------------------------------------------------------
(***************************************************************************)
(* The scan leaves no reference behind, whatever the other threads do to   *)
(* the images it opens: dyld counts the object, the other threads and the  *)
(* one handle being compared.                                              *)
(***************************************************************************)
RefsExact ==
    \A l \in Libs : refs[l] = others[l] + Own(l) + (IF probe = l THEN 1 ELSE 0)

(***************************************************************************)
(* The path is the one of the object, although the name it is made from    *)
(* is memory of dyld that other threads free and fill: the name that led   *)
(* to the handle of the object is the one name that stays.  Only for the   *)
(* executable it may be made from no name at all, when its handle is met   *)
(* behind the end of the list: a null pointer is then read.                *)
(***************************************************************************)
PathIsTarget ==
    pc = "found" => path = target \/ (target = Program /\ path = NULL)

(***************************************************************************)
(* A library is found as long as no image leaves the list: those other     *)
(* threads load go behind the ones that were counted.  The program needs   *)
(* the place behind the list, which another thread may have filled.        *)
(***************************************************************************)
FoundUndisturbed ==
    pc = "missing" => removed \/ (target = Program /\ name # NULL)

\* The bound is read once, so images loaded all the time do not keep the scan
\* going.
ScanEnds == pc = "name" ~> pc \in {"found", "missing"}

-----------------------------------------------------------------------------
\* The name of the object's library is in one place only, where it stays.
NameInv == \A c \in Cells : text[c] = target => cell[target] = c

\* What is known of the handle being compared and of the name it came from.
ProbeInv ==
    /\ probe # NULL => pc = "close"
    /\ pc = "close" /\ name = NULL => probe = Program
    /\ pc = "close" /\ probe = Program => name \in {NULL, Program}
    /\ pc = "close" /\ probe \in Libs /\ probe = target => name = cell[target]
    /\ pc = "convert" =>
          name \in IF target = Program THEN {NULL, Program} ELSE {cell[target]}

\* As long as no image has left the list, that of the object is among those
\* the loop has before it, and is recognised when its turn comes.
Ahead(p) ==
    /\ images[p] = target /\ i <= p /\ p < count
    /\ i = p /\ pc \in {"open", "close"} => name = cell[target]
    /\ i = p /\ pc = "close" => probe = target

AheadInv ==
    pc \in {"name", "open", "close"} =>
        /\ i <= count
        /\ target \in Libs /\ ~removed => \E p \in 1..Len(images) : Ahead(p)

DIInv ==
    /\ TypeOK /\ RefsExact /\ NameInv /\ ProbeInv /\ AheadInv
    /\ FoundUndisturbed /\ PathIsTarget
===============================================================================
