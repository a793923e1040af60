---------------------------- MODULE WindowsLibrary ----------------------------
(***************************************************************************)
(* shared_library on Windows (detail/windows): load() tries up to three    *)
(* names and looks for the file of a decorated one that could not be       *)
(* loaded, while other programs create, replace and remove those files;    *)
(* get() gives the user a pointer into the library, which unload() leaves  *)
(* dangling; location(), program_location() and symbol_location_ptr() ask  *)
(* for the path of a module with a buffer of a fixed size.  One thread     *)
(* uses the object.                                                        *)
(***************************************************************************)
EXTENDS Naturals

CONSTANTS
    Lengths,            \* the lengths a path may have
    DefaultPathSize,    \* DEFAULT_PATH_SIZE_
    None

\* The decorated name, the one with MinGW's prefix, and the one given.
Candidates == {"decorated", "mingw", "exact"}
Contents == {"absent", "damaged", "library", "unreadable"}
Modules == {"library", "program"}

ASSUME WindowsLibraryAssumption ==
    /\ Lengths \subseteq Nat \ {0} /\ Lengths # {}
    /\ DefaultPathSize \in Nat \ {0} /\ None \notin Candidates \cup Modules \cup {"private"}

VARIABLES
    files,      \* what is at each name
    length,     \* the length of the path of each module, once it is mapped
    handle,     \* the name the library of the object was loaded by
    decorate,   \* append_decorations was given
    pc, ec,
    escaped,    \* load() was left by an exception of exists()
    missed,     \* the names that were absent at some moment of this load()
    pointer,    \* where the pointer get() returned points to
    asked,      \* what the location was asked of
    answer      \* the module whose path was returned, and the length of that

request == <<asked, answer>>
vars == <<files, length, handle, decorate, pc, ec, escaped, missed, pointer, request>>

Errors == {"ok", "not_found", "bad_exe_format", "access_denied",
           "bad_file_descriptor", "bad_address", "proc_not_found",
           "mod_not_found", "invalid_parameter"}

\* What a location may be asked of: the object, the executable, and addresses:
\* null, of a function of the executable, what get() returned, of a variable on
\* the stack, and one the process cannot have.
Addresses == {"null", "function", "symbol", "stack", "kernel"}
Questions == {"object", "program"} \cup Addresses

NoAnswer == [of |-> None, written |-> 0]

TypeOK ==
    /\ files \in [Candidates -> Contents]
    /\ length \in [Modules -> Lengths]
    /\ handle \in Candidates \cup {None}
    /\ pc \in {"idle", "check_decorated", "check_mingw", "done", "got", "located"}
              \cup Candidates
    /\ ec \in Errors /\ decorate \in BOOLEAN
    /\ escaped \in BOOLEAN
    /\ missed \subseteq Candidates
    /\ pointer \in {None, "library", "freed"}
    /\ asked \in Questions \cup {None}
    /\ answer \in [of : Modules \cup {None}, written : Nat]
    /\ pc \notin {"idle", "done", "got", "located"} => handle = None
    /\ pointer = "library" => handle # None

Init ==
    /\ files \in [Candidates -> Contents] /\ length \in [Modules -> Lengths]
    /\ handle = None /\ decorate = FALSE /\ pc = "idle" /\ ec = "ok" /\ escaped = FALSE
    /\ missed = {} /\ pointer = None /\ asked = None /\ answer = NoAnswer

-----------------------------------------------------------------------------
AbsentNow == {c \in Candidates : files'[c] = "absent"}

FileChange(c, k) ==
    /\ pc \in Candidates \cup {"check_decorated", "check_mingw"}
    /\ files' = [files EXCEPT ![c] = k]
    /\ missed' = missed \cup AbsentNow
    /\ UNCHANGED <<length, decorate, handle, pc, ec, escaped, pointer, request>>

LastError(c) ==
    CASE files[c] = "absent"     -> "not_found"
      [] files[c] = "damaged"    -> "bad_exe_format"
      [] files[c] = "unreadable" -> "access_denied"

\* FreeLibrary() and handle_ = 0: what the user has from get() dangles.
Freed ==
    /\ handle' = None
    /\ pointer' = IF pointer = "library" THEN "freed" ELSE pointer

\* load(path, ec, mode); mutant: what the object had is kept until it is replaced.
BeginLoadKeeps(decorations) ==
    /\ pc = "idle"
    /\ ec' = "ok"
    /\ decorate' = decorations
    /\ pc' = IF decorations THEN "decorated" ELSE "exact"
    /\ missed' = {c \in Candidates : files[c] = "absent"}
    /\ UNCHANGED <<files, length, handle, escaped, pointer, request>>
BeginLoad(decorations) ==
    /\ pc = "idle"
    /\ Freed /\ ec' = "ok"
    /\ decorate' = decorations
    /\ pc' = IF decorations THEN "decorated" ELSE "exact"
    /\ missed' = {c \in Candidates : files[c] = "absent"}
    /\ UNCHANGED <<files, length, escaped, request>>

\* LoadLibraryExW() of load_impl().
TryDecorated(c) ==
    /\ c \in {"decorated", "mingw"} /\ pc = c
    /\ IF files[c] = "library"
       THEN handle' = c /\ pc' = "done" /\ UNCHANGED ec
       ELSE /\ ec' = LastError(c)
            /\ pc' = IF c = "decorated" THEN "check_decorated" ELSE "check_mingw"
            /\ UNCHANGED handle
    /\ UNCHANGED <<files, length, decorate, escaped, missed, pointer, request>>

Checked == IF pc = "check_decorated" THEN "decorated" ELSE "mingw"

\* exists() of load_impl(): the file is there, so the error stands; or it is
\* not, and the next name is tried; or its state cannot be asked.
FileIsThere ==
    /\ pc \in {"check_decorated", "check_mingw"}
    /\ files[Checked] \in {"damaged", "library"}
    /\ pc' = "done"
    /\ UNCHANGED <<files, length, decorate, handle, ec, escaped, missed, pointer, request>>

\* mutants: the error of the attempt stays; any failed attempt is passed over.
FileIsAbsentKeeps ==
    /\ pc \in {"check_decorated", "check_mingw"}
    /\ files[Checked] = "absent"
    /\ pc' = IF pc = "check_decorated" THEN "mingw" ELSE "exact"
    /\ UNCHANGED <<files, length, decorate, handle, ec, escaped, missed, pointer, request>>
FileIsAbsentUnasked ==
    /\ pc \in {"check_decorated", "check_mingw"}
    /\ ec' = "ok"
    /\ pc' = IF pc = "check_decorated" THEN "mingw" ELSE "exact"
    /\ UNCHANGED <<files, length, decorate, handle, escaped, missed, pointer, request>>
FileIsAbsent ==
    /\ pc \in {"check_decorated", "check_mingw"}
    /\ files[Checked] = "absent"
    /\ ec' = "ok"
    /\ pc' = IF pc = "check_decorated" THEN "mingw" ELSE "exact"
    /\ UNCHANGED <<files, length, decorate, handle, escaped, missed, pointer, request>>

ExistsThrows ==
    /\ pc \in {"check_decorated", "check_mingw"}
    /\ files[Checked] = "unreadable"
    /\ escaped' = TRUE /\ pc' = "done"
    /\ UNCHANGED <<files, length, decorate, handle, ec, missed, pointer, request>>

TryExact ==
    /\ pc = "exact"
    /\ IF files["exact"] = "library" THEN handle' = "exact" /\ UNCHANGED ec
       ELSE ec' = LastError("exact") /\ UNCHANGED handle
    /\ pc' = "done"
    /\ UNCHANGED <<files, length, decorate, escaped, missed, pointer, request>>

Return ==
    /\ pc \in {"done", "got", "located"}
    /\ pc' = "idle" /\ ec' = "ok" /\ escaped' = FALSE /\ missed' = {}
    /\ asked' = None /\ answer' = NoAnswer
    /\ UNCHANGED <<files, length, decorate, handle, pointer>>

Unload ==
    /\ pc = "idle" /\ handle # None
    /\ Freed
    /\ UNCHANGED <<files, length, decorate, pc, ec, escaped, missed, request>>

\* get(): GetProcAddress() for a loaded library.  is_resource() is always
\* false, so a library loaded as data is asked as well and has no symbol.
GetSymbol ==
    /\ pc = "idle"
    /\ \/ handle # None /\ pointer' = "library" /\ ec' = "ok"
       \/ handle # None /\ ec' = "proc_not_found" /\ UNCHANGED pointer
       \/ handle = None /\ ec' = "bad_file_descriptor" /\ UNCHANGED pointer
    /\ pc' = "got"
    /\ UNCHANGED <<files, length, decorate, handle, escaped, missed, request>>

-----------------------------------------------------------------------------
\* GetModuleFileNameW(): the length of the path, or the size of the buffer when
\* it does not fit with its end; the path in the buffer is then cut.  NULL is
\* the executable, memory of no module an error.
GetModuleFileName(module, size) ==
    CASE module = "private" -> [returned |-> 0, of |-> None, written |-> 0]
      [] OTHER ->
            LET of == IF module = None THEN "program" ELSE module IN
            IF length[of] < size
            THEN [returned |-> length[of], of |-> of, written |-> length[of]]
            ELSE [returned |-> size, of |-> of, written |-> size - 1]

\* path_from_handle(): every value returned but zero is taken for success, so
\* the loop that makes the buffer larger, for the error of a buffer that is too
\* small, is never entered.
PathFromHandle(module) ==
    LET call == GetModuleFileName(module, DefaultPathSize) IN
    /\ ec' = IF call.returned # 0 THEN "ok" ELSE "mod_not_found"
    /\ answer' = [of |-> call.of, written |-> call.written]

Refuse(e) == ec' = e /\ answer' = NoAnswer

\* VirtualQuery(): the allocation an address is in, which is the handle of the
\* module there; free memory has none.
AllocationBase(a) ==
    CASE a = "function" -> "program"
      [] a = "stack" -> "private"
      [] OTHER -> IF pointer = "library" THEN "library" ELSE None

\* symbol_location_ptr(); mutant: the result of VirtualQuery() is not looked at.
SymbolLocationUnchecked(a) ==
    CASE a = "null" -> Refuse("bad_address")
      [] a = "kernel" -> PathFromHandle(None)
      [] OTHER -> PathFromHandle(AllocationBase(a))
SymbolLocation(a) ==
    CASE a = "null" -> Refuse("bad_address")
      [] a = "kernel" -> Refuse("invalid_parameter")
      [] OTHER -> PathFromHandle(AllocationBase(a))

\* location(), program_location() and symbol_location_ptr().
Locate(q) ==
    /\ pc = "idle" /\ (q = "symbol" => pointer # None)
    /\ asked' = q
    /\ CASE q = "object" /\ handle = None -> Refuse("bad_file_descriptor")
         [] q = "object" /\ handle # None -> PathFromHandle("library")
         [] q = "program" -> PathFromHandle(None)
         [] OTHER -> SymbolLocation(q)
    /\ pc' = "located"
    /\ UNCHANGED <<files, length, decorate, handle, escaped, missed, pointer>>

Next ==
    \/ \E c \in Candidates, k \in Contents : FileChange(c, k)
    \/ \E decorations \in BOOLEAN : BeginLoad(decorations)
    \/ \E c \in {"decorated", "mingw"} : TryDecorated(c)
    \/ FileIsThere \/ FileIsAbsent \/ ExistsThrows
    \/ TryExact \/ Return \/ Unload \/ GetSymbol
    \/ \E q \in Questions : Locate(q)

Spec == Init /\ [][Next]_vars

-----------------------------------------------------------------------------
(***************************************************************************)
(* load() leaves a library or an error, never both and never neither,      *)
(* though ec passes through the results of up to three attempts.           *)
(***************************************************************************)
LoadResult == pc = "done" /\ ~escaped => (handle # None) = (ec = "ok")

(***************************************************************************)
(* The decorated names come first: a load() with decorations takes a later *)
(* name only if each earlier one was absent at some moment of the call,    *)
(* even if files come and go between the attempts.                         *)
(***************************************************************************)
DecoratedFirst ==
    pc = "done" /\ decorate =>
        /\ handle \in {"mingw", "exact"} => "decorated" \in missed
        /\ handle = "exact" => "mingw" \in missed

(***************************************************************************)
(* "On success returns full path and name" (runtime_symbol_info.hpp, of    *)
(* symbol_location_ptr(); shared_library.hpp says so of location()): a     *)
(* location that comes without an error is the whole path.                 *)
(***************************************************************************)
LocationWhole == pc = "located" /\ ec = "ok" => answer.written = length[answer.of]

(***************************************************************************)
(* A location is that of the module asked for, or an error is reported.    *)
(* The one exception is a pointer into a library that was unloaded: its    *)
(* memory has no allocation base, and a handle that is null stands for the *)
(* executable.                                                             *)
(***************************************************************************)
Owner(q) ==
    CASE q = "object" -> IF handle # None THEN "library" ELSE None
      [] q = "symbol" -> IF pointer = "library" THEN "library" ELSE None
      [] q \in {"program", "function"} -> "program"
      [] OTHER -> None

LocationOfModule ==
    pc = "located" =>
        /\ (ec = "ok") = (answer.of # None)
        /\ answer.of # Owner(asked) => asked = "symbol" /\ pointer = "freed"
-----------------------------------------------------------------------------
(***************************************************************************)
(* What the attempts of a load() leave for the next: no library yet, the   *)
(* result of the last attempt in ec, and every name that is absent, or     *)
(* that was passed over, among those missed.                               *)
(***************************************************************************)
Loading == pc \in Candidates \cup {"check_decorated", "check_mingw"}

AttemptInv ==
    /\ Loading => handle = None /\ ~escaped
    /\ pc \in Candidates => ec = "ok"
    /\ pc \in {"check_decorated", "check_mingw"} => ec # "ok"
    /\ escaped => pc = "done"

MissedInv ==
    /\ Loading => \A c \in Candidates : files[c] = "absent" => c \in missed
    /\ pc \in {"mingw", "check_mingw"} => "decorated" \in missed
    /\ pc = "exact" /\ decorate => {"decorated", "mingw"} \subseteq missed

WIInv ==
    /\ TypeOK /\ AttemptInv /\ MissedInv
    /\ LoadResult /\ DecoratedFirst /\ LocationOfModule
===============================================================================
