---------------------------- MODULE ErrorReporting ----------------------------
(***************************************************************************)
(* How midll reports failures on POSIX: the error_code an overload fills   *)
(* in, which the caller may hand over dirty, the exception the other       *)
(* overload throws, and the text of dlerror() that detail::report_error    *)
(* adds to it.  The loader keeps one message per thread until somebody     *)
(* asks for it, so this is one thread that calls one operation after the   *)
(* other; an operation is a sequence of loader calls.                      *)
(***************************************************************************)
CONSTANTS
    Ops,        \* the operations the thread calls
    Systems,    \* the systems the program is built for
    NoOp

Operations == {"load", "load_decorated", "assign", "get", "has", "location",
               "symbol_location_ptr", "symbol_location", "this_line_location",
               "program_location"}

ASSUME ErrorReportingAssumption ==
    /\ Ops \subseteq Operations /\ NoOp \notin Ops
    /\ Systems \subseteq {"Linux", "Android", "FreeBSD", "QNX", "macOS"}

VARIABLES
    system,     \* the one of them it runs on
    lib,        \* what the object refers to: "none", "library" or "program"
    dl,         \* the message dlerror() would return, and from when it is
    ec,         \* the error_code of the operation, or the one of its caller
    op, throws, \* the operation, and whether it is the throwing overload
    pc,
    result,     \* did the operation get what it was called for
    text,       \* the dlerror() text in the exception thrown last
    escaped     \* an exception of std::filesystem left the operation

vars == <<system, lib, dl, ec, op, throws, pc, result, text, escaped>>

Messages == {"none", "own", "old"}
Labels == {"idle", "load", "decorated", "exists", "exact", "self", "program",
           "assign", "symbol", "location", "soinfo", "dladdr", "failed", "done"}
Errors == {"ok", "bad_file_descriptor", "executable_format_error",
           "invalid_seek", "bad_address", "no_such_file"}

TypeOK ==
    /\ system \in Systems
    /\ lib \in {"none", "library", "program"}
    /\ dl \in Messages
    /\ ec \in Errors
    /\ op \in Ops \cup {NoOp}
    /\ throws \in BOOLEAN
    /\ pc \in Labels
    /\ result \in {"unknown", "got", "nothing", "garbage"}
    /\ text \in Messages /\ escaped \in BOOLEAN
    /\ pc = "failed" => ec # "ok"

Init ==
    /\ system \in Systems
    /\ lib = "none" /\ dl = "none" /\ ec \in {"ok", "bad_address"}
    /\ op = NoOp /\ throws = FALSE /\ pc = "idle"
    /\ result = "unknown" /\ text = "none" /\ escaped = FALSE

-----------------------------------------------------------------------------
\* What a loader call leaves for dlerror(): a failure replaces the message, a
\* success may discard an older one or not.
LoaderFailed    == dl' = "own"
LoaderSucceeded == dl' \in {dl, "none"}

\* detail::reset_dlerror(); mutant: it does not read the message.
ResetNothing == UNCHANGED dl
Reset == dl' = "none"

Goto(l) == pc' = l
Got     == result' = "got" /\ Goto("done")
Fail(e) == ec' = e /\ result' = "nothing" /\ Goto("failed")

\* report_error() in the throwing overload, nothing in the other one.
Report ==
    /\ pc = "failed"
    /\ IF throws THEN text' = dl /\ dl' = "none" ELSE UNCHANGED <<text, dl>>
    /\ Goto("done")
    /\ UNCHANGED <<lib, ec, op, throws, result>>

\* An error thrown without asking dlerror(); mutant: the message is taken.
ThrowAsking(e) ==
    /\ ec' = e /\ result' = "nothing" /\ Goto("done")
    /\ text' = dl /\ dl' = "none"
Throw(e) ==
    /\ ec' = e /\ result' = "nothing" /\ Goto("done")
    /\ UNCHANGED <<text, dl>>

-----------------------------------------------------------------------------
First(o) ==
    CASE o \in {"load", "load_decorated"} -> "load"
      [] o = "assign" -> "assign"
      [] o \in {"get", "has"} -> "symbol"
      [] o = "location" -> "location"
      [] o \in {"symbol_location_ptr", "symbol_location", "this_line_location"} -> "dladdr"
      [] o = "program_location" -> "program"

\* get() has only the throwing form and has() none; symbol_location_ptr() is
\* the one overload that does not clear the error_code it is given
\* (ClearsNothing, the mutant: no overload does).
ClearsNothing(o) == FALSE
Clears(o) == o # "symbol_location_ptr"

Call(o, throwing) ==
    /\ pc = "idle"
    /\ o = "get" => throwing
    /\ o = "has" => ~throwing
    /\ op' = o /\ throws' = throwing
    /\ ec' = IF throwing \/ o = "has" \/ Clears(o) THEN "ok" ELSE ec
    /\ dl' = IF dl = "own" THEN "old" ELSE dl
    /\ result' = "unknown" /\ text' = "none"
    /\ Goto(First(o))
    /\ UNCHANGED <<system, lib, escaped>>

Return ==
    /\ pc = "done"
    /\ Goto("idle") /\ op' = NoOp /\ throws' = FALSE
    /\ result' = "unknown" /\ text' = "none" /\ escaped' = FALSE
    /\ UNCHANGED <<system, lib, dl, ec>>

-----------------------------------------------------------------------------
\* load(): unload() first, then an empty path is refused.
LoadEmpty ==
    /\ pc = "load"
    /\ lib' = "none"
    /\ Reset
    /\ Fail("bad_file_descriptor")
    /\ UNCHANGED <<op, throws, text>>

LoadUnload ==
    /\ pc = "load"
    /\ lib' = "none"
    /\ IF lib = "none" THEN UNCHANGED dl ELSE LoaderSucceeded
    /\ Goto(IF op = "load_decorated" THEN "decorated" ELSE "exact")
    /\ UNCHANGED <<ec, op, throws, result, text>>

\* dlopen() succeeded; mutant: the messages of earlier attempts stay.
OpenedQuietly(l) ==
    /\ lib' = l /\ Got
    /\ LoaderSucceeded
    /\ UNCHANGED <<ec, op, throws, text>>
Opened(l) ==
    /\ lib' = l /\ Got
    /\ Reset
    /\ UNCHANGED <<ec, op, throws, text>>

OpenDecorated ==
    /\ pc = "decorated"
    /\ \/ Opened("library")
       \/ LoaderFailed /\ Goto("exists")
          /\ UNCHANGED <<lib, ec, op, throws, result, text>>

CheckDecorated ==
    /\ pc = "exists"
    /\ \/ Fail("executable_format_error")
       \/ Goto("exact") /\ UNCHANGED <<ec, result>>
    /\ UNCHANGED <<lib, dl, op, throws, text>>

\* exists(actual_path) throws where the state of the file cannot be asked.
ExistsThrows ==
    /\ pc = "exists"
    /\ escaped' = TRUE /\ result' = "nothing" /\ Goto("done")
    /\ UNCHANGED <<lib, dl, ec, op, throws, text>>

OpenExact ==
    /\ pc = "exact"
    /\ \/ Opened("library")
       \/ /\ LoaderFailed
          /\ ec' = "bad_file_descriptor" /\ Goto("self")
          /\ UNCHANGED <<lib, op, throws, result, text>>

\* Not the path of the executable: the error stays; else the executable.
NotSelf ==
    /\ pc = "self"
    /\ Fail("bad_file_descriptor")
    /\ UNCHANGED <<lib, dl, op, throws, text>>

OpenSelf ==
    /\ pc = "self"
    /\ \/ lib' = "program" /\ ec' = "ok" /\ dl' = "none" /\ Got
       \/ UNCHANGED lib /\ LoaderFailed /\ Fail("bad_file_descriptor")
    /\ UNCHANGED <<op, throws, text>>

\* assign(): the same library or an empty one needs no copy; else the copy is
\* opened by the location of the other object, and what *this had is closed.
AssignTrivial ==
    /\ pc = "assign"
    /\ \/ UNCHANGED <<lib, dl>>
       \/ lib' = "none" /\ IF lib = "none" THEN UNCHANGED dl ELSE LoaderSucceeded
    /\ Got
    /\ UNCHANGED <<ec, op, throws, text>>

AssignNoLocation ==
    /\ pc = "assign"
    /\ Fail("no_such_file")
    /\ UNCHANGED <<lib, dl, op, throws, text>>

AssignCopy ==
    /\ pc = "assign"
    /\ \/ \E l \in {"library", "program"} : Opened(l)
       \/ LoaderFailed /\ Fail("bad_file_descriptor")
          /\ UNCHANGED <<lib, op, throws, text>>

\* get() and has(): is_loaded(), then symbol_addr(); mutant: a missing symbol
\* is told by the null pointer only.
SymbolUnloaded ==
    /\ pc = "symbol" /\ lib = "none"
    /\ Throw("bad_file_descriptor")
    /\ UNCHANGED <<lib, op, throws>>

SymbolFound ==
    /\ pc = "symbol" /\ lib # "none"
    /\ LoaderSucceeded /\ Got
    /\ UNCHANGED <<lib, ec, op, throws, text>>

SymbolMissingSilent ==
    /\ pc = "symbol" /\ lib # "none"
    /\ LoaderFailed /\ result' = "nothing" /\ Goto("failed")
    /\ UNCHANGED <<lib, ec, op, throws, text>>
SymbolMissing ==
    /\ pc = "symbol" /\ lib # "none"
    /\ LoaderFailed /\ Fail("invalid_seek")
    /\ UNCHANGED <<lib, op, throws, text>>

\* location(): l_name of the handle, or the location of the program.
LocationUnloaded ==
    /\ pc = "location" /\ lib = "none"
    /\ Throw("bad_file_descriptor")
    /\ UNCHANGED <<lib, op, throws>>

\* path_from_handle(): the handle is the link map, or dlinfo() finds it; no
\* name there means the program.
LocationLinkMap ==
    /\ pc = "location" /\ lib # "none" /\ system \in {"Linux", "QNX", "FreeBSD"}
    /\ IF lib = "library" THEN Got ELSE Goto("program") /\ UNCHANGED result
    /\ IF system = "FreeBSD" THEN LoaderSucceeded ELSE UNCHANGED dl
    /\ UNCHANGED <<lib, ec, op, throws, text>>

LocationNoLinkMap ==
    /\ pc = "location" /\ lib # "none" /\ system = "FreeBSD"
    /\ Fail("bad_file_descriptor") /\ Reset
    /\ UNCHANGED <<lib, op, throws, text>>

\* The walk through the images of dyld; DyldScan says when it may find nothing.
LocationImages ==
    /\ pc = "location" /\ lib # "none" /\ system = "macOS"
    /\ \/ Got /\ UNCHANGED ec
       \/ Fail("bad_file_descriptor")
    /\ Reset
    /\ UNCHANGED <<lib, op, throws, text>>

\* Android: an address in the linker's soinfo of the handle, whose layout is
\* guessed; when symbol_location_ptr() fails for the address of the one layout,
\* which may be null, the other one is tried; mutant: with the error of the one.
LocationAddress ==
    /\ pc = "location" /\ lib # "none" /\ system = "Android"
    /\ \/ Got /\ UNCHANGED <<dl, ec>>
       \/ ec' = "bad_address" /\ Goto("soinfo")
          /\ (Reset \/ UNCHANGED dl) /\ UNCHANGED result
    /\ UNCHANGED <<lib, op, throws, text>>

LocationOtherKeeps ==
    /\ pc = "soinfo"
    /\ \/ Got /\ UNCHANGED <<dl, ec>>
       \/ Fail("bad_address") /\ (Reset \/ UNCHANGED dl)
    /\ UNCHANGED <<lib, op, throws, text>>
LocationOtherAddress ==
    /\ pc = "soinfo"
    /\ \/ ec' = "ok" /\ Got /\ UNCHANGED dl
       \/ Fail("bad_address") /\ (Reset \/ UNCHANGED dl)
    /\ UNCHANGED <<lib, op, throws, text>>

\* program_location_impl(): read_symlink() sets or clears the error_code; two
\* calls with a growing buffer, or a line of a file, fail with one error.
ProgramLocationLink ==
    /\ pc = "program" /\ system \in {"Linux", "Android"}
    /\ \/ ec' = "ok" /\ Got
       \/ Fail("no_such_file")
    /\ UNCHANGED <<lib, dl, op, throws, text>>

ProgramLocationBuffer ==
    /\ pc = "program" /\ system = "macOS"
    /\ \/ ec' = "ok" /\ Got
       \/ Fail("bad_file_descriptor")
    /\ UNCHANGED <<lib, dl, op, throws, text>>

ProgramLocationFile ==
    /\ pc = "program" /\ system = "QNX"
    /\ \/ ec' = "ok" /\ Got
       \/ Fail("bad_file_descriptor")
    /\ UNCHANGED <<lib, dl, op, throws, text>>

\* The result of sysctl() is not looked at: when it failed the path is made
\* from a buffer nobody wrote to.
ProgramLocationSysctl ==
    /\ pc = "program" /\ system = "FreeBSD"
    /\ ec' = "ok"
    /\ result' \in {"got", "garbage"} /\ Goto("done")
    /\ UNCHANGED <<lib, dl, op, throws, text>>

\* symbol_location_ptr(): a null pointer is refused before dladdr(), and a
\* reference has no null address; mutant: a failed dladdr() says nothing.
SymbolLocationNull ==
    /\ pc = "dladdr" /\ op = "symbol_location_ptr"
    /\ Fail("bad_address")
    /\ UNCHANGED <<lib, dl, op, throws, text>>

SymbolLocationKeeps ==
    /\ pc = "dladdr"
    /\ UNCHANGED dl
    /\ \/ Got /\ UNCHANGED ec
       \/ Fail("bad_address")
    /\ UNCHANGED <<lib, op, throws, text>>
SymbolLocation ==
    /\ pc = "dladdr"
    /\ \/ ec' = "ok" /\ Got /\ UNCHANGED dl
       \/ Fail("bad_address") /\ Reset
    /\ UNCHANGED <<lib, op, throws, text>>

-----------------------------------------------------------------------------
Quietly ==
    \/ LoadEmpty \/ LoadUnload \/ OpenDecorated \/ CheckDecorated
    \/ OpenExact \/ NotSelf \/ OpenSelf
    \/ AssignTrivial \/ AssignNoLocation \/ AssignCopy
    \/ SymbolUnloaded \/ SymbolFound \/ SymbolMissing
    \/ LocationUnloaded \/ LocationLinkMap \/ LocationNoLinkMap
    \/ LocationImages \/ LocationAddress \/ LocationOtherAddress
    \/ ProgramLocationLink \/ ProgramLocationBuffer
    \/ ProgramLocationFile \/ ProgramLocationSysctl
    \/ SymbolLocationNull \/ SymbolLocation
    \/ Report

Step == Quietly /\ UNCHANGED <<system, escaped>>

Next ==
    \/ \E o \in Ops, throwing \in BOOLEAN : Call(o, throwing)
    \/ Step
    \/ ExistsThrows /\ UNCHANGED system
    \/ Return

Spec == Init /\ [][Next]_vars

-----------------------------------------------------------------------------
(***************************************************************************)
(* The error_code tells the result of this operation, whatever it held     *)
(* before the call and whatever the attempts inside the operation left in  *)
(* it (test_symbol_runtime_info.cpp, make_error_code_dirty).  One failure  *)
(* goes unnoticed: that of sysctl() on FreeBSD, in program_location() and  *)
(* in location() of an object that refers to the program.                  *)
(***************************************************************************)
ErrorCodeIsResult ==
    pc = "done" /\ ~escaped =>
        \/ (ec = "ok") = (result = "got")
        \/ /\ result = "garbage" /\ system = "FreeBSD"
           /\ op = "program_location" \/ (op = "location" /\ lib = "program")

(***************************************************************************)
(* An exception of load() and get() carries the message of the loader call *)
(* that failed in it, or none, and never one an earlier operation left:    *)
(* report_error() reads whatever dlerror() still has.                      *)
(***************************************************************************)
LoaderTextIsOwn ==
    pc = "done" /\ op \in {"load", "load_decorated", "get", "symbol_location",
                             "this_line_location"} => text # "old"

\* A load() that succeeded leaves no message of its failed attempts, nor of
\* anything before, for a later exception to pick up.
LoadLeavesNoMessage ==
    pc = "done" /\ op \in {"load", "load_decorated"} /\ result = "got"
        => dl = "none"

(***************************************************************************)
(* The overload with an error_code tells a failure by it: "\throw          *)
(* std::bad_alloc in case of insufficient memory." is all that load(path,  *)
(* ec, mode) says of exceptions (shared_library.hpp).                      *)
(***************************************************************************)
OnlyErrorCode == escaped => throws

(***************************************************************************)
(* "report_error() calls dlsym, do not use it here!" (shared_library.hpp,  *)
(* in get_void, where no loader call has failed): the text an exception    *)
(* carries is about this operation.                                        *)
(***************************************************************************)
TextIsOwn == pc = "done" => text # "old"

-----------------------------------------------------------------------------
\* The operations whose exceptions carry the text of their own loader calls.
TextOps == {"load", "load_decorated", "get", "symbol_location",
            "this_line_location"}

\* Each label is reached by the operations whose code it is part of.
OperationInv ==
    /\ pc \in {"load", "decorated", "exists", "exact", "self"} =>
          op \in {"load", "load_decorated"}
    /\ pc = "assign" => op = "assign"
    /\ pc = "symbol" => op \in {"get", "has"}
    /\ pc \in {"location", "soinfo"} => op = "location"
    /\ pc = "dladdr" =>
          op \in {"symbol_location_ptr", "symbol_location", "this_line_location"}
    /\ pc = "program" =>
          op = "program_location" \/ (op = "location" /\ lib = "program")

(***************************************************************************)
(* What an operation has made of ec and of the message so far.  Only       *)
(* symbol_location_ptr() starts with what the caller had in ec, and only   *)
(* the attempt to load by the given name and the first guess of a soinfo   *)
(* leave an error in it for what comes next.                               *)
(***************************************************************************)
ProgressInv ==
    /\ pc \notin {"idle", "dladdr", "self", "soinfo", "failed", "done"} => ec = "ok"
    /\ pc = "failed" => ec # "ok" /\ result = "nothing"
    /\ pc \in {"exists", "self"} => dl = "own"
    /\ pc = "failed" /\ op \in TextOps => dl # "old"
    /\ pc # "done" => text = "none"

EIInv ==
    /\ TypeOK /\ OperationInv /\ ProgressInv
    /\ ErrorCodeIsResult /\ LoaderTextIsOwn /\ LoadLeavesNoMessage
===============================================================================
