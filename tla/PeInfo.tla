-------------------------------- MODULE PeInfo --------------------------------
(***************************************************************************)
(* detail/pe_info.hpp: what the class reads out of a PE file, and what the *)
(* file says.  A file is a record                                          *)
(*   sections   a sequence of [name, raw]: raw when the section has bytes  *)
(*              in the file                                                *)
(*   functions  the export address table, a sequence of sections: the one  *)
(*              the address of the function is in                          *)
(*   names      the export names, a sequence of [name, ordinal]            *)
(* A file without an export directory has neither functions nor names.     *)
(* Reading past the end of a table finds other bytes of the file, so an    *)
(* operation has a set of possible outcomes: a list, an exception of the   *)
(* stream, or the end of the program where an assert fails.                *)
(***************************************************************************)
EXTENDS Answers, Naturals, Sequences, SequencesExt, FiniteSetsExt

CONSTANTS
    Garbage,    \* a name made of bytes that are none
    Asserts     \* is NDEBUG undefined

\* pe_info::sections()
Sections(f) == {f.sections[i].name : i \in DOMAIN f.sections}

\* pe_info::symbols(fs): one per name.
Symbols(f) == {f.names[i].name : i \in DOMAIN f.names}

\* The last section of that name, 0 if it is not there or not in the file.
SectionIndex(f, name) ==
    LET found == {i \in DOMAIN f.sections : f.sections[i].name = name}
    IN  IF found = {} THEN 0
        ELSE IF f.sections[Max(found)].raw THEN Max(found) ELSE 0

\* get_file_offset() of the address zero: an assert, or no section.
AddressZero == IF Asserts THEN Failing("abort") ELSE Listing({})

\* What a round finds behind the last name.
PastTheEnd == {Listing({}), Listing({Garbage}), Throws, AddressZero}

\* Round i of the loop over the exports; mutant: the functions are taken in the
\* order of the names.
RoundUnordered(f, s, i) ==
    IF i \notin DOMAIN f.names THEN PastTheEnd
    ELSE {Listing(IF f.functions[i] = s THEN {f.names[i].name} ELSE {})}
Round(f, s, i) ==
    IF i \notin DOMAIN f.names THEN PastTheEnd
    ELSE {Listing(IF f.functions[f.names[i].ordinal] = s
                  THEN {f.names[i].name} ELSE {})}

\* The rounds one after the other, until one does not come to its end.
Together(rounds) ==
    LET failed == {i \in DOMAIN rounds : rounds[i].outcome # "list"}
    IN  IF failed = {}
        THEN {Listing(UNION {rounds[i].names : i \in DOMAIN rounds})}
        ELSE {rounds[i] : i \in {j \in failed : \A k \in failed : j <= k}}

\* pe_info::symbols(fs, section_name): as many rounds as there are functions;
\* without an export directory the addresses of the tables are zero.
SymbolsOf(f, name) ==
    LET s == SectionIndex(f, name)
        all == UNION {Round(f, s, i) : i \in DOMAIN f.functions}
    IN  IF s = 0 THEN {Listing({})}
        ELSE IF f.functions = <<>> THEN {AddressZero}
        ELSE UNION {Together(r) : r \in {q \in [DOMAIN f.functions -> all] :
                  \A i \in DOMAIN q : q[i] \in Round(f, s, i)}}

-----------------------------------------------------------------------------
\* What the file says: its section headers, and the functions that have a name.
FileSections(f) == {f.sections[i].name : i \in DOMAIN f.sections}
FileExports(f) == {n.name : n \in ToSet(f.names)}
FileExportsOf(f, name) ==
    {n.name : n \in {x \in ToSet(f.names) :
                        \E i \in DOMAIN f.sections : /\ f.sections[i].name = name
                                                     /\ f.functions[x.ordinal] = i}}

-----------------------------------------------------------------------------
(***************************************************************************)
(* What a linker sees to that exports every function under one name: the   *)
(* tables have one length, and the functions are in sections with bytes in *)
(* the file, no two of one name.                                           *)
(***************************************************************************)
IsSequence(s) == s \in Seq(ToSet(s))

ExportsNamed(f) ==
    /\ IsSequence(f.sections) /\ IsSequence(f.functions) /\ IsSequence(f.names)
    /\ Len(f.names) = Len(f.functions)
    /\ \A i \in DOMAIN f.names : f.names[i].ordinal \in DOMAIN f.functions
    /\ \A i \in DOMAIN f.functions : /\ f.functions[i] \in DOMAIN f.sections
                                     /\ f.sections[f.functions[i]].raw
    /\ \A i, j \in DOMAIN f.sections : f.sections[i].name = f.sections[j].name => i = j
===============================================================================
