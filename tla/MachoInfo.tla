------------------------------ MODULE MachoInfo ------------------------------
(***************************************************************************)
(* detail/macho_info.hpp: what the class reads out of a Mach-O file, and   *)
(* what the file says.  A file is a sequence of load commands:             *)
(*   [cmd |-> "segment", sections |-> names of its sections]               *)
(*   [cmd |-> "symtab", symbols |-> sequence of [name, kind, sect, ext]]   *)
(*   [cmd |-> "other"]                                                     *)
(* The name of a symbol is a sequence: the linker puts "_" before a name   *)
(* of C.  sect counts the sections of all segments from 1.                 *)
(***************************************************************************)
EXTENDS Naturals, Sequences, SequencesExt

NoSection == 0

\* command_finder(): the commands of one kind.
Commands(f, cmd) == {i \in DOMAIN f : f[i].cmd = cmd}

\* Every section of every segment, in the order n_sect counts them.
AllSections(f) ==
    FlattenSeq([i \in DOMAIN f |-> IF i \in Commands(f, "segment")
                                   THEN f[i].sections ELSE <<>>])

\* macho_info::sections(): section_names_gather drops empty names.
Sections(f) == ToSet(AllSections(f)) \ {<<>>}

-----------------------------------------------------------------------------
\* symbol_names_gather skips what has no name or no section, or not the one
\* asked for; mutant: undefined symbols are gathered too.
GathersUndefined(sym, section_index) ==
    /\ sym.name # <<>>
    /\ section_index = NoSection \/ section_index = sym.sect
Gathers(sym, section_index) ==
    /\ sym.name # <<>>
    /\ sym.kind = "section" /\ sym.sect # NoSection
    /\ section_index = NoSection \/ section_index = sym.sect

StripUnderscore(name) == IF Head(name) = "_" THEN Tail(name) ELSE name

FileSymbols(f) == UNION {ToSet(f[i].symbols) : i \in Commands(f, "symtab")}

SymbolNames(f, section_index) ==
    {StripUnderscore(s.name) :
        s \in {x \in FileSymbols(f) : Gathers(x, section_index)}}

\* macho_info::symbols(fs)
Symbols(f) == SymbolNames(f, NoSection)

\* macho_info::symbols(fs, section_name): the index is the place of the name in
\* sections(), which has no empty names, from 1; mutant: from 0.
Place(f, name) ==
    LET all == AllSections(f)
        first == Min({i \in DOMAIN all : all[i] = name})
    IN  Cardinality({i \in 1..first : all[i] # <<>>})

SymbolsOfFromZero(f, name) ==
    IF name \in Sections(f) THEN SymbolNames(f, Place(f, name) - 1) ELSE {}
SymbolsOf(f, name) ==
    IF name \in Sections(f) THEN SymbolNames(f, Place(f, name)) ELSE {}

-----------------------------------------------------------------------------
\* What the file says: the headers of its sections, and the symbols another
\* module may bind to, which have N_EXT.
FileSections(f) == ToSet(AllSections(f)) \ {<<>>}

Defined(s) == s.kind = "section" /\ s.sect # NoSection /\ s.name # <<>>
Exported(f) == {s \in FileSymbols(f) : s.ext /\ Defined(s)}

FileExports(f) == {StripUnderscore(s.name) : s \in Exported(f)}
FileExportsOf(f, name) ==
    {StripUnderscore(s.name) : s \in {x \in Exported(f) : AllSections(f)[x.sect] = name}}

-----------------------------------------------------------------------------
(***************************************************************************)
(* What a linker sees to that leaves only external symbols in the table of *)
(* a binary, and whose sections have names of their own.                   *)
(***************************************************************************)
IsSequence(s) == s \in Seq(ToSet(s))

SymbolsExternal(f) == \A s \in FileSymbols(f) : Defined(s) => s.ext

SectionsDistinct(f) ==
    LET all == AllSections(f)
    IN  /\ IsSequence(f)
        /\ \A i \in Commands(f, "segment") : IsSequence(f[i].sections)
        /\ \A i \in DOMAIN all : all[i] # <<>>
        /\ \A i, j \in DOMAIN all : all[i] = all[j] => i = j
        /\ \A s \in FileSymbols(f) : Defined(s) => s.sect \in DOMAIN all
===============================================================================
