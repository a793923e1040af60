------------------------------- MODULE ElfInfo -------------------------------
(***************************************************************************)
(* detail/elf_info.hpp: what the class reads out of an ELF file, and what  *)
(* the file says.  A file is a record                                      *)
(*   strings   the table of section names, a sequence of strings, of which *)
(*             the first is empty; a string is a sequence of parts,        *)
(*             because a linker lets a name that ends another one (".plt"  *)
(*             in ".rela.plt") share its bytes                             *)
(*   sections  a sequence of [name, type, entries]: the name is a string   *)
(*             and the part it starts at, the entries of a symbol table    *)
(*             are symbols and those of a string table do not matter       *)
(*   headers   "counted" if the ELF header says how many sections there    *)
(*             are and which has the names; "many" if there are more than  *)
(*             65279, which the first section header says then; "gone" if  *)
(*             the section headers were removed, with what they describe   *)
(*             left in the file                                            *)
(* A symbol is [name, visibility, binding, sized, section].  The null      *)
(* section is not listed: section i has the index i in the code.           *)
(***************************************************************************)
EXTENDS Answers, Naturals, Sequences, SequencesExt, FiniteSetsExt

CONSTANT Garbage    \* a name made of bytes that are none

Undefined == 0

SectionName(f, i) ==
    LET ref == f.sections[i].name
        string == f.strings[ref.string]
    IN  SubSeq(string, ref.part, Len(string))

Counted(f) == f.headers = "counted"

\* The loops run to e_shnum, which is zero where that is not the count.
Headers(f) == IF Counted(f) THEN DOMAIN f.sections ELSE {}
SectionsNamed(f, name) == {i \in Headers(f) : SectionName(f, i) = name}

\* sections_names_raw(): an e_shstrndx that is no index leads to the ELF header
\* itself, or past the table, and from there anywhere in the file or out of it.
NamesRead(f, answers) == answers \cup (IF Counted(f) THEN {} ELSE {Throws})

\* elf_info::sections(): every string of the table, the headers are not read;
\* mutant: the walk ends at the first empty string.
SectionsToEmpty(f) ==
    NamesRead(f, {Listing({f.strings[k] : k \in
        {j \in DOMAIN f.strings : \A i \in 1..j : f.strings[i] # <<>>}})})
Sections(f) ==
    NamesRead(f, IF Counted(f) THEN {Listing(ToSet(f.strings) \ {<<>>})}
                 ELSE {Listing({}), Listing({Garbage})})

-----------------------------------------------------------------------------
\* The last section of a type and a name, what the loop over the headers keeps.
Contents(f, type, name) ==
    LET found == {i \in SectionsNamed(f, name) : f.sections[i].type = type}
    IN  IF found = {} THEN <<>> ELSE f.sections[Max(found)].entries

\* elf_info::symbols_text(): ".symtab" if it and its strings are there, else
\* ".dynsym"; mutant: ".dynsym" stands in for ".symtab" never.
SymbolTableOnly(f) ==
    IF Contents(f, "strtab", <<".strtab">>) # <<>>
    THEN Contents(f, "symtab", <<".symtab">>) ELSE <<>>
SymbolTable(f) ==
    LET symtab == Contents(f, "symtab", <<".symtab">>)
        strtab == Contents(f, "strtab", <<".strtab">>)
        dynstr == Contents(f, "strtab", <<".dynstr">>)
    IN  IF symtab # <<>> /\ strtab # <<>> THEN symtab
        ELSE IF dynstr # <<>> THEN Contents(f, "dynsym", <<".dynsym">>)
        ELSE <<>>

\* elf_info::is_visible()
IsVisible(sym) ==
    /\ sym.visibility \in {"default", "protected"}
    /\ sym.binding # "local"
    /\ sym.sized

\* The symbols both queries list, if they have a name.
Listed(f) == {s \in ToSet(SymbolTable(f)) : IsVisible(s) /\ s.name # <<>>}
Names(symbols) == {s.name : s \in symbols}

\* elf_info::symbols(fs)
Symbols(f) ==
    NamesRead(f, {Listing(Names(Listed(f)))})

\* The first section of that name, or the number of sections.  A null name is
\* the one of the null section.
SectionIndex(f, name) ==
    LET found == SectionsNamed(f, name)
    IN  IF name = <<>> THEN Undefined
        ELSE IF found = {} THEN Len(f.sections) + 1
        ELSE Min(found)

\* elf_info::symbols(fs, section_name)
SymbolsOf(f, name) ==
    NamesRead(f, {Listing(Names({s \in Listed(f) : s.section = SectionIndex(f, name)}))})

-----------------------------------------------------------------------------
\* What the file says: the names in its headers, and the symbols of any of its
\* tables another module may bind to.
FileHeaders(f) == IF f.headers = "gone" THEN {} ELSE DOMAIN f.sections
FileSections(f) == {SectionName(f, i) : i \in FileHeaders(f)} \ {<<>>}

FileSymbols(f) ==
    UNION {ToSet(f.sections[i].entries) : i \in
               {j \in DOMAIN f.sections : f.sections[j].type \in {"symtab", "dynsym"}}}

Exported(f) ==
    {s \in FileSymbols(f) : /\ s.visibility \in {"default", "protected"}
                            /\ s.binding \in {"global", "weak"}
                            /\ s.sized /\ s.name # <<>>}

FileExports(f) == Names(Exported(f))
FileExportsOf(f, name) ==
    Names({s \in Exported(f) : /\ s.section \in FileHeaders(f)
                               /\ SectionName(f, s.section) = name})

-----------------------------------------------------------------------------
(***************************************************************************)
(* What an answer depends on, for each question as little as it needs.     *)
(* Linkers and strip see to it, but for SectionsDistinct: a linker keeps   *)
(* sections of one name apart when told to.                                *)
(***************************************************************************)
IsSequence(s) == s \in Seq(ToSet(s))

\* n is the end of m.
Ends(n, m) == \E k \in DOMAIN m : n = SubSeq(m, k, Len(m))

\* A section has the end of a string for its name, and each string is the whole
\* name of some section: a table has no string that is only shared.
NamesWhole(f) ==
    /\ IsSequence(f.strings)
    /\ \A k \in DOMAIN f.strings : IsSequence(f.strings[k])
    /\ \A i \in DOMAIN f.sections :
          LET ref == f.sections[i].name
          IN  ref.string \in DOMAIN f.strings /\ ref.part \in Nat \ {0}
    /\ \A k \in DOMAIN f.strings : f.strings[k] # <<>> =>
          \E i \in DOMAIN f.sections : f.sections[i].name = [string |-> k, part |-> 1]

\* No two sections have one name.
SectionsDistinct(f) ==
    /\ IsSequence(f.sections)
    /\ \A i, j \in DOMAIN f.sections : SectionName(f, i) = SectionName(f, j) => i = j

\* The tables have the names they have by convention, and their strings; what
\* .dynsym exports is in .symtab too, unless that was stripped.
SymbolsKept(f) ==
    LET symtab == Contents(f, "symtab", <<".symtab">>)
        dynsym == Contents(f, "dynsym", <<".dynsym">>)
    IN  /\ \A i \in DOMAIN f.sections :
              /\ f.sections[i].type = "symtab" => SectionName(f, i) = <<".symtab">>
              /\ f.sections[i].type = "dynsym" => SectionName(f, i) = <<".dynsym">>
        /\ symtab # <<>> => Contents(f, "strtab", <<".strtab">>) # <<>>
        /\ dynsym # <<>> => Contents(f, "strtab", <<".dynstr">>) # <<>>
        /\ symtab # <<>> => ToSet(dynsym) \cap Exported(f) \subseteq ToSet(symtab)
        /\ \A s \in FileSymbols(f) : s.binding \in {"local", "global", "weak"}

\* A symbol another module may bind to is in a section, which has a name.
SymbolsPlaced(f) ==
    /\ \A i \in DOMAIN f.sections : SectionName(f, i) # <<>>
    /\ \A s \in Exported(f) : s.section \in DOMAIN f.sections
===============================================================================
