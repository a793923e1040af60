---------------------------- MODULE MCLibraryInfo ----------------------------
(***************************************************************************)
(* Files for the runs of LibraryInfo: small binaries of the three formats, *)
(* as linkers and strip leave them.                                        *)
(***************************************************************************)
EXTENDS LibraryInfo

Magic(format, size) ==
    CASE format = "elf"   -> ElfMagic(size)
      [] format = "pe"    -> <<"MZ">>
      [] format = "macho" -> MachoMagic(size)

Binary(format, size, body) ==
    [format |-> format, bits |-> size, body |-> body,
     blanks |-> FALSE, bytes |-> Magic(format, size),
     nt |-> IF format = "pe" THEN size ELSE NoHeader, ends |-> "after"]

NoBinary(format, blanks, bytes, ends) ==
    [format |-> format, bits |-> 32, body |-> <<>>,
     blanks |-> blanks, bytes |-> bytes, nt |-> NoHeader, ends |-> ends]

\* Nothing; text, long or short; an empty file and one of blanks; a part of the
\* ELF magic, a program for MS-DOS and one cut inside the header behind it.
Foreign ==
    {NoBinary("missing", FALSE, <<>>, "magic"),
     NoBinary("other", FALSE, <<"text">>, "after"),
     NoBinary("other", FALSE, <<"text">>, "magic"),
     NoBinary("other", FALSE, <<>>, "magic"),
     NoBinary("other", TRUE, <<>>, "magic"),
     NoBinary("other", FALSE, <<"ELF">>, "magic"),
     NoBinary("other", FALSE, <<"MZ">>, "dos"),
     NoBinary("other", FALSE, <<"MZ">>, "nt"),
     NoBinary("other", FALSE, <<"ZM">>, "after")}

\* Blanks before a magic number.
Padded == {NoBinary("other", TRUE, Magic(f, b), e) :
              f \in Formats, b \in {32, 64}, e \in {"magic", "after"}}

NoBinaries == Foreign \cup Padded

Text == <<".text">>
Data == <<".data">>
Plt == <<".plt">>
Names == {Text, Data, Plt, <<".bss">>, <<".absent">>, <<>>}

-----------------------------------------------------------------------------
\* ELF: .text, .data and the tables; the sections have the indices 1 to 6.
ElfNames == <<<<>>, Text, Data, <<".symtab">>, <<".strtab">>, <<".dynsym">>, <<".dynstr">>>>

Header(string, part, type, entries) ==
    [name |-> [string |-> string, part |-> part], type |-> type, entries |-> entries]

Sym(name, visibility, binding, sized, section) ==
    [name |-> name, visibility |-> visibility, binding |-> binding,
     sized |-> sized, section |-> section]

\* Always there: a function, an import and a symbol without a name.
Fixed == <<Sym(<<"f">>, "default", "global", TRUE, 1),
           Sym(<<"imported">>, "default", "global", FALSE, 0),
           Sym(<<>>, "default", "local", TRUE, 2)>>

Varied == {Sym(<<"g">>, v, b, z, i) :
    v \in {"default", "protected", "hidden", "internal"},
    b \in {"local", "global", "weak"}, z \in BOOLEAN, i \in {1, 2}}

\* A linker keeps hidden and local symbols out of .dynsym; strip takes .symtab
\* and .strtab away, or leaves them empty.
Dynamic(s) == s.visibility \in {"default", "protected"} /\ s.binding # "local"

ElfBody(s, stripped) ==
    LET all == Append(Fixed, s)
        symtab == IF stripped THEN <<>> ELSE all
        strtab == IF stripped THEN <<>> ELSE <<"bytes">>
    IN  [strings |-> ElfNames, headers |-> "counted",
         sections |-> <<Header(2, 1, "progbits", <<>>), Header(3, 1, "progbits", <<>>),
                        Header(4, 1, "symtab", symtab), Header(5, 1, "strtab", strtab),
                        Header(6, 1, "dynsym", SelectSeq(all, Dynamic)),
                        Header(7, 1, "strtab", <<"bytes">>)>>]

CountedElf == {Binary("elf", b, ElfBody(s, stripped)) :
                  b \in {32, 64}, s \in Varied, stripped \in BOOLEAN}

\* Too many sections for the header to count, or no section headers any more.
Uncounted(f, h) == [f EXCEPT !.body.headers = h]

ElfFiles == CountedElf \cup
    {Uncounted(Binary("elf", b, ElfBody(Sym(<<"g">>, "default", "global", TRUE, 1), FALSE)), h) :
        b \in {32, 64}, h \in {"many", "gone"}}

\* What linkers make of .rela.plt, .plt and .rela.text: names that end others,
\* in the order of the headers or not, and symbols in a section with such a name.
MergedElf ==
    {Binary("elf", b,
        [strings |-> <<<<>>, <<".rela", ".plt">>, <<".rela", ".text">>,
                       <<".dynsym">>, <<".dynstr">>>>,
         headers |-> "counted",
         sections |-> <<Header(2, i, "rela", <<>>), Header(2, 3 - i, "progbits", <<>>),
                        Header(3, 1, "rela", <<>>), Header(3, 2, "progbits", <<>>),
                        Header(4, 1, "dynsym", <<Sym(<<"f">>, "default", "global", TRUE, 2),
                                                 Sym(<<"g">>, "default", "weak", TRUE, 4)>>),
                        Header(5, 1, "strtab", <<"bytes">>)>>]) :
        b \in {32, 64}, i \in {1, 2}}

-----------------------------------------------------------------------------
\* PE: three sections, .bss without bytes in the file; two or three exports,
\* the names in another order than the functions.
PeSections == <<[name |-> Text, raw |-> TRUE], [name |-> Data, raw |-> TRUE],
                [name |-> <<".bss">>, raw |-> FALSE]>>

Export(name, ordinal) == [name |-> <<name>>, ordinal |-> ordinal]

PeBody(functions, names) ==
    [sections |-> PeSections, functions |-> functions, names |-> names]

PeFiles == {Binary("pe", b, PeBody(functions, names)) :
                b \in {32, 64}, functions \in [1..3 -> 1..2],
                names \in {<<Export("f", 1), Export("g", 2), Export("h", 3)>>,
                           <<Export("f", 3), Export("g", 1), Export("h", 2)>>}}

NoExportsPe == {Binary("pe", b, PeBody(<<>>, <<>>)) : b \in {32, 64}}

\* A function exported by its ordinal, and one exported under two names.
OrdinalPe == {Binary("pe", 64, PeBody(<<1, 1>>, <<Export("f", 1)>>)),
              Binary("pe", 64, PeBody(<<1>>, <<Export("f", 1), Export("g", 1)>>))}

-----------------------------------------------------------------------------
\* Mach-O: one or two segments among other commands, the symbol table first or
\* last.
Segment(names) == [cmd |-> "segment", sections |-> names]
Symtab(symbols) == [cmd |-> "symtab", symbols |-> symbols]
Other == [cmd |-> "other"]

MachoSym(name, kind, sect, ext) ==
    [name |-> name, kind |-> kind, sect |-> sect, ext |-> ext]

MachoSymbols == {
    <<MachoSym(<<"_", "f">>, "section", 1, TRUE),
      MachoSym(<<"_", "imported">>, "undefined", 0, TRUE),
      MachoSym(n, k, s, TRUE)>> :
        n \in {<<"_", "g">>, <<"g">>, <<"_", "_", "g">>, <<>>},
        k \in {"section", "absolute", "undefined"}, s \in {1, 2}}

MachoFiles == {Binary("macho", b, f) : b \in {32, 64},
    f \in UNION {{<<Segment(<<Text>>), Other, Segment(<<Data>>), Symtab(s)>>,
                  <<Symtab(s), Segment(<<Text, Data>>), Other>>} : s \in MachoSymbols}}

\* A function with internal linkage: its symbol has no N_EXT.
StaticMacho == {Binary("macho", 64,
    <<Segment(<<Text>>), Symtab(<<MachoSym(<<"_", "s">>, "section", 1, FALSE)>>)>>)}

\* Two segments have a section of one name, as __const of __TEXT and __DATA.
TwiceMacho == {Binary("macho", 64,
    <<Segment(<<Data>>), Segment(<<Data>>),
      Symtab(<<MachoSym(<<"_", "g">>, "section", 2, TRUE)>>)>>)}

-----------------------------------------------------------------------------
On(platform, size, files) ==
    {[os |-> platform, bits |-> size, file |-> f] : f \in files}

\* 64-bit Linux, without PE, and 32-bit Windows with everything.
MCInputs ==
    On("linux", 64, ElfFiles \cup MergedElf \cup MachoFiles \cup NoBinaries)
    \cup On("windows", 32, PeFiles \cup NoExportsPe \cup NoBinaries \cup
               {f \in ElfFiles \cup MergedElf \cup MachoFiles : f.bits = 64})

PeOnLinux == On("linux", 64, PeFiles)
MergedOnLinux == On("linux", 64, MergedElf)
OrdinalOnWindows == On("windows", 64, OrdinalPe)
ElfOnMac == On("macos", 64, ElfFiles)
StaticOnMac == On("macos", 64, StaticMacho)
TwiceOnMac == On("macos", 64, TwiceMacho)

\* The theorems about the answers are about these files.
ASSUME FilesAsLinked ==
    /\ Inputs = MCInputs => SectionsAsLinked /\ PlacesAsLinked
    /\ Inputs = PeOnLinux => AddressesThere
===============================================================================
