----------------------------- MODULE LibraryInfo -----------------------------
(***************************************************************************)
(* library_info.hpp: an object opens a file, tries the six formats in turn *)
(* on one stream, may refuse what is not native, and answers three         *)
(* questions about the file.  The stream throws when a read fails and      *)
(* stays failed.  While the file is open, another program may cut it       *)
(* short.  A file is a record of what it is                                *)
(*   format, bits   one of the six formats, or none                        *)
(*   body           what ElfInfo, PeInfo or MachoInfo read                 *)
(* and of what the probes read                                             *)
(*   bytes          its first bytes, without the blanks among them         *)
(*   blanks         are there blanks before or among those                 *)
(*   nt             the size of addresses in the header that the MS-DOS    *)
(*                  header leads to, or NoHeader                           *)
(*   ends           where it ends: with its first bytes, inside one of     *)
(*                  these headers, or after them                           *)
(***************************************************************************)
EXTENDS Answers, Naturals, Sequences, SequencesExt

CONSTANTS
    Inputs,         \* where the program runs and the file it opens
    SectionNames,   \* the names it asks symbols of
    Garbage, Asserts

Formats == {"elf", "pe", "macho"}
NoFormats == {"other", "missing"}
NoHeader == 0

Probes == <<[format |-> "elf", bits |-> 32],   [format |-> "elf", bits |-> 64],
            [format |-> "pe", bits |-> 32],    [format |-> "pe", bits |-> 64],
            [format |-> "macho", bits |-> 32], [format |-> "macho", bits |-> 64]>>

\* The last byte of the ELF magic is the class.
ElfMagic(b) == <<"ELF", IF b = 32 THEN "class32" ELSE "class64">>
DosMagic == {<<"MZ">>, <<"ZM">>}
MachoMagic(b) == IF b = 32 THEN <<"feedface">> ELSE <<"feedfacf">>

StartsWith(f, magic) ==
    \A i \in DOMAIN magic : i \in DOMAIN f.bytes /\ f.bytes[i] = magic[i]

\* The definitions of the formats: the magic numbers are the very first bytes.
IsOf(f, p) ==
    /\ ~f.blanks
    /\ CASE p.format = "elf"   -> StartsWith(f, ElfMagic(p.bits))
         [] p.format = "pe"    -> f.nt = p.bits /\ \E m \in DosMagic : StartsWith(f, m)
         [] p.format = "macho" -> StartsWith(f, MachoMagic(p.bits))

ASSUME LibraryInfoAssumption ==
    /\ Asserts \in BOOLEAN
    /\ \A x \in Inputs :
          /\ x.os \in {"linux", "windows", "macos"}
          /\ x.bits \in {32, 64} /\ x.file.bits \in {32, 64}
          /\ x.file.format \in Formats \cup NoFormats
          /\ \A k \in 1..6 : Probes[k] = [format |-> x.file.format, bits |-> x.file.bits]
                               <=> IsOf(x.file, Probes[k])
          /\ x.file.format \in Formats => x.file.ends = "after"

Elf == INSTANCE ElfInfo
Pe == INSTANCE PeInfo
Macho == INSTANCE MachoInfo

VARIABLES
    os, bits,       \* the platform, never changed
    pc,             \* "closed", "probing", "open" or "refused"
    file, cut,      \* the file, and is it shorter than it was
    onlyNative,     \* throw_if_not_native_format
    probe,          \* the format tried next while probing
    fmt,            \* fmt_, the format found
    stream,         \* the state of f_
    asked, answer   \* the last question and its outcome

vars == <<os, bits, pc, file, cut, onlyNative, probe, fmt, stream, asked, answer>>

NoFmt == [format |-> "other", bits |-> 32]
Nothing == [question |-> "none", section |-> <<>>]

TypeOK ==
    /\ pc \in {"closed", "probing", "open", "refused"}
    /\ \E x \in Inputs : os = x.os /\ bits = x.bits /\ file = x.file
    /\ cut \in BOOLEAN /\ onlyNative \in BOOLEAN
    /\ probe \in 0..Len(Probes)
    /\ fmt \in ToSet(Probes) \cup {NoFmt}
    /\ stream \in {"good", "failed"}
    /\ asked.question \in {"none", "sections", "symbols", "symbols_of"}
    /\ answer.outcome \in {"list", "throw", "abort"}
    /\ pc = "open" <=> fmt # NoFmt
    /\ pc \in {"closed", "probing"} => asked = Nothing

Closed ==
    /\ pc = "closed" /\ cut = FALSE /\ onlyNative = FALSE
    /\ probe = 0 /\ fmt = NoFmt /\ stream = "good"
    /\ asked = Nothing /\ answer = Listing({})

Init ==
    /\ \E x \in Inputs : os = x.os /\ bits = x.bits /\ file = x.file
    /\ Closed

-----------------------------------------------------------------------------
\* library_info(path, throw_if_not_native_format): exceptions() throws at once
\* when the file could not be opened.
Open(native) ==
    /\ pc = "closed"
    /\ onlyNative' = native
    /\ IF file.format = "missing"
       THEN pc' = "refused" /\ stream' = "failed" /\ UNCHANGED probe
       ELSE pc' = "probing" /\ probe' = 1 /\ UNCHANGED stream
    /\ UNCHANGED <<file, cut, fmt, asked, answer>>

\* The ELF probe reads characters with >>, which skips blanks, up to the first
\* that is another; at the end of the file it throws.  Mutant: the class is not
\* compared.
ElfMatchesAnyClass(b) == StartsWith(file, <<"ELF">>)
ElfMatches(b) == StartsWith(file, ElfMagic(b))
ElfFails(b) ==
    /\ file.ends = "magic"
    /\ \E i \in DOMAIN ElfMagic(b) :
          /\ i \notin DOMAIN file.bytes
          /\ StartsWith(file, SubSeq(ElfMagic(b), 1, i - 1))

\* LONG_ is long: the place of e_lfanew in the MS-DOS header is wrong where a
\* long has eight bytes, and the next header is sought anywhere.
LongIsEightBytes == os # "windows" /\ bits = 64
IsDos == ~file.blanks /\ \E m \in DosMagic : StartsWith(file, m)

\* The PE probe reads the MS-DOS header, and if it is one the next.
PeMatches(b) == IsDos /\ ~LongIsEightBytes /\ file.nt = b
PeFails ==
    \/ file.ends \in {"magic", "dos"}
    \/ IsDos /\ ~LongIsEightBytes /\ file.ends = "nt"

MachoMatches(b) == ~file.blanks /\ StartsWith(file, MachoMagic(b))

\* parsing_supported() of the six classes, one after the other.
Matches(p) == CASE p.format = "elf"   -> ElfMatches(p.bits)
                [] p.format = "pe"    -> PeMatches(p.bits)
                [] p.format = "macho" -> MachoMatches(p.bits)
Fails(p) == CASE p.format = "elf"   -> ElfFails(p.bits)
              [] p.format = "pe"    -> PeFails
              [] p.format = "macho" -> FALSE
MayFail(p) == cut \/ (p.format = "pe" /\ IsDos /\ LongIsEightBytes)

\* throw_if_in_...(): the one for macos tests macros that nothing defines;
\* mutant: the one for 32 bits is not called.
RefusedAnySize(p) ==
    \/ p.format = "elf" /\ os = "windows"
    \/ p.format = "pe" /\ os = "linux"
    \/ p.format = "macho" /\ os \in {"linux", "windows"}
Refused(p) ==
    \/ p.format = "elf" /\ os = "windows"
    \/ p.format = "pe" /\ os = "linux"
    \/ p.format = "macho" /\ os \in {"linux", "windows"}
    \/ p.bits = 64 /\ bits = 32

\* The exception of init(); mutant: fmt_ is set before the checks.
RefuseLate ==
    /\ pc' = "refused" /\ probe' = 0
    /\ fmt' = Probes[probe]
Refuse ==
    /\ pc' = "refused" /\ probe' = 0
    /\ UNCHANGED fmt

\* One step of init(); mutant of the second: the last format is left out.
ProbeMatches ==
    /\ pc = "probing" /\ Matches(Probes[probe]) /\ ~Fails(Probes[probe])
    /\ IF onlyNative /\ Refused(Probes[probe]) THEN Refuse
       ELSE pc' = "open" /\ fmt' = Probes[probe] /\ probe' = 0
    /\ UNCHANGED <<file, cut, onlyNative, stream, asked, answer>>

ProbeNextButOne ==
    /\ pc = "probing"
    /\ ~Matches(Probes[probe]) /\ ~Fails(Probes[probe])
    /\ IF probe = Len(Probes) - 1 THEN Refuse
       ELSE probe' = probe + 1 /\ UNCHANGED <<pc, fmt>>
    /\ UNCHANGED <<file, cut, onlyNative, stream, asked, answer>>
ProbeNext ==
    /\ pc = "probing"
    /\ ~Matches(Probes[probe]) /\ ~Fails(Probes[probe])
    /\ IF probe = Len(Probes) THEN Refuse
       ELSE probe' = probe + 1 /\ UNCHANGED <<pc, fmt>>
    /\ UNCHANGED <<file, cut, onlyNative, stream, asked, answer>>

ProbeFails ==
    /\ pc = "probing"
    /\ Fails(Probes[probe]) \/ MayFail(Probes[probe])
    /\ Refuse
    /\ stream' = "failed"
    /\ UNCHANGED <<file, cut, onlyNative, asked, answer>>

-----------------------------------------------------------------------------
\* A read of a stream that failed throws again; one of a file that was cut
\* throws unless the bytes were read before; mutant: nothing throws.
OutcomesQuiet(full) ==
    IF stream = "failed" THEN {Throws}
    ELSE full \cup (IF cut THEN {Listing({})} ELSE {})
Outcomes(full) ==
    IF stream = "failed" THEN {Throws}
    ELSE full \cup (IF cut THEN {Throws} ELSE {})

Answer(question, section, full) ==
    /\ pc = "open"
    /\ answer' \in Outcomes(full)
    /\ asked' = [question |-> question, section |-> section]
    /\ stream' = IF answer'.outcome = "throw" THEN "failed" ELSE stream
    /\ UNCHANGED <<pc, file, cut, onlyNative, probe, fmt>>

\* What a class reads in a file that is not of its format.
Anything == {Listing({}), Listing({Garbage}), Throws}

AskSections ==
    Answer("sections", <<>>,
           IF fmt.format # file.format THEN Anything
           ELSE CASE fmt.format = "elf"   -> Elf!Sections(file.body)
                  [] fmt.format = "pe"    -> {Listing(Pe!Sections(file.body))}
                  [] fmt.format = "macho" -> {Listing(Macho!Sections(file.body))})

AskSymbols ==
    Answer("symbols", <<>>,
           IF fmt.format # file.format THEN Anything
           ELSE CASE fmt.format = "elf"   -> Elf!Symbols(file.body)
                  [] fmt.format = "pe"    -> {Listing(Pe!Symbols(file.body))}
                  [] fmt.format = "macho" -> {Listing(Macho!Symbols(file.body))})

AskSymbolsOf(n) ==
    Answer("symbols_of", n,
           IF fmt.format # file.format THEN Anything
           ELSE CASE fmt.format = "elf"   -> Elf!SymbolsOf(file.body, n)
                  [] fmt.format = "pe"    -> Pe!SymbolsOf(file.body, n)
                  [] fmt.format = "macho" -> {Listing(Macho!SymbolsOf(file.body, n))})

\* Another program makes the file shorter.
Cut ==
    /\ pc \in {"probing", "open"} /\ ~cut
    /\ cut' = TRUE
    /\ UNCHANGED <<pc, file, onlyNative, probe, fmt, stream, asked, answer>>

\* The object is destroyed; an exception of the constructor leaves none.  An
\* assert that failed ends the program.
Close ==
    /\ pc \in {"open", "refused"} /\ answer.outcome # "abort"
    /\ pc' = "closed" /\ cut' = FALSE /\ onlyNative' = FALSE
    /\ probe' = 0 /\ fmt' = NoFmt /\ stream' = "good"
    /\ asked' = Nothing /\ answer' = Listing({})
    /\ UNCHANGED file

Step ==
    \/ \E native \in BOOLEAN : Open(native)
    \/ ProbeMatches \/ ProbeNext \/ ProbeFails
    \/ answer.outcome # "abort" /\ AskSections
    \/ answer.outcome # "abort" /\ AskSymbols
    \/ answer.outcome # "abort" /\ \E n \in SectionNames : AskSymbolsOf(n)
    \/ Cut \/ Close

Next == Step /\ UNCHANGED <<os, bits>>

Spec == Init /\ [][Next]_vars

-----------------------------------------------------------------------------
\* What the file says, whatever its format.
FileSections == CASE file.format = "elf"   -> Elf!FileSections(file.body)
                  [] file.format = "pe"    -> Pe!FileSections(file.body)
                  [] file.format = "macho" -> Macho!FileSections(file.body)
FileExports == CASE file.format = "elf"   -> Elf!FileExports(file.body)
                 [] file.format = "pe"    -> Pe!FileExports(file.body)
                 [] file.format = "macho" -> Macho!FileExports(file.body)
FileExportsOf(n) == CASE file.format = "elf"   -> Elf!FileExportsOf(file.body, n)
                      [] file.format = "pe"    -> Pe!FileExportsOf(file.body, n)
                      [] file.format = "macho" -> Macho!FileExportsOf(file.body, n)

IsBinary == file.format \in Formats

Complete(names) == answer.outcome = "list" => answer.names = names

\* The header of an ELF file counts the sections.
Counted == file.format = "elf" => Elf!Counted(file.body)

\* The ELF probe does not see the blanks a file begins with, so that the
\* magic number may be anywhere behind them.
BlanksSkipped == fmt.format = "elf" /\ file.blanks

(***************************************************************************)
(* Six probes on one stream, which read it in different ways and may fail  *)
(* on the files of the others, find the format and the address size that   *)
(* the definition of the format gives the file.  The exception is a file   *)
(* with blanks before the ELF magic, which is no binary and taken for one. *)
(***************************************************************************)
FormatIsFile ==
    pc = "open" => \/ fmt = [format |-> file.format, bits |-> file.bits]
                   \/ BlanksSkipped

\* What the operating system loads: one format, and no addresses wider than
\* its own.
Native(f) ==
    /\ f.format = CASE os = "linux" -> "elf" [] os = "windows" -> "pe"
                    [] os = "macos" -> "macho"
    /\ f.bits <= bits

(***************************************************************************)
(* "Throw an exception if this file format is not supported by OS"         *)
(* (library_info.hpp, the constructor).                                    *)
(***************************************************************************)
NonNativeRefused == pc = "open" /\ onlyNative => Native(file) \/ BlanksSkipped

(***************************************************************************)
(* "Currently understands ELF, MACH-O and PE formats on all the platforms" *)
(* (library_info.hpp): an object is refused only for a file that is no     *)
(* binary, or not native where that was asked for, or cut short.           *)
(***************************************************************************)
FormatsUnderstood ==
    pc = "refused" => \/ cut
                      \/ file.format \in NoFormats
                      \/ onlyNative /\ ~Native(file)

(***************************************************************************)
(* sections(): "List of sections that exist in binary file." (the comment  *)
(* of sections() in library_info.hpp).  Of an ELF file that does not count *)
(* its sections in its header the answer is anything.                      *)
(***************************************************************************)
SectionsListed ==
    asked.question = "sections" /\ IsBinary /\ Counted => Complete(FileSections)

(***************************************************************************)
(* What sections() keeps of that for an ELF file, where it walks the table *)
(* of names and never sees a section: each name it lists is that of a      *)
(* section, and a section it misses has a name that ends a listed one, in  *)
(* any table a linker or strip writes.  A file cut while it is read gives  *)
(* an exception, never a part of the list.                                 *)
(***************************************************************************)
OnlyEndsMissed ==
    asked.question = "sections" /\ file.format = "elf" /\ Counted
            /\ answer.outcome = "list" =>
        /\ answer.names \subseteq FileSections
        /\ \A n \in FileSections : \E m \in answer.names : Elf!Ends(n, m)

(***************************************************************************)
(* symbols(): "List of all the exportable symbols from all the sections    *)
(* that exist in binary file.", from whatever tables a linker or a strip   *)
(* left in it.  No symbol is found without the count of sections, and none *)
(* is made of the bytes that are then taken for names.                     *)
(***************************************************************************)
SymbolsListed ==
    asked.question = "symbols" /\ IsBinary => Complete(IF Counted THEN FileExports ELSE {})

(***************************************************************************)
(* symbols(section_name): "List of symbols from the specified section.",   *)
(* which finds a symbol's section through two tables of the file.          *)
(***************************************************************************)
SectionSymbolsListed ==
    asked.question = "symbols_of" /\ IsBinary
        => Complete(IF Counted THEN FileExportsOf(asked.section) ELSE {})

(***************************************************************************)
(* assert(virtual_address) and assert(real_offset) (pe_info.hpp) hold in   *)
(* every call.                                                             *)
(***************************************************************************)
AssertsHold == answer.outcome # "abort"
-----------------------------------------------------------------------------
\* The formats tried so far are not the one of the file.
ProbeInv ==
    pc = "probing" => /\ probe \in DOMAIN Probes
                      /\ \A k \in 1..probe - 1 : ~Matches(Probes[k])

\* Why a file was refused, or was not.
RefusalInv ==
    /\ pc = "open" /\ onlyNative => ~Refused(fmt)
    /\ pc = "refused" =>
          \/ cut
          \/ file.format \in NoFormats
          \/ onlyNative /\ Refused([format |-> file.format, bits |-> file.bits])
          \/ file.format = "pe" /\ LongIsEightBytes

LIInv == TypeOK /\ ProbeInv /\ RefusalInv /\ FormatIsFile

-----------------------------------------------------------------------------
(***************************************************************************)
(* What the linkers and strip that made the files see to, question by      *)
(* question: where it holds the answer is what the file says.              *)
(***************************************************************************)
Bodies(format) == {x.file.body : x \in {y \in Inputs : y.file.format = format}}
CountedBodies == {b \in Bodies("elf") : Elf!Counted(b)}

SectionsAsLinked == \A b \in CountedBodies : Elf!NamesWhole(b)

SymbolsAsLinked ==
    /\ \A b \in CountedBodies : Elf!SectionsDistinct(b) /\ Elf!SymbolsKept(b)
    /\ \A b \in Bodies("macho") : Macho!SymbolsExternal(b)

PlacesAsLinked ==
    /\ SymbolsAsLinked
    /\ \A b \in CountedBodies : Elf!SymbolsPlaced(b)
    /\ \A b \in Bodies("pe") : Pe!ExportsNamed(b)
    /\ \A b \in Bodies("macho") : Macho!SectionsDistinct(b)

AddressesThere ==
    \A b \in Bodies("pe") : Pe!ExportsNamed(b) /\ b.functions # <<>>
===============================================================================
